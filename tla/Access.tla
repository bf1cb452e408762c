------------------------------- MODULE Access -------------------------------
(***************************************************************************)
(* The sessions of platform and merchant staff.  MySQL holds the staff     *)
(* accounts and the tenants; Redis holds the token versions and the        *)
(* blacklist, and may be out of reach, in which case every call to it is   *)
(* skipped (core/redis.py).  A token is checked by the TenantGuard         *)
(* middleware on each request.                                             *)
(*                                                                         *)
(* Every read and write of Redis, and every transaction, is a step of its  *)
(* own.  Time counts in lives of an access token; a request is shorter.    *)
(***************************************************************************)
EXTENDS Naturals, FiniteSets

CONSTANTS Platform, Merchant,   \* the staff of the two scopes
          Tenants, TenantOf,    \* TenantOf[a]: the tenant of a merchant's staff
          Rosters,              \* the sets of accounts that may exist
          Workers,              \* requests handled at the same time
          Names,                \* jtis; one is used again when nothing refers to it
          AccessLife,           \* JWT_ACCESS_EXPIRE
          RefreshLife,          \* JWT_REFRESH_EXPIRE, and the TTL of the blacklist
          Settings,             \* the tenant statuses in use
          NoVersion,            \* no claim tv: the token was issued while Redis was down
          MaxTime, MaxPasswords \* bounds on the clock and on the passwords of an account

Staff == Platform \union Merchant

ASSUME AccessAssumption ==
  /\ Platform \intersect Merchant = {} /\ Staff # {} /\ Names # {}
  /\ TenantOf \in [Merchant -> Tenants]
  /\ Settings \subseteq {"NORMAL", "TRIAL", "EXPIRED", "DISABLED"} /\ "NORMAL" \in Settings
  /\ AccessLife \in Nat \ {0} /\ RefreshLife \in Nat /\ AccessLife <= RefreshLife
  /\ Rosters \subseteq SUBSET Staff /\ NoVersion \notin Nat
  /\ MaxTime \in Nat /\ MaxPasswords \in Nat

VARIABLES
  now,        \* the clock
  up,         \* Redis answers
  version,    \* version[a]: jwt:tv of the account, 0 when there is no key
  blacklist,  \* the entries jwt:blacklist
  account,    \* account[a]: the row of pf_staff or mc_staff, where there is one
  tenant,     \* tenant[t]: status in pf_tenant
  tokens,     \* the tokens that clients hold and that have not expired
  out,        \* the jtis that a logout has put on the blacklist
  covered,    \* covered[a]: the last password whose change has raised the version
  tx          \* tx[w]: the request a worker handles

redis == <<up, version, blacklist>>
vars == <<now, redis, account, tenant, tokens, out, covered, tx>>

Versions == Nat \union {NoVersion}

(* password: how many passwords the account has had before.                *)
AccountRow == [enabled: BOOLEAN, password: Nat]

(* The claims of a token, and how it came about: the password it goes back *)
(* to, when that was checked, and whether no change of the password was    *)
(* under way, and no check skipped, on the way from there.                 *)
Token == [jti: Names, who: Staff, typ: {"access", "refresh"}, tv: Versions, exp: Nat,
          password: Nat, root: Nat, clean: BOOLEAN]

Ops == {"idle",
        "guarded", "admitted",         \* between the checks of TenantGuard; past them
        "renewed",                     \* a refresh token is accepted
        "issue",                       \* tokens are due
        "write", "raise"}              \* a new password is to be written; announced

(* who and jti belong to the token presented; pair: a refresh token is due *)
(* as well.                                                                *)
(* barred: in every state since the request came the rows refused it, on   *)
(* the grounds that a request of its kind is refused for.  raised: the     *)
(* version has been raised for this change.                                *)
Request == [op: Ops, who: Staff, jti: Names, password: Nat, root: Nat, clean: BOOLEAN, pair: BOOLEAN, barred: BOOLEAN, raised: BOOLEAN]

Idle == [op |-> "idle", who |-> CHOOSE a \in Staff : TRUE, jti |-> CHOOSE n \in Names : TRUE,
         password |-> 0, root |-> 0, clean |-> TRUE, pair |-> TRUE, barred |-> FALSE, raised |-> FALSE]

TypeOK ==
  /\ now \in Nat
  /\ up \in BOOLEAN
  /\ version \in [Staff -> Nat]
  /\ blacklist \subseteq [jti: Names, until: Nat]
  /\ DOMAIN account \in Rosters /\ \A a \in DOMAIN account : account[a] \in AccountRow
  /\ tenant \in [Tenants -> Settings]
  /\ tokens \subseteq Token
  /\ out \subseteq Names
  /\ covered \in [Staff -> Nat]
  /\ tx \in [Workers -> Request]

-----------------------------------------------------------------------------
(* What the rows say against a request.                                    *)

Closed(t, status) == status[t] \in {"DISABLED", "EXPIRED"}

(* TenantGuard does not look at platform staff.                            *)
Barred(a, rows, status) ==
  a \in Merchant /\ (Closed(TenantOf[a], status) \/ ~rows[a].enabled)

(* TenantGuard refuses the staff of a closed tenant and disabled ones.  A  *)
(* renewal is refused to disabled staff alone: like the login, it does not *)
(* look at the tenant.                                                     *)
Refused(op, a, rows, status) ==
  \/ op = "guarded" /\ Barred(a, rows, status)
  \/ op = "renewed" /\ ~rows[a].enabled

-----------------------------------------------------------------------------
(* Tokens.                                                                 *)

(* get_token_version.                                                      *)
CurrentVersion(a) == IF up THEN version[a] ELSE NoVersion

(* token_version_valid.                                                    *)
VersionValid(tok) == tok.tv = NoVersion \/ ~up \/ tok.tv = version[tok.who]

(* is_token_blacklisted.                                                   *)
Blacklisted(n) == up /\ \E b \in blacklist : b.jti = n

Free == Names \ ({tok.jti : tok \in tokens} \union {b.jti : b \in blacklist})

(* A password change of the account has taken its first step and not yet   *)
(* its last.                                                               *)
UnderWay(a) == \E w \in Workers : tx[w].op \in {"write", "raise"} /\ tx[w].who = a

(* The change starts: what is on the way to a token is not clean.          *)
Tainted(a) == [w \in Workers |-> [tx[w] EXCEPT !.clean = @ /\ tx[w].who # a]]

Reply(w) == tx' = [tx EXCEPT ![w] = Idle]

(* Tokens are due to the account a, for the password it has.               *)
Due(a) == [Idle EXCEPT !.op = "issue", !.who = a, !.password = account[a].password,
                       !.root = now, !.clean = ~UnderWay(a)]

Login(w, a) ==
  /\ tx[w].op = "idle"
  /\ account[a].enabled
  /\ tx' = [tx EXCEPT ![w] = Due(a)]
  /\ UNCHANGED <<now, redis, account, tenant, tokens, out, covered>>

(* A variant that renews from any token.                                   *)
AnyToken(tok) == TRUE

Renewable(tok) == tok.typ = "refresh"

(* Platform staff send the refresh token as their bearer token, so that    *)
(* TenantGuard sees it; merchants send it in the body.                     *)
RefreshBegin(w, tok) ==
  /\ tx[w].op = "idle"
  /\ tok.exp > now
  /\ VersionValid(tok)
  /\ tok.who \in Platform => ~Blacklisted(tok.jti)
  /\ Renewable(tok)
  /\ tx' = [tx EXCEPT ![w] =
       [Idle EXCEPT !.op = "renewed", !.who = tok.who, !.password = tok.password,
                    !.root = tok.root, !.pair = tok.who \in Platform,
                    !.clean = tok.clean /\ up /\ tok.tv # NoVersion /\ ~UnderWay(tok.who),
                    !.barred = Refused("renewed", tok.who, account, tenant)]]
  /\ UNCHANGED <<now, redis, account, tenant, tokens, out, covered>>

(* A variant that trusts the token.                                        *)
StillThere(a) == TRUE

Enabled(a) == account[a].enabled

RefreshRow(w) ==
  /\ tx[w].op = "renewed"
  /\ IF Enabled(tx[w].who) THEN tx' = [tx EXCEPT ![w].op = "issue"] ELSE Reply(w)
  /\ UNCHANGED <<now, redis, account, tenant, tokens, out, covered>>

Life(typ) == IF typ = "access" THEN AccessLife ELSE RefreshLife

Typs(r) == IF r.pair THEN {"access", "refresh"} ELSE {"access"}

NewToken(n, typ, r) ==
  [jti |-> n, who |-> r.who, typ |-> typ, tv |-> CurrentVersion(r.who), exp |-> now + Life(typ),
   password |-> r.password, root |-> r.root, clean |-> r.clean]

(* create_access_token and create_refresh_token.  The client keeps what it *)
(* likes of the answer, and there are names for.                           *)
Issue(w) ==
  /\ tx[w].op = "issue"
  /\ \E typs \in SUBSET Typs(tx[w]) :
       \E name \in [typs -> Free] :
         /\ Cardinality({name[typ] : typ \in typs}) = Cardinality(typs)
         /\ tokens' = tokens \union {NewToken(name[typ], typ, tx[w]) : typ \in typs}
  /\ Reply(w)
  /\ UNCHANGED <<now, redis, account, tenant, out, covered>>

(* The client drops a token.                                               *)
Forget(tok) ==
  /\ tokens' = tokens \ {tok}
  /\ out' = out \ {tok.jti}
  /\ UNCHANGED <<now, redis, account, tenant, covered, tx>>

-----------------------------------------------------------------------------
(* TenantGuard and the handlers behind it.                                 *)

GuardRedis(w, tok) ==
  /\ tx[w].op = "idle"
  /\ tok.exp > now
  /\ ~Blacklisted(tok.jti)
  /\ VersionValid(tok)
  /\ tx' = [tx EXCEPT ![w] = [Idle EXCEPT !.op = "guarded", !.who = tok.who, !.jti = tok.jti,
                                          !.barred = Refused("guarded", tok.who, account, tenant)]]
  /\ UNCHANGED <<now, redis, account, tenant, tokens, out, covered>>

GuardRows(w) ==
  /\ tx[w].op = "guarded"
  /\ IF Barred(tx[w].who, account, tenant)
     THEN Reply(w)
     ELSE tx' = [tx EXCEPT ![w].op = "admitted"]
  /\ UNCHANGED <<now, redis, account, tenant, tokens, out, covered>>

(* An error in reading the rows is swallowed and the request passes, so    *)
(* nothing can be said of it.                                              *)
GuardBlind(w) ==
  /\ tx[w].op = "guarded"
  /\ tx' = [tx EXCEPT ![w].op = "admitted", ![w].barred = FALSE]
  /\ UNCHANGED <<now, redis, account, tenant, tokens, out, covered>>

(* A variant that forgets the entry before a refresh token expires.        *)
ShortTtl == 1

BlacklistTtl == RefreshLife

Logout(w) ==
  /\ tx[w].op = "admitted"
  /\ IF up
     THEN /\ blacklist' = blacklist \union {[jti |-> tx[w].jti, until |-> now + BlacklistTtl]}
          /\ out' = out \union {tx[w].jti}
     ELSE UNCHANGED <<blacklist, out>>
  /\ Reply(w)
  /\ UNCHANGED <<now, up, version, account, tenant, tokens, covered>>

(* Any other handler, an error, or the loss of the process.                *)
Leave(w) ==
  /\ tx[w].op # "idle"
  /\ Reply(w)
  /\ UNCHANGED <<now, redis, account, tenant, tokens, out, covered>>

-----------------------------------------------------------------------------
(* Changes of a password.                                                  *)

(* A variant that raises the version of another scope.                     *)
RaisedElsewhere(a) == version

(* bump_token_version.                                                     *)
Raised(a) == IF up THEN [version EXCEPT ![a] = @ + 1] ELSE version

Later(a, b) == IF a >= b THEN a ELSE b

NextPassword(a) == account' = [account EXCEPT ![a].password = @ + 1]

(* The new password is committed before the version is raised: a merchant  *)
(* changes his own, or (reset_pwd) platform staff get a new one.           *)
WriteFirst(w, a) ==
  /\ \/ tx[w].op = "admitted" /\ a = tx[w].who /\ a \in Merchant
     \/ tx[w].op = "idle" /\ a \in Platform
  /\ account[a].password < MaxPasswords
  /\ NextPassword(a)
  /\ tx' = [Tainted(a) EXCEPT ![w] = [Idle EXCEPT !.op = "raise", !.who = a,
                                                  !.password = account[a].password + 1]]
  /\ UNCHANGED <<now, redis, tenant, tokens, out, covered>>

RaiseLast(w) ==
  LET a == tx[w].who IN
  /\ tx[w].op = "raise"
  /\ version' = Raised(a)
  /\ covered' = IF up THEN [covered EXCEPT ![a] = Later(@, tx[w].password)] ELSE covered
  /\ Reply(w)
  /\ UNCHANGED <<now, up, blacklist, account, tenant, tokens, out>>

(* Platform staff change their own: the version is raised first.           *)
RaiseFirst(w) ==
  LET a == tx[w].who IN
  /\ tx[w].op = "admitted" /\ a \in Platform
  /\ version[a] < MaxPasswords
  /\ version' = Raised(a)
  /\ tx' = [Tainted(a) EXCEPT ![w] = [Idle EXCEPT !.op = "write", !.who = a, !.raised = up]]
  /\ UNCHANGED <<now, up, blacklist, account, tenant, tokens, out, covered>>

WriteLast(w) ==
  LET a == tx[w].who IN
  /\ tx[w].op = "write"
  /\ account[a].password < MaxPasswords
  /\ NextPassword(a)
  /\ covered' = IF tx[w].raised THEN [covered EXCEPT ![a] = account[a].password + 1] ELSE covered
  /\ Reply(w)
  /\ UNCHANGED <<now, redis, tenant, tokens, out>>

(* The edits of a staff row may set a password too; they raise nothing.    *)
EditPassword(a) ==
  /\ account[a].password < MaxPasswords
  /\ NextPassword(a)
  /\ UNCHANGED <<now, redis, tenant, tokens, out, covered, tx>>

-----------------------------------------------------------------------------
(* Statuses, set by platform staff and by the merchant.                    *)

(* Whether each open request is still refused.                             *)
StillBarred(rows, status) ==
  [w \in Workers |->
     [tx[w] EXCEPT !.barred = @ /\ Refused(tx[w].op, tx[w].who, rows, status)]]

(* set_status, update_tenant, renew.                                       *)
SetTenant(t, status) ==
  /\ status # tenant[t]
  /\ tenant' = [tenant EXCEPT ![t] = status]
  /\ tx' = StillBarred(account, tenant')
  /\ UNCHANGED <<now, redis, account, tokens, out, covered>>

(* toggle_status, merchant_staff_update.                                   *)
SetStaff(a) ==
  /\ account' = [account EXCEPT ![a].enabled = ~@]
  /\ tx' = StillBarred(account', tenant)
  /\ UNCHANGED <<now, redis, tenant, tokens, out, covered>>

-----------------------------------------------------------------------------
RedisFlips ==
  /\ up' = ~up
  /\ UNCHANGED <<now, version, blacklist, account, tenant, tokens, out, covered, tx>>

(* A life of an access token passes: what has expired is dropped.          *)
Tick ==
  /\ now < MaxTime
  /\ \A w \in Workers : tx[w].op = "idle"
  /\ now' = now + 1
  /\ tokens' = {tok \in tokens : tok.exp > now'}
  /\ blacklist' = {b \in blacklist : b.until > now'}
  /\ out' = out \intersect {tok.jti : tok \in tokens'}
  /\ UNCHANGED <<up, version, account, tenant, covered, tx>>

Init ==
  /\ now = 0 /\ up = TRUE
  /\ version = [a \in Staff |-> 0]
  /\ blacklist = {}
  /\ \E S \in Rosters : account = [a \in S |-> [enabled |-> TRUE, password |-> 0]]
  /\ tenant = [t \in Tenants |-> "NORMAL"]
  /\ tokens = {} /\ out = {}
  /\ covered = [a \in Staff |-> 0]
  /\ tx = [w \in Workers |-> Idle]

Next ==
  \/ \E w \in Workers :
       \/ \E a \in DOMAIN account : Login(w, a) \/ WriteFirst(w, a)
       \/ \E tok \in tokens : RefreshBegin(w, tok) \/ GuardRedis(w, tok)
       \/ RefreshRow(w) \/ Issue(w)
       \/ GuardRows(w) \/ GuardBlind(w) \/ Logout(w) \/ Leave(w)
       \/ RaiseLast(w) \/ RaiseFirst(w) \/ WriteLast(w)
  \/ \E a \in DOMAIN account : EditPassword(a) \/ SetStaff(a)
  \/ \E t \in Tenants, s \in Settings : SetTenant(t, s)
  \/ \E tok \in tokens : Forget(tok)
  \/ RedisFlips
  \/ Tick

Spec == Init /\ [][Next]_vars

-----------------------------------------------------------------------------
(* Properties.                                                             *)

(* Once a password change has raised the version and ended, no token that  *)
(* goes back to an older password, over any number of renewals, passes the *)
(* version check; except tokens whose issue or renewal overlapped a change *)
(* or was made while Redis was down.                                       *)
RevocationHolds ==
  \A tok \in tokens :
    tok.clean /\ tok.tv = version[tok.who] => tok.password >= covered[tok.who]

(* A request of a merchant's staff that finds its tenant closed, or its    *)
(* account disabled, from its arrival at TenantGuard to its last check is  *)
(* not admitted, and a renewal that finds its account disabled all along   *)
(* brings no tokens, whatever is switched meanwhile.  No more than that: a *)
(* login and a renewal do bring tokens to the staff of a closed tenant     *)
(* (mc_auth.py:76, :138-145), for which TenantGuard refuses every request, *)
(* and TenantGuard admits disabled platform staff with tokens they have.   *)
BarredRefused ==
  \A w \in Workers : tx[w].op \in {"admitted", "issue"} => ~tx[w].barred

(* A token that was logged out stays on the blacklist until it expires.    *)
LogoutHolds ==
  \A tok \in tokens : tok.jti \in out => \E b \in blacklist : b.jti = tok.jti

(* A merchant's session ends: however often it is renewed, its last access *)
(* token expires before the sum of the two lives after the login.          *)
SessionBounded ==
  \A tok \in tokens :
    tok.who \in Merchant => tok.exp < tok.root + RefreshLife + AccessLife

=============================================================================
