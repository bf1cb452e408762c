----------------------------- MODULE AccessProofs -----------------------------
(***************************************************************************)
(* Proofs about module Access for every number of accounts, tenants,       *)
(* tokens, requests and outages of Redis.                                  *)
(***************************************************************************)
EXTENDS Access, TLAPS

(* What a client's token tells about the tables and Redis.                 *)
TokFacts(tok) ==
  /\ tok.who \in DOMAIN account
  /\ tok.exp <= now + RefreshLife
  /\ tok.who \in Merchant =>
       /\ tok.typ = "refresh" => tok.exp = tok.root + RefreshLife
       /\ tok.exp < tok.root + RefreshLife + AccessLife
  /\ tok.tv \in Nat => tok.tv <= version[tok.who]
  /\ tok.clean /\ tok.tv = version[tok.who] => tok.password >= covered[tok.who]
  /\ tok.jti \in out => \E b \in blacklist : b.jti = tok.jti /\ b.until >= tok.exp

(* A change that has raised the version has yet to write the password: no  *)
(* clean token has this version.                                           *)
Announced(t) ==
  t.op = "write" /\ t.raised =>
    \A tok \in tokens : tok.who = t.who /\ tok.clean => tok.tv # version[t.who]

(* What a request has read still holds, or has been noted.                 *)
Facts(t) ==
  /\ t.op # "idle" => t.who \in DOMAIN account
  /\ t.op \in {"renewed", "issue"} /\ t.who \in Merchant =>
       now < t.root + RefreshLife /\ (t.pair => t.root = now)
  /\ t.op \in {"renewed", "issue"} /\ t.clean =>
       ~UnderWay(t.who) /\ t.password >= covered[t.who]
  /\ t.op = "raise" => t.password <= account[t.who].password
  /\ t.op = "guarded" /\ t.barred => Barred(t.who, account, tenant)
  /\ t.op = "renewed" /\ t.barred => ~account[t.who].enabled
  /\ t.op \in {"admitted", "issue"} => ~t.barred

(* A name on the list of those logged out is not free.                     *)
OutNamed == \A n \in out : n \notin Free

CoveredPast == \A a \in DOMAIN account : covered[a] <= account[a].password

IndInv ==
  /\ TypeOK
  /\ \A tok \in tokens : TokFacts(tok)
  /\ \A w \in Workers : Announced(tx[w]) /\ Facts(tx[w])
  /\ OutNamed
  /\ CoveredPast
-----------------------------------------------------------------------------
LEMMA IdleType ==
  Idle \in Request /\ Idle.op = "idle"
BY AccessAssumption DEF Idle, Request, Ops

(* The parts of the type invariant, and the rows as functions.             *)
LEMMA Types ==
  ASSUME IndInv
  PROVE  /\ now \in Nat /\ up \in BOOLEAN /\ version \in [Staff -> Nat]
         /\ blacklist \subseteq [jti: Names, until: Nat]
         /\ DOMAIN account \in Rosters /\ DOMAIN account \subseteq Staff
         /\ \A a \in DOMAIN account : account[a] \in AccountRow
         /\ tenant \in [Tenants -> Settings] /\ tokens \subseteq Token /\ out \subseteq Names
         /\ covered \in [Staff -> Nat] /\ tx \in [Workers -> Request]
BY AccessAssumption DEF IndInv, TypeOK

(* No new change of a password.                                            *)
LEMMA UnderWayKept ==
  ASSUME NEW a,
         \A v \in Workers : tx'[v].op \in {"write", "raise"} =>
                            tx[v].op \in {"write", "raise"} /\ tx'[v].who = tx[v].who
  PROVE  UnderWay(a)' => UnderWay(a)
BY DEF UnderWay

(* A step that replaces one request by another that changes no password.   *)
LEMMA Turn ==
  ASSUME IndInv, NEW w \in Workers, NEW t \in Request, Facts(t),
         t.op \notin {"write", "raise"}, tx' = [tx EXCEPT ![w] = t],
         UNCHANGED <<now, version, account, tenant, covered>>
  PROVE  /\ tx' \in [Workers -> Request] /\ tx'[w] = t
         /\ \A v \in Workers : v # w => tx'[v] = tx[v]
         /\ \A v \in Workers : Facts(tx[v])'
<1>1. /\ tx' \in [Workers -> Request] /\ tx'[w] = t
      /\ \A v \in Workers : v # w => tx'[v] = tx[v]
  BY Types
<1>2. \A a : UnderWay(a)' => UnderWay(a)
  BY <1>1, UnderWayKept
<1>3. ASSUME NEW v \in Workers PROVE Facts(tx[v])'
  <2>1. Facts(tx'[v])
    BY <1>1 DEF IndInv
  <2>2. tx[v]' = tx'[v]
    OBVIOUS
  <2> QED BY <1>2, <2>1 DEF Facts, Barred, Closed
<1> QED BY <1>1, <1>3

(* One that changes nothing else.                                          *)
LEMMA TurnKeeps ==
  ASSUME IndInv, NEW w \in Workers, NEW t \in Request, Facts(t),
         t.op \notin {"write", "raise"}, tx' = [tx EXCEPT ![w] = t],
         UNCHANGED <<now, version, blacklist, account, tenant, tokens, out, covered>>,
         up' \in BOOLEAN
  PROVE  IndInv'
<1>1. /\ tx' \in [Workers -> Request] /\ tx'[w] = t
      /\ \A v \in Workers : v # w => tx'[v] = tx[v]
      /\ \A v \in Workers : Facts(tx[v])'
  BY Turn
<1>2. \A v \in Workers : Announced(tx[v])'
  BY <1>1 DEF IndInv, Announced
<1>3. \A tok \in tokens' : TokFacts(tok)'
  BY DEF IndInv, TokFacts
<1>4. OutNamed' /\ CoveredPast'
  BY DEF IndInv, OutNamed, CoveredPast, Free
<1>5. TypeOK'
  BY <1>1 DEF IndInv, TypeOK
<1> QED BY <1>1, <1>2, <1>3, <1>4, <1>5 DEF IndInv

LEMMA IdleFacts == Facts(Idle)
BY IdleType DEF Facts

(* The steps of a request that only read.                                  *)
LEMMA ReadingKeeps ==
  ASSUME IndInv, NEW w \in Workers,
         \/ \E a \in DOMAIN account : Login(w, a)
         \/ \E tok \in tokens : RefreshBegin(w, tok) \/ GuardRedis(w, tok)
         \/ RefreshRow(w) \/ GuardRows(w) \/ GuardBlind(w) \/ Leave(w)
  PROVE  IndInv'
<1>1. tx[w] \in Request /\ Facts(tx[w])
  BY Types DEF IndInv
<1>2. UNCHANGED <<now, version, blacklist, account, tenant, tokens, out, covered>>
      /\ up' \in BOOLEAN
  BY Types DEF Login, RefreshBegin, GuardRedis, RefreshRow, GuardRows, GuardBlind, Leave, redis
<1>3. CASE Reply(w)
  BY <1>2, <1>3, IdleType, IdleFacts, TurnKeeps DEF Reply
<1>4. ASSUME NEW a \in DOMAIN account, Login(w, a) PROVE IndInv'
  <2> DEFINE t == Due(a)
  <2>1. a \in Staff /\ account[a] \in AccountRow /\ now \in Nat
    BY Types
  <2>2. /\ t \in Request /\ t.op = "issue" /\ t.who = a /\ t.root = now /\ ~t.barred
        /\ t.password = account[a].password /\ (t.clean => ~UnderWay(a))
    <3>1. UnderWay(a) \in BOOLEAN
      BY DEF UnderWay
    <3> QED BY <2>1, <3>1, IdleType DEF Due, Idle, Request, Ops, AccountRow
  <2>3. covered[a] <= account[a].password
    BY DEF IndInv, CoveredPast
  <2>4. RefreshLife > 0 /\ RefreshLife \in Nat
    BY AccessAssumption
  <2>5. covered[a] \in Nat /\ account[a].password \in Nat
    BY <2>1, Types DEF AccountRow
  <2>6. tx' = [tx EXCEPT ![w] = t]
    BY <1>4 DEF Login
  <2> HIDE DEF t
  <2>7. Facts(t)
    BY <2>1, <2>2, <2>3, <2>4, <2>5 DEF Facts
  <2> QED BY <1>2, <2>2, <2>6, <2>7, TurnKeeps
<1>5. ASSUME NEW tok \in tokens, RefreshBegin(w, tok) PROVE IndInv'
  <2> DEFINE t == [Idle EXCEPT !.op = "renewed", !.who = tok.who, !.password = tok.password,
                    !.root = tok.root, !.pair = tok.who \in Platform,
                    !.clean = tok.clean /\ up /\ tok.tv # NoVersion /\ ~UnderWay(tok.who),
                    !.barred = Refused("renewed", tok.who, account, tenant)]
  <2>1. tok \in Token /\ TokFacts(tok)
    BY Types DEF IndInv
  <2>2. tx' = [tx EXCEPT ![w] = t] /\ tok.exp > now /\ VersionValid(tok) /\ tok.typ = "refresh"
    BY <1>5 DEF RefreshBegin, Renewable
  <2>3. /\ t \in Request /\ t.op = "renewed" /\ t.who = tok.who /\ t.password = tok.password
        /\ t.root = tok.root /\ (t.pair <=> tok.who \in Platform)
        /\ (t.clean => tok.clean /\ up /\ tok.tv # NoVersion /\ ~UnderWay(tok.who))
        /\ (t.barred => ~account[tok.who].enabled)
    <3> DEFINE p == tok.who \in Platform
               c == tok.clean /\ up /\ tok.tv # NoVersion /\ ~UnderWay(tok.who)
               b == ~account[tok.who].enabled
    <3>1. p \in BOOLEAN /\ c \in BOOLEAN /\ b \in BOOLEAN
      OBVIOUS
    <3>5. Refused("renewed", tok.who, account, tenant) = b
      BY DEF Refused
    <3>2. /\ tok.who \in Staff /\ tok.password \in Nat /\ tok.root \in Nat
      BY <2>1 DEF Token
    <3>3. t = [Idle EXCEPT !.op = "renewed", !.who = tok.who, !.password = tok.password,
                           !.root = tok.root, !.pair = p, !.clean = c, !.barred = b]
      BY <3>5
    <3> HIDE DEF p, c, b, t
    <3>4. /\ t \in Request /\ t.op = "renewed" /\ t.who = tok.who /\ t.root = tok.root
          /\ t.password = tok.password /\ t.pair = p /\ t.clean = c /\ t.barred = b
      BY <3>1, <3>2, <3>3, IdleType DEF Idle, Request, Ops
    <3> QED BY <3>4 DEF p, c, b
  <2> HIDE DEF t
  <2>4. t.clean => t.password >= covered[t.who]
    BY <2>1, <2>2, <2>3 DEF TokFacts, VersionValid
  <2>5. t.who \in Merchant => now < t.root + RefreshLife /\ ~t.pair
    BY <2>1, <2>2, <2>3, AccessAssumption DEF TokFacts
  <2>6. Facts(t)
    BY <2>1, <2>3, <2>4, <2>5 DEF Facts, TokFacts
  <2> QED BY <1>2, <2>2, <2>3, <2>6, TurnKeeps
<1>6. ASSUME NEW tok \in tokens, GuardRedis(w, tok) PROVE IndInv'
  <2> DEFINE t == [Idle EXCEPT !.op = "guarded", !.who = tok.who, !.jti = tok.jti,
                                          !.barred = Refused("guarded", tok.who, account, tenant)]
  <2>1. tok \in Token /\ TokFacts(tok)
    BY Types DEF IndInv
  <2>2. /\ t \in Request /\ t.op = "guarded" /\ t.who = tok.who
        /\ (t.barred => Barred(t.who, account, tenant))
    <3> DEFINE b == Refused("guarded", tok.who, account, tenant)
    <3>1. b \in BOOLEAN /\ (b => Barred(tok.who, account, tenant))
      BY DEF Refused
    <3> HIDE DEF b
    <3> QED BY <2>1, <3>1, IdleType DEF Idle, Request, Ops, Token, b
  <2>3. tx' = [tx EXCEPT ![w] = t]
    BY <1>6 DEF GuardRedis
  <2> HIDE DEF t
  <2>4. Facts(t)
    BY <2>1, <2>2 DEF Facts, TokFacts
  <2> QED BY <1>2, <2>2, <2>3, <2>4, TurnKeeps
<1>7. CASE RefreshRow(w) /\ Enabled(tx[w].who)
  <2> DEFINE t == [tx[w] EXCEPT !.op = "issue"]
  <2>1. tx' = [tx EXCEPT ![w] = t] /\ tx[w].op = "renewed" /\ ~tx[w].barred
    BY <1>1, <1>7, Types DEF RefreshRow, Facts, Enabled
  <2>2. t \in Request /\ Facts(t) /\ t.op = "issue"
    BY <1>1, <2>1 DEF Request, Ops, Facts
  <2> HIDE DEF t
  <2> QED BY <1>2, <2>1, <2>2, TurnKeeps
<1>8. CASE GuardRows(w) /\ ~Barred(tx[w].who, account, tenant)
  <2> DEFINE t == [tx[w] EXCEPT !.op = "admitted"]
  <2>1. tx' = [tx EXCEPT ![w] = t] /\ tx[w].op = "guarded" /\ ~tx[w].barred
    BY <1>1, <1>8, Types DEF GuardRows, Facts
  <2>2. t \in Request /\ Facts(t) /\ t.op = "admitted"
    BY <1>1, <2>1 DEF Request, Ops, Facts
  <2> HIDE DEF t
  <2> QED BY <1>2, <2>1, <2>2, TurnKeeps
<1>9. CASE GuardBlind(w)
  <2> DEFINE t == [tx[w] EXCEPT !.op = "admitted", !.barred = FALSE]
  <2>1. tx' = [tx EXCEPT ![w] = t] /\ tx[w].op = "guarded"
    BY <1>1, <1>9, Types DEF GuardBlind
  <2>2. t \in Request /\ Facts(t) /\ t.op = "admitted"
    BY <1>1, <2>1 DEF Request, Ops, Facts
  <2> HIDE DEF t
  <2> QED BY <1>2, <2>1, <2>2, TurnKeeps
<1>10. (RefreshRow(w) /\ ~Enabled(tx[w].who)) \/ (GuardRows(w) /\ Barred(tx[w].who, account, tenant))
       \/ Leave(w) => Reply(w)
  BY DEF RefreshRow, GuardRows, Leave
<1> QED BY <1>3, <1>4, <1>5, <1>6, <1>7, <1>8, <1>9, <1>10
-----------------------------------------------------------------------------
(* Tokens are made, dropped and logged out.                                *)

(* A token of a request that is due to it.                                 *)
LEMMA NewFacts ==
  ASSUME IndInv, NEW w \in Workers, tx[w].op = "issue", NEW n \in Free,
         NEW typ \in Typs(tx[w]), NEW tok, tok = NewToken(n, typ, tx[w])
  PROVE  tok \in Token /\ TokFacts(tok) /\ tok.who = tx[w].who /\ tok.clean = tx[w].clean
<1> DEFINE r == tx[w]
<1>1. /\ r \in Request /\ Facts(r) /\ r.op = "issue" /\ now \in Nat
      /\ version \in [Staff -> Nat] /\ up \in BOOLEAN
  BY Types DEF IndInv
<1>2. /\ r.who \in Staff /\ r.password \in Nat /\ r.root \in Nat /\ r.clean \in BOOLEAN
  BY <1>1 DEF Request
<1>3. CurrentVersion(r.who) \in Versions /\ (CurrentVersion(r.who) \in Nat =>
                                             CurrentVersion(r.who) = version[r.who])
  BY <1>1, <1>2, AccessAssumption DEF CurrentVersion, Versions
<1>4. typ \in {"access", "refresh"} /\ (typ = "refresh" => r.pair)
  BY DEF Typs
<1>5. /\ RefreshLife \in Nat /\ AccessLife \in Nat /\ AccessLife > 0 /\ AccessLife <= RefreshLife
      /\ Life(typ) = IF typ = "access" THEN AccessLife ELSE RefreshLife
  BY AccessAssumption DEF Life
<1>6. /\ tok = [jti |-> n, who |-> r.who, typ |-> typ, tv |-> CurrentVersion(r.who),
                exp |-> now + Life(typ), password |-> r.password, root |-> r.root,
                clean |-> r.clean]
      /\ n \in Names /\ n \notin out
  BY DEF NewToken, IndInv, OutNamed, Free
<1> HIDE DEF r
<1>7. tok \in Token
  BY <1>1, <1>2, <1>3, <1>4, <1>5, <1>6 DEF Token
<1>8. r.who \in DOMAIN account /\ (r.clean => r.password >= covered[r.who])
  BY <1>1 DEF Facts
<1>9. r.who \in Merchant => now < r.root + RefreshLife /\ (r.pair => r.root = now)
  BY <1>1 DEF Facts
<1>10. r.who \in Merchant => /\ tok.typ = "refresh" => tok.exp = tok.root + RefreshLife
                            /\ tok.exp < tok.root + RefreshLife + AccessLife
  BY <1>1, <1>2, <1>4, <1>5, <1>6, <1>9
<1>11. tok.exp <= now + RefreshLife
  BY <1>1, <1>5, <1>6
<1>12. tok.tv \in Nat => tok.tv <= version[tok.who]
  BY <1>1, <1>2, <1>3, <1>6
<1>13. TokFacts(tok)
  BY <1>6, <1>8, <1>10, <1>11, <1>12 DEF TokFacts
<1> QED BY <1>6, <1>7, <1>13 DEF r

LEMMA IssueKeeps ==
  ASSUME IndInv, NEW w \in Workers, Issue(w)
  PROVE  IndInv'
<1>1. PICK typs \in SUBSET Typs(tx[w]) : \E name \in [typs -> Free] :
        tokens' = tokens \union {NewToken(name[typ], typ, tx[w]) : typ \in typs}
  BY DEF Issue
<1>2. PICK name \in [typs -> Free] :
        tokens' = tokens \union {NewToken(name[typ], typ, tx[w]) : typ \in typs}
  BY <1>1
<1>3. /\ tx[w].op = "issue" /\ tx' = [tx EXCEPT ![w] = Idle]
      /\ UNCHANGED <<now, up, version, blacklist, account, tenant, out, covered>>
  BY DEF Issue, Reply, redis
<1>4. /\ tx' \in [Workers -> Request] /\ tx'[w] = Idle
      /\ \A v \in Workers : v # w => tx'[v] = tx[v]
      /\ \A v \in Workers : Facts(tx[v])'
  BY <1>3, IdleType, IdleFacts, Turn
<1>5. ASSUME NEW tok \in tokens', tok \notin tokens
      PROVE  tok \in Token /\ TokFacts(tok) /\ tok.who = tx[w].who /\ tok.clean = tx[w].clean
  <2>1. PICK typ \in typs : tok = NewToken(name[typ], typ, tx[w])
    BY <1>2, <1>5
  <2> QED BY <1>3, <2>1, NewFacts
<1>6. \A tok \in tokens' : tok \in Token /\ TokFacts(tok)
  BY <1>5, Types DEF IndInv
<1>7. \A tok \in tokens' : TokFacts(tok)'
  BY <1>3, <1>6 DEF TokFacts
<1>8. ASSUME NEW v \in Workers PROVE Announced(tx[v])'
  <2>1. CASE v = w
    BY <1>4, <2>1, IdleType DEF Announced
  <2>2. CASE v # w
    <3>1. SUFFICES ASSUME tx[v].op = "write", tx[v].raised, NEW tok \in tokens',
                          tok.who = tx[v].who, tok.clean
                   PROVE  tok.tv # version[tx[v].who]
      BY <1>3, <1>4, <2>2 DEF Announced
    <3>2. CASE tok \in tokens
      BY <3>1, <3>2 DEF IndInv, Announced
    <3>3. CASE tok \notin tokens
      <4>1. tok.who = tx[w].who /\ tx[w].clean
        BY <1>5, <3>1, <3>3
      <4>2. ~UnderWay(tx[w].who)
        BY <1>3, <4>1 DEF IndInv, Facts
      <4> QED BY <3>1, <4>1, <4>2 DEF UnderWay
    <3> QED BY <3>2, <3>3
  <2> QED BY <2>1, <2>2
<1>9. OutNamed' /\ CoveredPast'
  <2>1. tokens \subseteq tokens'
    BY <1>2
  <2> QED BY <1>3, <2>1 DEF IndInv, OutNamed, CoveredPast, Free
<1>10. TypeOK'
  BY <1>3, <1>4, <1>6 DEF IndInv, TypeOK
<1> QED BY <1>4, <1>7, <1>8, <1>9, <1>10 DEF IndInv

LEMMA ForgetKeeps ==
  ASSUME IndInv, NEW tok \in tokens, Forget(tok)
  PROVE  IndInv'
<1>1. /\ tokens' = tokens \ {tok} /\ out' = out \ {tok.jti}
      /\ UNCHANGED <<now, up, version, blacklist, account, tenant, covered, tx>>
  BY DEF Forget, redis
<1>2. \A u \in tokens' : TokFacts(u)'
  BY <1>1 DEF IndInv, TokFacts
<1>3. \A v \in Workers : Announced(tx[v])' /\ Facts(tx[v])'
  <2>1. \A a : UnderWay(a)' <=> UnderWay(a)
    BY <1>1 DEF UnderWay
  <2> SUFFICES ASSUME NEW v \in Workers PROVE Announced(tx[v])' /\ Facts(tx[v])'
    OBVIOUS
  <2>2. Announced(tx[v]) /\ Facts(tx[v])
    BY DEF IndInv
  <2> QED BY <1>1, <2>1, <2>2 DEF Announced, Facts
<1>4. OutNamed'
  BY <1>1 DEF IndInv, OutNamed, Free
<1>5. TypeOK' /\ CoveredPast'
  BY <1>1 DEF IndInv, TypeOK, CoveredPast
<1> QED BY <1>2, <1>3, <1>4, <1>5 DEF IndInv

LEMMA LogoutKeeps ==
  ASSUME IndInv, NEW w \in Workers, Logout(w)
  PROVE  IndInv'
<1> DEFINE b == [jti |-> tx[w].jti, until |-> now + RefreshLife]
<1>1. CASE ~up
  <2>1. /\ tx' = [tx EXCEPT ![w] = Idle] /\ up' \in BOOLEAN
        /\ UNCHANGED <<now, version, blacklist, account, tenant, tokens, out, covered>>
    BY <1>1, Types DEF Logout, Reply
  <2> QED BY <2>1, IdleType, IdleFacts, TurnKeeps
<1>2. CASE up
  <2>1. /\ tx' = [tx EXCEPT ![w] = Idle]
        /\ blacklist' = blacklist \union {b} /\ out' = out \union {tx[w].jti}
        /\ UNCHANGED <<now, up, version, account, tenant, tokens, covered>>
    BY <1>2 DEF Logout, Reply, BlacklistTtl
  <2>2. /\ tx' \in [Workers -> Request] /\ tx'[w] = Idle
        /\ \A v \in Workers : v # w => tx'[v] = tx[v]
        /\ \A v \in Workers : Facts(tx[v])'
    BY <2>1, IdleType, IdleFacts, Turn
  <2>3. /\ tx[w].jti \in Names /\ b \in [jti: Names, until: Nat]
        /\ b.jti = tx[w].jti /\ b.until = now + RefreshLife
    BY Types, AccessAssumption DEF Request
  <2>4. \A v \in Workers : Announced(tx[v])'
    BY <2>1, <2>2, IdleType DEF IndInv, Announced
  <2> HIDE DEF b
  <2>5. \A tok \in tokens' : TokFacts(tok)'
    BY <2>1, <2>3 DEF IndInv, TokFacts
  <2>6. OutNamed' /\ CoveredPast'
    BY <2>1, <2>3 DEF IndInv, OutNamed, CoveredPast, Free
  <2>7. TypeOK'
    BY <2>1, <2>2, <2>3 DEF IndInv, TypeOK
  <2> QED BY <2>2, <2>4, <2>5, <2>6, <2>7 DEF IndInv
<1> QED BY <1>1, <1>2
-----------------------------------------------------------------------------
(* Changes of a password.                                                  *)

(* The rows after a new password.                                          *)
LEMMA NewPassword ==
  ASSUME IndInv, NEW a \in DOMAIN account, NextPassword(a)
  PROVE  /\ DOMAIN account' = DOMAIN account
         /\ account'[a].password = account[a].password + 1 /\ account[a].password \in Nat
         /\ \A b \in DOMAIN account :
              /\ account'[b] \in AccountRow
              /\ account'[b].enabled = account[b].enabled
              /\ account[b].password \in Nat /\ account'[b].password \in Nat
              /\ account[b].password <= account'[b].password
              /\ b # a => account'[b] = account[b]
<1>1. \A b \in DOMAIN account : account[b] \in AccountRow
  BY Types
<1>2. /\ DOMAIN account' = DOMAIN account
      /\ account'[a] = [account[a] EXCEPT !.password = @ + 1]
      /\ \A b \in DOMAIN account : b # a => account'[b] = account[b]
  BY DEF NextPassword
<1>3. /\ account'[a] \in AccountRow /\ account'[a].enabled = account[a].enabled
      /\ account'[a].password = account[a].password + 1 /\ account[a].password \in Nat
      /\ account'[a].password \in Nat
  BY <1>1, <1>2 DEF AccountRow
<1>4. ASSUME NEW b \in DOMAIN account
      PROVE  /\ account'[b] \in AccountRow
             /\ account'[b].enabled = account[b].enabled
             /\ account[b].password \in Nat /\ account'[b].password \in Nat
             /\ account[b].password <= account'[b].password
             /\ b # a => account'[b] = account[b]
  <2>1. CASE b = a
    BY <1>3, <2>1
  <2>2. CASE b # a
    <3>1. account'[b] = account[b] /\ account[b] \in AccountRow
      BY <1>1, <1>2, <2>2
    <3>2. account[b].password \in Nat
      BY <3>1 DEF AccountRow
    <3> QED BY <2>2, <3>1, <3>2
  <2> QED BY <2>1, <2>2
<1>5. DOMAIN account' = DOMAIN account
  BY <1>2
<1> HIDE DEF NextPassword
<1> QED BY <1>3, <1>4, <1>5

(* A request that a step leaves alone, but for what it notes.              *)
Noted(v) ==
  /\ tx'[v].op = tx[v].op /\ tx'[v].who = tx[v].who /\ tx'[v].root = tx[v].root
  /\ tx'[v].password = tx[v].password /\ tx'[v].pair = tx[v].pair
  /\ tx'[v].raised = tx[v].raised
  /\ tx'[v].clean => tx[v].clean
  /\ tx'[v].barred => tx[v].barred

(* A new password leaves the facts about it true.                          *)
LEMMA FactsOfRow ==
  ASSUME IndInv, NEW a \in DOMAIN account, NextPassword(a), UNCHANGED <<now, tenant>>,
         NEW v \in Workers, Noted(v),
         tx[v].op \in {"renewed", "issue"} /\ tx'[v].clean =>
           ~UnderWay(tx[v].who)' /\ covered'[tx[v].who] = covered[tx[v].who]
  PROVE  Facts(tx[v])'
<1> DEFINE t == tx[v]
           u == tx'[v]
<1>1. t \in Request /\ Facts(t)
  BY Types DEF IndInv
<1>2. /\ u.op = t.op /\ u.who = t.who /\ u.root = t.root /\ u.password = t.password
      /\ u.pair = t.pair /\ (u.clean => t.clean) /\ (u.barred => t.barred)
  BY DEF Noted
<1>3. /\ DOMAIN account' = DOMAIN account
      /\ \A b \in DOMAIN account :
           /\ account'[b].enabled = account[b].enabled
           /\ account[b].password <= account'[b].password
           /\ account[b].password \in Nat /\ account'[b].password \in Nat
  BY NewPassword
<1>4. t.password \in Nat
  BY <1>1 DEF Request
<1>5. t.op # "idle" => t.who \in DOMAIN account
  BY <1>1 DEF Facts
<1>6. t.op = "raise" => t.password <= account'[t.who].password
  BY <1>1, <1>3, <1>4, <1>5 DEF Facts
<1>7. t.op = "guarded" /\ t.barred => Barred(t.who, account', tenant')
  BY <1>1, <1>3, <1>5 DEF Facts, Barred, Closed
<1>8. t.op = "renewed" /\ t.barred => ~account'[t.who].enabled
  BY <1>1, <1>3, <1>5 DEF Facts
<1>9. u.op \in {"renewed", "issue"} /\ u.clean =>
        ~UnderWay(tx[v].who)' /\ u.password >= covered'[u.who]
  <2>1. CASE u.op \in {"renewed", "issue"} /\ u.clean
    <3>1. t.password >= covered[t.who]
      BY <1>1, <1>2, <2>1 DEF Facts
    <3>2. ~UnderWay(tx[v].who)' /\ covered'[t.who] = covered[t.who]
      BY <1>2, <2>1
    <3> QED BY <1>2, <3>1, <3>2
  <2> QED BY <2>1
<1>10. u.op \in {"renewed", "issue"} /\ u.who \in Merchant =>
         now' < u.root + RefreshLife /\ (u.pair => u.root = now')
  BY <1>1, <1>2 DEF Facts
<1>11. u.op \in {"admitted", "issue"} => ~u.barred
  BY <1>1, <1>2 DEF Facts
<1> HIDE DEF t, u
<1> QED BY <1>2, <1>3, <1>5, <1>6, <1>7, <1>8, <1>9, <1>10, <1>11 DEF Facts, u

LEMMA EditPasswordKeeps ==
  ASSUME IndInv, NEW a \in DOMAIN account, EditPassword(a)
  PROVE  IndInv'
<1>1. /\ NextPassword(a)
      /\ UNCHANGED <<now, up, version, blacklist, tenant, tokens, out, covered, tx>>
  BY DEF EditPassword, redis
<1>2. /\ DOMAIN account' = DOMAIN account
      /\ \A b \in DOMAIN account : /\ account'[b] \in AccountRow
                                   /\ account[b].password <= account'[b].password
                                   /\ account[b].password \in Nat /\ account'[b].password \in Nat
  BY <1>1, NewPassword
<1>3. ASSUME NEW v \in Workers PROVE Facts(tx[v])'
  <2>1. Noted(v)
    BY <1>1 DEF Noted
  <2>2. tx[v].op \in {"renewed", "issue"} /\ tx'[v].clean => ~UnderWay(tx[v].who)'
    BY <1>1 DEF IndInv, Facts, UnderWay
  <2> QED BY <1>1, <2>1, <2>2, FactsOfRow
<1>4. \A v \in Workers : Announced(tx[v])'
  BY <1>1 DEF IndInv, Announced
<1>5. \A tok \in tokens' : TokFacts(tok)'
  BY <1>1, <1>2 DEF IndInv, TokFacts
<1>6. OutNamed'
  BY <1>1 DEF IndInv, OutNamed, Free
<1>7. CoveredPast'
  <2>1. \A b \in DOMAIN account : covered[b] \in Nat /\ covered[b] <= account[b].password
    BY Types DEF IndInv, CoveredPast
  <2> QED BY <1>1, <1>2, <2>1 DEF CoveredPast
<1>8. TypeOK'
  BY <1>1, <1>2 DEF IndInv, TypeOK
<1> QED BY <1>3, <1>4, <1>5, <1>6, <1>7, <1>8 DEF IndInv

(* The first step of a change: the request t of worker w is under way, and *)
(* the others of the account are noted.                                    *)
LEMMA ChangeBegins ==
  ASSUME IndInv, NEW w \in Workers, NEW a \in DOMAIN account, NEW t \in Request,
         t.op \in {"write", "raise"}, t.who = a, tx' = [Tainted(a) EXCEPT ![w] = t]
  PROVE  /\ tx' \in [Workers -> Request] /\ tx'[w] = t
         /\ \A v \in Workers : v # w => Noted(v)
         /\ \A b : UnderWay(b)' => UnderWay(b) \/ b = a
         /\ \A v \in Workers : v # w /\ tx'[v].clean => tx[v].who # a
<1>1. /\ tx \in [Workers -> Request] /\ tx'[w] = t
      /\ \A v \in Workers : v # w => tx'[v] = [tx[v] EXCEPT !.clean = @ /\ tx[v].who # a]
  BY Types DEF Tainted
<1>2. ASSUME NEW v \in Workers, v # w
      PROVE  tx'[v] \in Request /\ Noted(v) /\ (tx'[v].clean => tx[v].who # a)
  <2> DEFINE c == tx[v].clean /\ tx[v].who # a
  <2>1. tx[v] \in Request /\ c \in BOOLEAN /\ tx'[v] = [tx[v] EXCEPT !.clean = c]
    BY <1>1, <1>2
  <2> HIDE DEF c
  <2>2. tx'[v] \in Request /\ tx'[v].clean = c
    BY <2>1 DEF Request
  <2>3. /\ tx'[v].op = tx[v].op /\ tx'[v].who = tx[v].who /\ tx'[v].root = tx[v].root
        /\ tx'[v].password = tx[v].password /\ tx'[v].pair = tx[v].pair
        /\ tx'[v].raised = tx[v].raised /\ tx'[v].barred = tx[v].barred
    BY <2>1 DEF Request
  <2>4. c => tx[v].clean /\ tx[v].who # a
    BY DEF c
  <2> QED BY <2>2, <2>3, <2>4 DEF Noted
<1>3. tx' \in [Workers -> Request]
  <2>1. tx' = [v \in Workers |-> tx'[v]]
    BY DEF Tainted
  <2> QED BY <1>1, <1>2, <2>1
<1>4. \A b : UnderWay(b)' => UnderWay(b) \/ b = a
  BY <1>1, <1>2 DEF UnderWay, Noted
<1> QED BY <1>1, <1>2, <1>3, <1>4

LEMMA WriteFirstKeeps ==
  ASSUME IndInv, NEW w \in Workers, NEW a \in DOMAIN account, WriteFirst(w, a)
  PROVE  IndInv'
<1> DEFINE t == [Idle EXCEPT !.op = "raise", !.who = a, !.password = account[a].password + 1]
<1>1. /\ NextPassword(a) /\ tx' = [Tainted(a) EXCEPT ![w] = t]
      /\ UNCHANGED <<now, up, version, blacklist, tenant, tokens, out, covered>>
  BY DEF WriteFirst, redis
<1>2. /\ DOMAIN account' = DOMAIN account /\ DOMAIN account \subseteq Staff
      /\ account[a].password \in Nat
      /\ account'[a].password = account[a].password + 1
      /\ \A b \in DOMAIN account : /\ account'[b] \in AccountRow
                                   /\ account[b].password <= account'[b].password
                                   /\ account[b].password \in Nat /\ account'[b].password \in Nat
  BY <1>1, NewPassword, Types
<1>3. /\ t \in Request /\ t.op = "raise" /\ t.who = a /\ t.password = account'[a].password
  BY <1>2, IdleType DEF Idle, Request, Ops
<1> HIDE DEF t
<1>4. /\ tx' \in [Workers -> Request] /\ tx'[w] = t
      /\ \A v \in Workers : v # w => Noted(v)
      /\ \A b : UnderWay(b)' => UnderWay(b) \/ b = a
      /\ \A v \in Workers : v # w /\ tx'[v].clean => tx[v].who # a
  BY <1>1, <1>3, ChangeBegins
<1>5. ASSUME NEW v \in Workers PROVE Facts(tx[v])'
  <2>1. CASE v = w
    BY <1>2, <1>3, <1>4, <2>1 DEF Facts
  <2>2. CASE v # w
    <3>1. Noted(v)
      BY <1>4, <2>2
    <3>2. tx[v].op \in {"renewed", "issue"} /\ tx'[v].clean => ~UnderWay(tx[v].who)'
      BY <1>4, <2>2, <3>1 DEF IndInv, Facts, Noted
    <3> QED BY <1>1, <3>1, <3>2, FactsOfRow
  <2> QED BY <2>1, <2>2
<1>6. \A v \in Workers : Announced(tx[v])'
  BY <1>1, <1>3, <1>4 DEF IndInv, Announced, Noted
<1>7. \A tok \in tokens' : TokFacts(tok)'
  BY <1>1, <1>2 DEF IndInv, TokFacts
<1>8. OutNamed'
  BY <1>1 DEF IndInv, OutNamed, Free
<1>9. CoveredPast'
  <2>1. \A b \in DOMAIN account : covered[b] \in Nat /\ covered[b] <= account[b].password
    BY Types DEF IndInv, CoveredPast
  <2> QED BY <1>1, <1>2, <2>1 DEF CoveredPast
<1>10. TypeOK'
  BY <1>1, <1>2, <1>4 DEF IndInv, TypeOK
<1> QED BY <1>5, <1>6, <1>7, <1>8, <1>9, <1>10 DEF IndInv

(* The version is raised after the password was written.                   *)
LEMMA RaiseLastKeeps ==
  ASSUME IndInv, NEW w \in Workers, RaiseLast(w)
  PROVE  IndInv'
<1> DEFINE a == tx[w].who
           n == Later(covered[a], tx[w].password)
<1>1. /\ tx[w].op = "raise" /\ tx' = [tx EXCEPT ![w] = Idle]
      /\ version' = Raised(a) /\ covered' = IF up THEN [covered EXCEPT ![a] = n] ELSE covered
      /\ UNCHANGED <<now, up, blacklist, account, tenant, tokens, out>>
  BY DEF RaiseLast, Reply
<1>2. CASE ~up
  <2>1. UNCHANGED <<version, covered>> /\ up' \in BOOLEAN
    BY <1>1, <1>2, Types DEF Raised
  <2> QED BY <1>1, <2>1, IdleType, IdleFacts, TurnKeeps
<1>3. CASE up
  <2>1. /\ tx[w] \in Request /\ Facts(tx[w]) /\ a \in Staff /\ tx[w].password \in Nat
        /\ version \in [Staff -> Nat] /\ covered \in [Staff -> Nat]
        /\ tx \in [Workers -> Request] /\ tokens \subseteq Token
        /\ \A b \in DOMAIN account : b \in Staff /\ account[b].password \in Nat
    BY Types DEF IndInv, Request, AccountRow
  <2>2. a \in DOMAIN account /\ tx[w].password <= account[a].password
    BY <1>1, <2>1 DEF Facts
  <2>3. n \in Nat /\ n >= covered[a] /\ n <= account[a].password
    BY <2>1, <2>2 DEF Later, IndInv, CoveredPast
  <2>4. version' = [version EXCEPT ![a] = @ + 1] /\ covered' = [covered EXCEPT ![a] = n]
    BY <1>1, <1>3 DEF Raised
  <2> HIDE DEF n
  <2>5. /\ version' \in [Staff -> Nat] /\ covered' \in [Staff -> Nat]
        /\ version'[a] = version[a] + 1 /\ covered'[a] = n
        /\ \A b \in Staff : b # a => version'[b] = version[b] /\ covered'[b] = covered[b]
    BY <2>1, <2>3, <2>4
  <2>6. /\ tx' \in [Workers -> Request] /\ tx'[w] = Idle
        /\ \A v \in Workers : v # w => tx'[v] = tx[v]
    BY <1>1, <2>1, IdleType
  <2>7. UnderWay(a) /\ \A b : UnderWay(b)' => UnderWay(b)
    BY <1>1, <2>6, IdleType DEF UnderWay
  <2>8. ASSUME NEW v \in Workers PROVE Facts(tx[v])'
    <3>1. CASE v = w
      BY <2>6, <3>1, IdleType DEF Facts
    <3>2. CASE v # w
      <4>1. tx'[v] = tx[v] /\ Facts(tx[v]) /\ tx[v].who \in Staff
        BY <2>1, <2>6, <3>2 DEF IndInv, Request
      <4>2. tx[v].op \in {"renewed", "issue"} /\ tx[v].clean => tx[v].who # a
        BY <2>7, <4>1 DEF Facts
      <4> HIDE DEF a
      <4> QED BY <1>1, <2>5, <2>7, <4>1, <4>2 DEF Facts
    <3> QED BY <3>1, <3>2
  <2>9. ASSUME NEW tok \in tokens
        PROVE  /\ TokFacts(tok) /\ tok.who \in Staff /\ tok.tv \in Versions
               /\ (tok.tv \in Nat => tok.tv <= version[tok.who])
    BY <2>1 DEF IndInv, TokFacts, Token
  <2>10. ASSUME NEW tok \in tokens
         PROVE  /\ tok.tv \in Nat => tok.tv <= version'[tok.who]
                /\ tok.tv = version'[tok.who] => tok.who # a
    <3>1. tok.who \in Staff /\ tok.tv \in Versions /\ version[tok.who] \in Nat
          /\ (tok.tv \in Nat => tok.tv <= version[tok.who])
      BY <2>1, <2>9
    <3> HIDE DEF a
    <3>2. CASE tok.who = a
      BY <2>5, <3>1, <3>2
    <3>3. CASE tok.who # a
      BY <2>5, <3>1, <3>3
    <3> QED BY <3>2, <3>3
  <2>11. ASSUME NEW tok \in tokens' PROVE TokFacts(tok)'
    <3>1. /\ tok \in tokens /\ TokFacts(tok) /\ tok.who \in Staff
          /\ tok.tv \in Nat => tok.tv <= version'[tok.who]
          /\ tok.tv = version'[tok.who] =>
               tok.tv = version[tok.who] /\ covered'[tok.who] = covered[tok.who]
      BY <1>1, <2>5, <2>9, <2>10
    <3> QED BY <1>1, <3>1 DEF TokFacts
  <2>12. ASSUME NEW v \in Workers PROVE Announced(tx[v])'
    <3>1. CASE v = w
      BY <2>6, <3>1, IdleType DEF Announced
    <3>2. CASE v # w
      <4>1. tx'[v] = tx[v] /\ Announced(tx[v]) /\ tx[v].who \in Staff
        BY <2>1, <2>6, <3>2 DEF IndInv, Request
      <4>2. ASSUME NEW tok \in tokens, tok.who = tx[v].who, tok.tv # version[tx[v].who]
            PROVE  tok.tv # version'[tx[v].who]
        BY <2>5, <2>10, <4>1, <4>2
      <4>3. ASSUME NEW tok \in tokens, tok.who = tx[v].who, tok.who = a
            PROVE  tok.tv # version'[tx[v].who]
        BY <2>10, <4>3
      <4> QED BY <1>1, <4>1, <4>2, <4>3 DEF Announced
    <3> QED BY <3>1, <3>2
  <2>13. OutNamed' /\ CoveredPast'
    <3>1. OutNamed'
      BY <1>1 DEF IndInv, OutNamed, Free
    <3>2. \A b \in DOMAIN account : covered[b] <= account[b].password
      BY DEF IndInv, CoveredPast
    <3>3. ASSUME NEW b \in DOMAIN account PROVE covered'[b] <= account[b].password
      BY <2>1, <2>3, <2>5, <3>2
    <3>4. CoveredPast'
      BY <1>1, <3>3 DEF CoveredPast
    <3> QED BY <3>1, <3>4
  <2>14. TypeOK'
    BY <1>1, <2>5, <2>6 DEF IndInv, TypeOK
  <2> QED BY <2>8, <2>11, <2>12, <2>13, <2>14 DEF IndInv
<1> QED BY <1>2, <1>3

(* The version is raised before the password is written.                   *)
LEMMA RaiseFirstKeeps ==
  ASSUME IndInv, NEW w \in Workers, RaiseFirst(w)
  PROVE  IndInv'
<1> DEFINE a == tx[w].who
           t == [Idle EXCEPT !.op = "write", !.who = a, !.raised = up]
<1>1. /\ tx[w].op = "admitted" /\ version' = Raised(a) /\ tx' = [Tainted(a) EXCEPT ![w] = t]
      /\ UNCHANGED <<now, up, blacklist, account, tenant, tokens, out, covered>>
  BY DEF RaiseFirst
<1>2. /\ Facts(tx[w]) /\ a \in Staff /\ tx \in [Workers -> Request]
      /\ version \in [Staff -> Nat] /\ tokens \subseteq Token /\ up \in BOOLEAN
  BY Types DEF IndInv, Request
<1>3. a \in DOMAIN account
  BY <1>1, <1>2 DEF Facts
<1>4. t \in Request /\ t.op = "write" /\ t.who = a /\ t.raised = up
  BY <1>2, IdleType DEF Idle, Request, Ops
<1>5. /\ version' \in [Staff -> Nat]
      /\ up => version'[a] = version[a] + 1
      /\ ~up => version' = version
      /\ \A b \in Staff : b # a => version'[b] = version[b]
  BY <1>1, <1>2 DEF Raised
<1> HIDE DEF t
<1>6. /\ tx' \in [Workers -> Request] /\ tx'[w] = t
      /\ \A v \in Workers : v # w => Noted(v)
      /\ \A b : UnderWay(b)' => UnderWay(b) \/ b = a
      /\ \A v \in Workers : v # w /\ tx'[v].clean => tx[v].who # a
  BY <1>1, <1>3, <1>4, ChangeBegins
<1>7. ASSUME NEW v \in Workers PROVE Facts(tx[v])'
  <2>1. CASE v = w
    BY <1>1, <1>3, <1>4, <1>6, <2>1 DEF Facts
  <2>2. CASE v # w
    <3>1. Noted(v) /\ Facts(tx[v]) /\ (tx'[v].clean => tx[v].who # a)
      BY <1>6, <2>2 DEF IndInv
    <3>2. tx[v].op \in {"renewed", "issue"} /\ tx'[v].clean => ~UnderWay(tx[v].who)'
      BY <1>6, <3>1 DEF Facts, Noted
    <3> QED BY <1>1, <3>1, <3>2 DEF Facts, Noted, Barred, Closed
  <2> QED BY <2>1, <2>2
<1>8. ASSUME NEW tok \in tokens
      PROVE  /\ TokFacts(tok) /\ tok.who \in Staff /\ tok.tv \in Versions
             /\ (tok.tv \in Nat => tok.tv <= version[tok.who])
  BY <1>2 DEF IndInv, TokFacts, Token
<1>9. ASSUME NEW tok \in tokens
      PROVE  /\ tok.tv \in Nat => tok.tv <= version'[tok.who]
             /\ tok.tv = version'[tok.who] => tok.tv = version[tok.who] /\ (tok.who # a \/ ~up)
  <2>1. tok.who \in Staff /\ tok.tv \in Versions /\ version[tok.who] \in Nat
        /\ (tok.tv \in Nat => tok.tv <= version[tok.who])
    BY <1>2, <1>8
  <2> HIDE DEF a
  <2>2. CASE tok.who = a /\ up
    BY <1>5, <2>1, <2>2
  <2>3. CASE tok.who # a \/ ~up
    BY <1>5, <2>1, <2>3
  <2> QED BY <2>2, <2>3
<1>10. ASSUME NEW tok \in tokens' PROVE TokFacts(tok)'
  <2>1. /\ tok \in tokens /\ TokFacts(tok)
        /\ tok.tv \in Nat => tok.tv <= version'[tok.who]
        /\ tok.tv = version'[tok.who] => tok.tv = version[tok.who]
    BY <1>1, <1>8, <1>9
  <2> QED BY <1>1, <2>1 DEF TokFacts
<1>11. ASSUME NEW v \in Workers PROVE Announced(tx[v])'
  <2>1. CASE v = w
    <3>1. SUFFICES ASSUME up, NEW tok \in tokens, tok.who = a PROVE tok.tv # version'[a]
      BY <1>1, <1>4, <1>6, <2>1 DEF Announced
    <3> QED BY <1>9, <3>1
  <2>2. CASE v # w
    <3>1. Noted(v) /\ Announced(tx[v])
      BY <1>6, <2>2 DEF IndInv
    <3>2. \A tok \in tokens : tok.tv # version[tok.who] => tok.tv # version'[tok.who]
      BY <1>9
    <3> QED BY <1>1, <3>1, <3>2 DEF Announced, Noted
  <2> QED BY <2>1, <2>2
<1>12. OutNamed' /\ CoveredPast'
  BY <1>1 DEF IndInv, OutNamed, CoveredPast, Free
<1>13. TypeOK'
  BY <1>1, <1>5, <1>6 DEF IndInv, TypeOK
<1> QED BY <1>7, <1>10, <1>11, <1>12, <1>13 DEF IndInv

LEMMA WriteLastKeeps ==
  ASSUME IndInv, NEW w \in Workers, WriteLast(w)
  PROVE  IndInv'
<1> DEFINE a == tx[w].who
           n == account[a].password + 1
<1>1. /\ tx[w].op = "write" /\ tx' = [tx EXCEPT ![w] = Idle] /\ NextPassword(a)
      /\ covered' = IF tx[w].raised THEN [covered EXCEPT ![a] = n] ELSE covered
      /\ UNCHANGED <<now, up, version, blacklist, tenant, tokens, out>>
  BY DEF WriteLast, Reply, redis
<1>2. /\ Facts(tx[w]) /\ Announced(tx[w]) /\ a \in Staff /\ tx \in [Workers -> Request]
      /\ covered \in [Staff -> Nat] /\ DOMAIN account \subseteq Staff
  BY Types DEF IndInv, Request
<1>3. a \in DOMAIN account
  BY <1>1, <1>2 DEF Facts
<1>4. /\ DOMAIN account' = DOMAIN account /\ account'[a].password = n /\ n \in Nat
      /\ \A b \in DOMAIN account : /\ account'[b] \in AccountRow
                                   /\ account[b].password <= account'[b].password
                                   /\ account[b].password \in Nat /\ account'[b].password \in Nat
  BY <1>1, <1>3, NewPassword
<1> HIDE DEF n
<1>5. /\ covered' \in [Staff -> Nat]
      /\ covered'[a] \in {covered[a], n}
      /\ tx[w].raised \/ covered' = covered
      /\ \A b \in Staff : b # a => covered'[b] = covered[b]
  BY <1>1, <1>2, <1>4
<1>6. /\ tx' \in [Workers -> Request] /\ tx'[w] = Idle
      /\ \A v \in Workers : v # w => tx'[v] = tx[v]
  BY <1>1, <1>2, IdleType
<1>7. UnderWay(a) /\ \A b : UnderWay(b)' => UnderWay(b)
  BY <1>1, <1>6, IdleType DEF UnderWay
<1>8. ASSUME NEW v \in Workers PROVE Facts(tx[v])'
  <2>1. CASE v = w
    BY <1>6, <2>1, IdleType DEF Facts
  <2>2. CASE v # w
    <3>1. tx'[v] = tx[v] /\ Facts(tx[v]) /\ tx[v].who \in Staff
      BY <1>2, <1>6, <2>2 DEF IndInv, Request
    <3>2. Noted(v)
      BY <3>1 DEF Noted
    <3>3. tx[v].op \in {"renewed", "issue"} /\ tx'[v].clean =>
            ~UnderWay(tx[v].who)' /\ covered'[tx[v].who] = covered[tx[v].who]
      <4>1. tx[v].op \in {"renewed", "issue"} /\ tx[v].clean => ~UnderWay(tx[v].who)
        BY <3>1 DEF Facts
      <4>2. tx[v].op \in {"renewed", "issue"} /\ tx[v].clean => tx[v].who # a
        BY <1>7, <4>1
      <4>3. UnderWay(tx[v].who)' => UnderWay(tx[v].who)
        BY <1>7, <3>1
      <4> QED BY <1>5, <3>1, <4>1, <4>2, <4>3
    <3> QED BY <1>1, <1>3, <3>2, <3>3, FactsOfRow
  <2> QED BY <2>1, <2>2
<1>9. \A v \in Workers : Announced(tx[v])'
  BY <1>1, <1>6, IdleType DEF IndInv, Announced
<1>10. ASSUME NEW tok \in tokens' PROVE TokFacts(tok)'
  <2>1. tok \in tokens /\ TokFacts(tok) /\ tok.who \in Staff
    BY <1>1, Types DEF IndInv, Token
  <2>2. tx[w].raised /\ tok.who = a /\ tok.clean => tok.tv # version[tok.who]
    BY <1>1, <1>2, <2>1 DEF Announced
  <2>3. tok.clean /\ tok.tv = version[tok.who] => covered'[tok.who] = covered[tok.who]
    BY <1>5, <2>1, <2>2
  <2> HIDE DEF a
  <2> QED BY <1>1, <1>4, <2>1, <2>3 DEF TokFacts
<1>11. OutNamed'
  BY <1>1 DEF IndInv, OutNamed, Free
<1>12. CoveredPast'
  <2>1. \A b \in DOMAIN account : covered[b] \in Nat /\ covered[b] <= account[b].password
    BY Types DEF IndInv, CoveredPast
  <2>2. ASSUME NEW b \in DOMAIN account PROVE covered'[b] <= account'[b].password
    <3>1. b \in Staff
      BY <1>2
    <3> HIDE DEF a
    <3> QED BY <1>4, <1>5, <2>1, <3>1
  <2> QED BY <1>4, <2>2 DEF CoveredPast
<1>13. TypeOK'
  BY <1>1, <1>4, <1>5, <1>6 DEF IndInv, TypeOK
<1> QED BY <1>8, <1>9, <1>10, <1>11, <1>12, <1>13 DEF IndInv
-----------------------------------------------------------------------------
(* Statuses.                                                               *)

(* A request is noted, and whether it is still refused.                    *)
LEMMA StatusKeeps ==
  ASSUME IndInv, NEW rows, NEW status, tx' = StillBarred(rows, status),
         account' = rows, tenant' = status, status \in [Tenants -> Settings],
         DOMAIN rows = DOMAIN account,
         \A b \in DOMAIN account :
           rows[b] \in AccountRow /\ rows[b].password = account[b].password,
         UNCHANGED <<now, up, version, blacklist, tokens, out, covered>>
  PROVE  IndInv'
<1>1. ASSUME NEW v \in Workers
      PROVE  /\ tx'[v] \in Request /\ Noted(v) /\ tx'[v].clean = tx[v].clean
             /\ tx[v].op = "guarded" /\ tx'[v].barred => Barred(tx[v].who, rows, status)
             /\ tx[v].op = "renewed" /\ tx'[v].barred => ~rows[tx[v].who].enabled
  <2> DEFINE d == Refused(tx[v].op, tx[v].who, rows, status)
             b == tx[v].barred /\ d
  <2>1. tx[v] \in Request
    BY Types
  <2>2. tx'[v] = [tx[v] EXCEPT !.barred = b] /\ b \in BOOLEAN
    BY DEF StillBarred
  <2> HIDE DEF b
  <2>3. tx'[v] \in Request /\ tx'[v].barred = b
    BY <2>1, <2>2 DEF Request
  <2>4. /\ tx'[v].op = tx[v].op /\ tx'[v].who = tx[v].who /\ tx'[v].root = tx[v].root
        /\ tx'[v].password = tx[v].password /\ tx'[v].pair = tx[v].pair
        /\ tx'[v].raised = tx[v].raised /\ tx'[v].clean = tx[v].clean
    BY <2>1, <2>2 DEF Request
  <2>5. /\ b => tx[v].barred
        /\ tx[v].op = "guarded" /\ b => Barred(tx[v].who, rows, status)
        /\ tx[v].op = "renewed" /\ b => ~rows[tx[v].who].enabled
    BY DEF b, Refused
  <2> QED BY <2>3, <2>4, <2>5 DEF Noted
<1>2. \A b : UnderWay(b)' <=> UnderWay(b)
  BY <1>1 DEF UnderWay, Noted
<1>3. ASSUME NEW v \in Workers PROVE Facts(tx[v])' /\ Announced(tx[v])'
  <2>1. Facts(tx[v]) /\ Announced(tx[v]) /\ Noted(v) /\ tx'[v].clean = tx[v].clean
    BY <1>1 DEF IndInv
  <2>2. Announced(tx[v])'
    BY <2>1 DEF Announced, Noted
  <2>3. /\ tx'[v].op = "guarded" /\ tx'[v].barred => Barred(tx'[v].who, account', tenant')
        /\ tx'[v].op = "renewed" /\ tx'[v].barred => ~account'[tx'[v].who].enabled
    BY <1>1, <2>1 DEF Noted
  <2>4. tx'[v].op \in {"renewed", "issue"} /\ tx'[v].clean =>
          ~UnderWay(tx[v].who)' /\ tx'[v].password >= covered'[tx'[v].who]
    <3>1. UnderWay(tx[v].who)' => UnderWay(tx[v].who)
      <4>1. tx'[v].who = tx[v].who
        BY <2>1 DEF Noted
      <4> QED BY <1>2, <4>1
    <3> QED BY <2>1, <3>1 DEF Facts, Noted
  <2>5. tx'[v].op = "raise" => tx'[v].password <= account'[tx'[v].who].password
    BY <2>1 DEF Facts, Noted
  <2>6. /\ tx'[v].op # "idle" => tx'[v].who \in DOMAIN account'
        /\ tx'[v].op \in {"renewed", "issue"} /\ tx'[v].who \in Merchant =>
             now' < tx'[v].root + RefreshLife /\ (tx'[v].pair => tx'[v].root = now')
        /\ tx'[v].op \in {"admitted", "issue"} => ~tx'[v].barred
    BY <2>1 DEF Facts, Noted
  <2> QED BY <2>2, <2>3, <2>4, <2>5, <2>6 DEF Facts
<1>4. \A tok \in tokens' : TokFacts(tok)'
  BY DEF IndInv, TokFacts
<1>5. OutNamed' /\ CoveredPast'
  BY DEF IndInv, OutNamed, CoveredPast, Free
<1>6. tx' \in [Workers -> Request]
  <2>1. tx' = [v \in Workers |-> tx'[v]]
    BY DEF StillBarred
  <2> QED BY <1>1, <2>1
<1>7. TypeOK'
  BY <1>6 DEF IndInv, TypeOK
<1> QED BY <1>3, <1>4, <1>5, <1>7 DEF IndInv

LEMMA SetTenantKeeps ==
  ASSUME IndInv, NEW t \in Tenants, NEW status \in Settings, SetTenant(t, status)
  PROVE  IndInv'
<1>1. /\ tx' = StillBarred(account, tenant') /\ tenant' \in [Tenants -> Settings]
      /\ UNCHANGED <<now, up, version, blacklist, account, tokens, out, covered>>
  BY Types DEF SetTenant, redis
<1>2. \A b \in DOMAIN account : account[b] \in AccountRow
  BY Types
<1> QED BY <1>1, <1>2, StatusKeeps

LEMMA SetStaffKeeps ==
  ASSUME IndInv, NEW a \in DOMAIN account, SetStaff(a)
  PROVE  IndInv'
<1>1. /\ account' = [account EXCEPT ![a].enabled = ~@] /\ tx' = StillBarred(account', tenant)
      /\ UNCHANGED <<now, up, version, blacklist, tenant, tokens, out, covered>>
  BY DEF SetStaff, redis
<1>2. \A b \in DOMAIN account : account[b] \in AccountRow
  BY Types
<1>3. /\ DOMAIN account' = DOMAIN account
      /\ account'[a] = [account[a] EXCEPT !.enabled = ~@]
      /\ \A b \in DOMAIN account : b # a => account'[b] = account[b]
  BY <1>1
<1>4. ASSUME NEW b \in DOMAIN account
      PROVE  account'[b] \in AccountRow /\ account'[b].password = account[b].password
  <2>1. CASE b = a
    BY <1>2, <1>3, <2>1 DEF AccountRow
  <2>2. CASE b # a
    BY <1>2, <1>3, <2>2
  <2> QED BY <2>1, <2>2
<1>5. tenant \in [Tenants -> Settings]
  BY Types
<1>6. /\ tenant' = tenant /\ DOMAIN account' = DOMAIN account
      /\ UNCHANGED <<now, up, version, blacklist, tokens, out, covered>>
  BY <1>1, <1>3
<1>7. tx' = StillBarred(account', tenant)
  BY <1>1
<1> QED BY <1>4, <1>5, <1>6, <1>7, StatusKeeps

-----------------------------------------------------------------------------
LEMMA FlipKeeps ==
  ASSUME IndInv, RedisFlips
  PROVE  IndInv'
<1>1. UNCHANGED <<now, version, blacklist, account, tenant, tokens, out, covered, tx>>
      /\ up' \in BOOLEAN
  BY Types DEF RedisFlips
<1>2. \A v \in Workers : Facts(tx[v])' /\ Announced(tx[v])'
  <2>1. \A b : UnderWay(b)' <=> UnderWay(b)
    BY <1>1 DEF UnderWay
  <2> SUFFICES ASSUME NEW v \in Workers PROVE Facts(tx[v])' /\ Announced(tx[v])'
    OBVIOUS
  <2>2. Facts(tx[v]) /\ Announced(tx[v]) /\ (UnderWay(tx[v].who)' => UnderWay(tx[v].who))
    BY <1>1, <2>1 DEF IndInv
  <2> QED BY <1>1, <2>2 DEF Facts, Announced
<1>3. \A tok \in tokens' : TokFacts(tok)'
  BY <1>1 DEF IndInv, TokFacts
<1>4. OutNamed' /\ CoveredPast'
  BY <1>1 DEF IndInv, OutNamed, CoveredPast, Free
<1>5. TypeOK'
  BY <1>1 DEF IndInv, TypeOK
<1> QED BY <1>2, <1>3, <1>4, <1>5 DEF IndInv

LEMMA TickKeeps ==
  ASSUME IndInv, Tick
  PROVE  IndInv'
<1>1. /\ now' = now + 1 /\ tokens' = {tok \in tokens : tok.exp > now'}
      /\ blacklist' = {b \in blacklist : b.until > now'}
      /\ out' = out \intersect {tok.jti : tok \in tokens'}
      /\ \A w \in Workers : tx[w].op = "idle"
      /\ UNCHANGED <<up, version, account, tenant, covered, tx>>
  BY DEF Tick
<1>2. /\ now \in Nat /\ now' \in Nat /\ RefreshLife \in Nat
      /\ tokens \subseteq Token /\ blacklist \subseteq [jti: Names, until: Nat]
  BY <1>1, Types, AccessAssumption
<1>3. ASSUME NEW tok \in tokens' PROVE TokFacts(tok)'
  <2>1. /\ tok \in tokens /\ TokFacts(tok) /\ tok.exp > now' /\ tok.exp \in Nat
    BY <1>1, <1>2 DEF IndInv, Token
  <2>2. tok.exp <= now' + RefreshLife
    BY <1>1, <1>2, <2>1 DEF TokFacts
  <2>3. ASSUME tok.jti \in out'
        PROVE  \E b \in blacklist' : b.jti = tok.jti /\ b.until >= tok.exp
    <3>1. tok.jti \in out
      BY <1>1, <2>3
    <3>2. PICK b \in blacklist : b.jti = tok.jti /\ b.until >= tok.exp
      BY <2>1, <3>1 DEF TokFacts
    <3>3. b.until \in Nat
      BY <1>2
    <3>4. b.until > now'
      BY <1>2, <2>1, <3>2, <3>3
    <3> QED BY <1>1, <3>2, <3>4
  <2> QED BY <1>1, <2>1, <2>2, <2>3 DEF TokFacts
<1>4. \A v \in Workers : Facts(tx[v])' /\ Announced(tx[v])'
  BY <1>1 DEF Facts, Announced
<1>5. OutNamed' /\ CoveredPast'
  BY <1>1 DEF IndInv, OutNamed, CoveredPast, Free
<1>6. TypeOK'
  BY <1>1, <1>2 DEF IndInv, TypeOK
<1> QED BY <1>3, <1>4, <1>5, <1>6 DEF IndInv

-----------------------------------------------------------------------------
LEMMA InitKeeps == Init => IndInv
<1> SUFFICES ASSUME Init PROVE IndInv
  OBVIOUS
<1>1. PICK S \in Rosters : account = [a \in S |-> [enabled |-> TRUE, password |-> 0]]
  BY DEF Init
<1>2. S \subseteq Staff /\ covered = [a \in Staff |-> 0] /\ tx = [w \in Workers |-> Idle]
  BY AccessAssumption DEF Init
<1>3. TypeOK
  BY <1>1, <1>2, IdleType, AccessAssumption DEF Init, TypeOK, AccountRow
<1>4. \A w \in Workers : Announced(tx[w]) /\ Facts(tx[w])
  BY <1>2, IdleType DEF Announced, Facts
<1>5. CoveredPast
  BY <1>1, <1>2 DEF CoveredPast
<1> QED BY <1>3, <1>4, <1>5 DEF IndInv, OutNamed, Init

LEMMA NextKeeps == IndInv /\ [Next]_vars => IndInv'
<1> SUFFICES ASSUME IndInv, [Next]_vars PROVE IndInv'
  OBVIOUS
<1>1. CASE UNCHANGED vars
  <2>1. UNCHANGED <<now, up, version, blacklist, account, tenant, tokens, out, covered, tx>>
    BY <1>1 DEF vars, redis
  <2>2. \A v \in Workers : Facts(tx[v])' /\ Announced(tx[v])'
    BY <2>1 DEF IndInv, Facts, Announced, UnderWay
  <2>3. \A tok \in tokens' : TokFacts(tok)'
    BY <2>1 DEF IndInv, TokFacts
  <2>4. OutNamed' /\ CoveredPast' /\ TypeOK'
    BY <2>1 DEF IndInv, OutNamed, CoveredPast, Free, TypeOK
  <2> QED BY <2>2, <2>3, <2>4 DEF IndInv
<1>2. ASSUME NEW w \in Workers,
             \/ \E a \in DOMAIN account : Login(w, a)
             \/ \E tok \in tokens : RefreshBegin(w, tok) \/ GuardRedis(w, tok)
             \/ RefreshRow(w) \/ GuardRows(w) \/ GuardBlind(w) \/ Leave(w)
      PROVE  IndInv'
  BY <1>2, ReadingKeeps
<1>3. ASSUME NEW w \in Workers, Issue(w) \/ Logout(w) PROVE IndInv'
  BY <1>3, IssueKeeps, LogoutKeeps
<1>4. ASSUME NEW w \in Workers,
             \/ \E a \in DOMAIN account : WriteFirst(w, a)
             \/ RaiseLast(w) \/ RaiseFirst(w) \/ WriteLast(w)
      PROVE  IndInv'
  BY <1>4, WriteFirstKeeps, RaiseLastKeeps, RaiseFirstKeeps, WriteLastKeeps
<1>5. ASSUME NEW a \in DOMAIN account, EditPassword(a) \/ SetStaff(a) PROVE IndInv'
  BY <1>5, EditPasswordKeeps, SetStaffKeeps
<1>6. ASSUME NEW t \in Tenants, NEW s \in Settings, SetTenant(t, s) PROVE IndInv'
  BY <1>6, SetTenantKeeps
<1>7. ASSUME NEW tok \in tokens, Forget(tok) PROVE IndInv'
  BY <1>7, ForgetKeeps
<1>8. RedisFlips \/ Tick => IndInv'
  BY FlipKeeps, TickKeeps
<1> QED BY <1>1, <1>2, <1>3, <1>4, <1>5, <1>6, <1>7, <1>8 DEF Next

(* The strengthening: what a token and an open request remember agrees     *)
(* with the accounts as they are by now.                                   *)
THEOREM IndInvHolds == Spec => []IndInv
BY InitKeeps, NextKeeps, PTL DEF Spec

-----------------------------------------------------------------------------
(* Every variable keeps its type.                                          *)
THEOREM TypeCorrect == Spec => []TypeOK
<1>1. IndInv => TypeOK
  BY DEF IndInv
<1> QED BY <1>1, IndInvHolds, PTL

(* No token that goes back to an older password passes the version check   *)
(* once the change has ended, except for the overlaps `clean' excludes.    *)
THEOREM RevocationHoldsAlways == Spec => []RevocationHolds
<1>1. IndInv => RevocationHolds
  BY DEF IndInv, TokFacts, RevocationHolds
<1> QED BY <1>1, IndInvHolds, PTL

(* A request that the rows refuse at every step, for what TenantGuard or   *)
(* the renewal looks at, is neither admitted nor given tokens.             *)
THEOREM BarredRefusedHolds == Spec => []BarredRefused
<1>1. IndInv => BarredRefused
  BY DEF IndInv, Facts, BarredRefused
<1> QED BY <1>1, IndInvHolds, PTL

(* The entry of a logged-out token outlives the token.                     *)
THEOREM LogoutHoldsAlways == Spec => []LogoutHolds
<1>1. IndInv => LogoutHolds
  BY DEF IndInv, TokFacts, LogoutHolds
<1> QED BY <1>1, IndInvHolds, PTL

(* However often a merchant renews, the session ends.                      *)
THEOREM SessionBoundedHolds == Spec => []SessionBounded
<1>1. IndInv => SessionBounded
  BY DEF IndInv, TokFacts, SessionBounded
<1> QED BY <1>1, IndInvHolds, PTL
==============================================================================
