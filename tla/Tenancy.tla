------------------------------ MODULE Tenancy ------------------------------
(***************************************************************************)
(* Tenants and what comes in at their door: platform staff open tenants    *)
(* and sign on as a tenant's administrator by a ticket; customers become   *)
(* members when they first log in.  Member and tenant numbers are counted  *)
(* in Redis, and in the MySQL table pf_sequence while Redis is out of      *)
(* reach (core/id_generator.py).                                           *)
(*                                                                         *)
(* One tenant, with its members and tickets, is modelled; the others only  *)
(* by their numbers.                                                       *)
(***************************************************************************)
EXTENDS Naturals, FiniteSets

CONSTANTS People,     \* customers, told apart by phone or openid
          Companies,  \* those for whom a tenant is opened, each once
          Tickets,    \* one element per impersonate call: a bound
          Workers,    \* requests handled at the same time
          Limit,      \* member_limit of the tenant, 0 for none
          Seeded,     \* the tenant numbers of the seed data
          MaxLost     \* bound on the numbers of Redis lost in failed requests

ASSUME TenancyAssumption ==
  /\ Limit \in Nat /\ MaxLost \in Nat /\ Seeded \subseteq Nat /\ IsFiniteSet(Workers)
  /\ People \intersect Companies = {} /\ "seed" \notin People \union Companies

Kinds == {"member", "tenant"}
Sources == {"redis", "mysql", "seed"}

VARIABLES
  up,        \* Redis answers
  open,      \* the tenant is neither DISABLED nor EXPIRED
  counter,   \* counter[k]: the key seq:... of Redis
  sequence,  \* sequence[k]: how many rows pf_sequence has for the key
  numbered,  \* numbered[k]: the rows of mb_member and of pf_tenant
  ticket,    \* ticket[t]: the key imp:... of Redis
  uses,      \* uses[t]: the sessions a ticket has opened, counted up to 2
  torn,      \* the tickets that were read twice before, or survived, a delete
  tx         \* tx[w]: the request a worker handles

vars == <<up, open, counter, sequence, numbered, ticket, uses, torn, tx>>

Row == [who: People \union Companies \union {"seed"}, no: Nat, from: Sources]

(* begun: the checks are passed, on a snapshot with `rows' rows of         *)
(* pf_sequence; drawn: a number is drawn; read, cleared: a ticket is.      *)
Request == [op: {"idle", "begun", "drawn", "read", "cleared"}, kind: Kinds,
            who: People \union Companies \union Tickets \union {"nobody"},
            rows: Nat, no: Nat, from: Sources]

Idle == [op |-> "idle", kind |-> "member", who |-> "nobody", rows |-> 0, no |-> 0,
         from |-> "redis"]

TypeOK ==
  /\ up \in BOOLEAN /\ open \in BOOLEAN
  /\ counter \in [Kinds -> Nat]
  /\ sequence \in [Kinds -> Nat]
  /\ numbered \in [Kinds -> SUBSET Row]
  /\ ticket \in [Tickets -> {"new", "live", "gone"}]
  /\ uses \in [Tickets -> 0..2]
  /\ torn \subseteq Tickets
  /\ tx \in [Workers -> Request]

Reply(w) == tx' = [tx EXCEPT ![w] = Idle]

-----------------------------------------------------------------------------
(* A first login, and the opening of a tenant.                             *)

(* A variant that lets one more in.                                        *)
RoomLax(used) == Limit = 0 \/ used <= Limit

Room(used) == Limit = 0 \/ used < Limit

Known(p) == \E r \in numbered["member"] : r.who = p

Begin(w, kind, who) ==
  /\ tx[w].op = "idle"
  /\ tx' = [tx EXCEPT ![w] = [Idle EXCEPT !.op = "begun", !.kind = kind, !.who = who,
                                          !.rows = sequence[kind]]]
  /\ UNCHANGED <<up, open, counter, sequence, numbered, ticket, uses, torn>>

(* A known member is only looked up, which changes nothing.                *)
LoginBegin(w, p) ==
  /\ open
  /\ ~Known(p)
  /\ Room(Cardinality(numbered["member"]))
  /\ Begin(w, "member", p)

OpenBegin(w, c) ==
  /\ \A r \in numbered["tenant"] : r.who # c
  /\ \A v \in Workers : tx[v].who # c
  /\ Begin(w, "tenant", c)

Drawn(w, no, from) ==
  tx' = [tx EXCEPT ![w].op = "drawn", ![w].no = no, ![w].from = from]

(* A variant that reads the key.                                           *)
KeyRead(kind) == counter

KeyIncremented(kind) == [counter EXCEPT ![kind] = @ + 1]

DrawRedis(w) ==
  /\ tx[w].op = "begun" /\ up
  /\ counter' = KeyIncremented(tx[w].kind)
  /\ Drawn(w, counter[tx[w].kind] + 1, "redis")
  /\ UNCHANGED <<up, open, sequence, numbered, ticket, uses, torn>>

(* _mysql_incr.  seq_key has no unique key, so that the INSERT never finds *)
(* a duplicate and adds a row with the value 1, to be committed with the   *)
(* request; and the one() that reads it back fails when the key had a row. *)
DrawMysql(w) ==
  /\ tx[w].op = "begun" /\ ~up
  /\ IF tx[w].rows = 0 THEN Drawn(w, 1, "mysql") ELSE Reply(w)
  /\ UNCHANGED <<up, open, counter, sequence, numbered, ticket, uses, torn>>

(* uk_member_no; tenant_no has no unique key.                              *)
Taken(kind, no) == kind = "member" /\ \E r \in numbered[kind] : r.no = no

(* The row is flushed and committed, or the request rolled back whole.     *)
Store(w) ==
  LET t == tx[w] IN
  /\ t.op = "drawn"
  /\ IF Taken(t.kind, t.no)
     THEN UNCHANGED <<numbered, sequence>>
     ELSE /\ numbered' = [numbered EXCEPT ![t.kind] =
                            @ \union {[who |-> t.who, no |-> t.no, from |-> t.from]}]
          /\ sequence' = [sequence EXCEPT ![t.kind] = @ + IF t.from = "mysql" THEN 1 ELSE 0]
  /\ Reply(w)
  /\ UNCHANGED <<up, open, counter, ticket, uses, torn>>

(* An error, or the loss of the process, after a number was drawn.         *)
Fail(w) ==
  /\ tx[w].op = "drawn"
  /\ tx[w].from = "redis" => counter[tx[w].kind] <= MaxLost
  /\ Reply(w)
  /\ UNCHANGED <<up, open, counter, sequence, numbered, ticket, uses, torn>>

-----------------------------------------------------------------------------
(* Signing on by ticket.                                                   *)

(* impersonate: set_kv is skipped while Redis is out of reach.             *)
Impersonate(t) ==
  /\ ticket[t] = "new" /\ open
  /\ ticket' = [ticket EXCEPT ![t] = IF up THEN "live" ELSE "gone"]
  /\ UNCHANGED <<up, open, counter, sequence, numbered, uses, torn, tx>>

(* Sixty seconds are over.                                                 *)
TicketExpires(t) ==
  /\ ticket[t] = "live"
  /\ ticket' = [ticket EXCEPT ![t] = "gone"]
  /\ UNCHANGED <<up, open, counter, sequence, numbered, uses, torn, tx>>

Reading(t) == \E w \in Workers : tx[w].op = "read" /\ tx[w].who = t

SsoRead(w, t) ==
  /\ tx[w].op = "idle" /\ up /\ ticket[t] = "live"
  /\ torn' = IF Reading(t) THEN torn \union {t} ELSE torn
  /\ tx' = [tx EXCEPT ![w] = [Idle EXCEPT !.op = "read", !.who = t]]
  /\ UNCHANGED <<up, open, counter, sequence, numbered, ticket, uses>>

(* A variant that deletes another key.                                     *)
Untouched(t) == ticket

Deleted(t) == [ticket EXCEPT ![t] = "gone"]

(* The delete; its failure is ignored.                                     *)
SsoDelete(w) ==
  LET t == tx[w].who IN
  /\ tx[w].op = "read"
  /\ IF up THEN ticket' = Deleted(t) /\ UNCHANGED torn
           ELSE torn' = torn \union {t} /\ UNCHANGED ticket
  /\ tx' = [tx EXCEPT ![w].op = "cleared"]
  /\ UNCHANGED <<up, open, counter, sequence, numbered, uses>>

(* The tenant has an enabled administrator, or not.                        *)
SsoIssue(w) ==
  /\ tx[w].op = "cleared"
  /\ \/ uses' = [uses EXCEPT ![tx[w].who] = IF @ < 2 THEN @ + 1 ELSE @]
     \/ UNCHANGED uses
  /\ Reply(w)
  /\ UNCHANGED <<up, open, counter, sequence, numbered, ticket, torn>>

-----------------------------------------------------------------------------
RedisFlips ==
  /\ up' = ~up
  /\ UNCHANGED <<open, counter, sequence, numbered, ticket, uses, torn, tx>>

(* set_status, renew.                                                      *)
SetStatus ==
  /\ open' = ~open
  /\ UNCHANGED <<up, counter, sequence, numbered, ticket, uses, torn, tx>>

Init ==
  /\ up \in BOOLEAN /\ open = TRUE
  /\ counter = [k \in Kinds |-> 0]
  /\ sequence = [k \in Kinds |-> 0]
  /\ numbered = [k \in Kinds |->
       IF k = "tenant" THEN {[who |-> "seed", no |-> n, from |-> "seed"] : n \in Seeded}
                       ELSE {}]
  /\ ticket = [t \in Tickets |-> "new"]
  /\ uses = [t \in Tickets |-> 0]
  /\ torn = {}
  /\ tx = [w \in Workers |-> Idle]

Next ==
  \/ \E w \in Workers :
       \/ \E p \in People : LoginBegin(w, p)
       \/ \E c \in Companies : OpenBegin(w, c)
       \/ DrawRedis(w) \/ DrawMysql(w) \/ Store(w) \/ Fail(w)
       \/ \E t \in Tickets : SsoRead(w, t)
       \/ SsoDelete(w) \/ SsoIssue(w)
  \/ \E t \in Tickets : Impersonate(t) \/ TicketExpires(t)
  \/ RedisFlips
  \/ SetStatus

Spec == Init /\ [][Next]_vars

(* A request that is begun goes on, and a customer who tries again and     *)
(* again is served by some worker.                                         *)
Fairness ==
  /\ \A w \in Workers :
       WF_vars(DrawRedis(w) \/ DrawMysql(w) \/ Store(w) \/ Fail(w) \/ SsoDelete(w) \/ SsoIssue(w))
  /\ \A p \in People : SF_vars(\E w \in Workers : LoginBegin(w, p))

FairSpec == Spec /\ Fairness

-----------------------------------------------------------------------------
(* Properties.                                                             *)

(* The quota and the look-up of a member are read without a lock, so they  *)
(* can be passed; but only by the requests that overlap: the tenant never  *)
(* has as many members above its limit as there are workers, and never     *)
(* more rows of one person than workers.                                   *)
MembersBounded ==
  /\ Limit > 0 => Cardinality(numbered["member"]) < Limit + Cardinality(Workers)
  /\ \A p \in People :
       Cardinality({r \in numbered["member"] : r.who = p}) <= Cardinality(Workers)

(* Rows, and requests under way, that have one number between them do not  *)
(* both have it from Redis, also across failures and outages; so a login   *)
(* is refused for its number only if an outage has been served.            *)
InHand(kind) ==
  {[who |-> tx[w].who, no |-> tx[w].no, from |-> tx[w].from] :
     w \in {v \in Workers : tx[v].op = "drawn" /\ tx[v].kind = kind}}

NumbersApart ==
  \A k \in Kinds :
    /\ \A r, s \in numbered[k] \union InHand(k) :
         r # s /\ r.no = s.no => ~(r.from = "redis" /\ s.from = "redis")
    /\ \A v, w \in Workers :
         v # w /\ {tx[v].op, tx[w].op} = {"drawn"} /\ tx[v].kind = tx[w].kind
               /\ {tx[v].from, tx[w].from} = {"redis"} => tx[v].no # tx[w].no

(* A ticket opens one session at most, unless two exchanges overlap or the *)
(* ignored failure of the delete leaves it.                                *)
TicketOnce == \A t \in Tickets : uses[t] > 1 => t \in torn

(* The numbers handed out by MySQL are in the way of those of Redis, but   *)
(* each attempt moves on by one: once Redis stays up, and the tenant open, *)
(* everybody becomes a member or the quota is used up.                     *)
Served(p) == Known(p) \/ ~Room(Cardinality(numbered["member"]))

Recovers == <>[](up /\ open) => \A p \in People : <>Served(p)

(* id_generator.py: while Redis is out of reach numbers are taken from     *)
(* pf_sequence; so a customer becomes a member without Redis as well.      *)
OutageServed == <>[](open /\ ~up) => \A p \in People : <>Served(p)
=============================================================================
