---------------------------- MODULE TenancyProofs ----------------------------
(***************************************************************************)
(* Proofs about module Tenancy for every number of customers, tenants,     *)
(* tickets, requests and outages.                                          *)
(***************************************************************************)
EXTENDS Tenancy, FiniteSetTheorems, TLAPS

(* Who a request is about.                                                 *)
TxFacts(t) ==
  /\ t.op \in {"begun", "drawn"} => t.who \in People \union Companies
  /\ t.op \in {"read", "cleared"} => t.who \in Tickets

(* A number drawn from Redis, as a row or in the hand of a request, is not *)
(* above the counter, and there is one of it.                              *)
RowsApart(k) ==
  /\ \A r \in numbered[k] : r.from = "redis" => r.no <= counter[k]
  /\ \A r, s \in numbered[k] :
       r.from = "redis" /\ s.from = "redis" /\ r.no = s.no => r = s

Holds(t, k) == t.op = "drawn" /\ t.kind = k /\ t.from = "redis"

HandsApart(k) ==
  /\ \A w \in Workers : Holds(tx[w], k) =>
       /\ tx[w].no <= counter[k]
       /\ \A r \in numbered[k] : r.from = "redis" => r.no # tx[w].no
  /\ \A v, w \in Workers :
       v # w /\ Holds(tx[v], k) /\ Holds(tx[w], k) => tx[v].no # tx[w].no

(* The request of a worker is between the reading of a ticket and the      *)
(* session it opens.                                                       *)
Busy(w, t) == tx[w].op \in {"read", "cleared"} /\ tx[w].who = t

(* A ticket that is not torn is in one hand at most, and opens a session   *)
(* only after it is gone.                                                  *)
Whole(t) ==
  /\ \A v, w \in Workers : Busy(v, t) /\ Busy(w, t) => v = w
  /\ \A w \in Workers : Busy(w, t) => uses[t] = 0 /\ ticket[t] # "new"
  /\ uses[t] <= 1
  /\ ticket[t] # "gone" =>
       uses[t] = 0 /\ \A w \in Workers : ~(tx[w].op = "cleared" /\ tx[w].who = t)

IndInv ==
  /\ TypeOK
  /\ \A w \in Workers : TxFacts(tx[w])
  /\ \A k \in Kinds : RowsApart(k) /\ HandsApart(k)
  /\ \A t \in Tickets : t \notin torn => Whole(t)

-----------------------------------------------------------------------------
LEMMA Blank == Idle \in Request /\ TxFacts(Idle)
BY DEF Idle, Request, TxFacts, Kinds, Sources

(* A step that replaces one request by a typed one.                        *)
LEMMA Turn ==
  ASSUME IndInv, NEW w \in Workers, NEW t \in Request, TxFacts(t),
         tx' = [tx EXCEPT ![w] = t]
  PROVE  /\ tx' \in [Workers -> Request] /\ \A v \in Workers : TxFacts(tx'[v])
         /\ tx'[w] = t /\ \A v \in Workers : v # w => tx'[v] = tx[v]
BY DEF IndInv, TypeOK

(* Nothing is drawn and no counter moves.                                  *)
LEMMA NumbersKept ==
  ASSUME IndInv, UNCHANGED <<counter, numbered>>,
         \A v \in Workers : tx'[v].op = "drawn" => tx'[v] = tx[v]
  PROVE  \A k \in Kinds : RowsApart(k)' /\ HandsApart(k)'
<1> SUFFICES ASSUME NEW k \in Kinds PROVE RowsApart(k)' /\ HandsApart(k)'
  OBVIOUS
<1>1. RowsApart(k) /\ HandsApart(k)
  BY DEF IndInv
<1>2. RowsApart(k)'
  BY <1>1 DEF RowsApart
<1>3. \A v \in Workers : Holds(tx'[v], k) => tx'[v] = tx[v] /\ Holds(tx[v], k)
  BY DEF Holds
<1>4. HandsApart(k)'
  BY <1>1, <1>3 DEF HandsApart
<1> QED BY <1>2, <1>4

(* No ticket is touched.                                                   *)
LEMMA TicketsKept ==
  ASSUME IndInv, UNCHANGED <<ticket, uses, torn>>,
         \A v \in Workers : tx'[v].op \in {"read", "cleared"} => tx'[v] = tx[v]
  PROVE  \A t \in Tickets : t \notin torn' => Whole(t)'
<1> SUFFICES ASSUME NEW t \in Tickets, t \notin torn PROVE Whole(t)'
  OBVIOUS
<1>1. Whole(t)
  BY DEF IndInv
<1>2. \A v \in Workers : tx'[v].op \in {"read", "cleared"} => tx'[v] = tx[v]
  OBVIOUS
<1> QED BY <1>1, <1>2 DEF Whole, Busy

(* A step of a login or an opening that draws no number.                   *)
LEMMA RequestKeeps ==
  ASSUME IndInv, NEW w \in Workers, NEW t \in Request, TxFacts(t),
         t.op \in {"idle", "begun"} \/ (t.op = "drawn" /\ t.from = "mysql"),
         tx' = [tx EXCEPT ![w] = t],
         sequence' \in [Kinds -> Nat], up' \in BOOLEAN, open' \in BOOLEAN,
         UNCHANGED <<counter, numbered, ticket, uses, torn>>
  PROVE  IndInv'
<1>1. /\ tx' \in [Workers -> Request] /\ \A v \in Workers : TxFacts(tx'[v])
      /\ tx'[w] = t /\ \A v \in Workers : v # w => tx'[v] = tx[v]
  BY Turn
<1>2. \A v \in Workers : tx'[v].op \in {"read", "cleared"} => tx'[v] = tx[v]
  BY <1>1
<1>3. \A k \in Kinds : RowsApart(k)' /\ HandsApart(k)'
  <2> SUFFICES ASSUME NEW k \in Kinds PROVE RowsApart(k)' /\ HandsApart(k)'
    OBVIOUS
  <2>1. RowsApart(k) /\ HandsApart(k)
    BY DEF IndInv
  <2>2. \A v \in Workers : Holds(tx'[v], k) => tx'[v] = tx[v] /\ Holds(tx[v], k)
    BY <1>1 DEF Holds
  <2> QED BY <2>1, <2>2 DEF RowsApart, HandsApart
<1>4. \A t1 \in Tickets : t1 \notin torn' => Whole(t1)'
  BY <1>2, TicketsKept
<1>5. TypeOK'
  BY <1>1 DEF IndInv, TypeOK
<1> QED BY <1>1, <1>3, <1>4, <1>5 DEF IndInv

-----------------------------------------------------------------------------
(* Numbers.                                                                *)

LEMMA BeginKeeps ==
  ASSUME IndInv, NEW w \in Workers, NEW kind \in Kinds, NEW who \in People \union Companies,
         Begin(w, kind, who)
  PROVE  IndInv'
<1> DEFINE t == [Idle EXCEPT !.op = "begun", !.kind = kind, !.who = who, !.rows = sequence[kind]]
<1>1. t \in Request /\ TxFacts(t) /\ t.op = "begun"
  BY DEF IndInv, TypeOK, Idle, Request, TxFacts, Sources
<1>2. /\ tx' = [tx EXCEPT ![w] = t]
      /\ UNCHANGED <<up, open, counter, sequence, numbered, ticket, uses, torn>>
  BY DEF Begin
<1>3. sequence' \in [Kinds -> Nat] /\ up' \in BOOLEAN /\ open' \in BOOLEAN
  BY <1>2 DEF IndInv, TypeOK
<1> HIDE DEF t
<1> QED BY <1>1, <1>2, <1>3, RequestKeeps

LEMMA DrawRedisKeeps ==
  ASSUME IndInv, NEW w \in Workers, DrawRedis(w)
  PROVE  IndInv'
<1> DEFINE kind == tx[w].kind
           no == counter[kind] + 1
           t == [tx[w] EXCEPT !.op = "drawn", !.no = no, !.from = "redis"]
<1>1. /\ TypeOK /\ tx[w] \in Request /\ TxFacts(tx[w]) /\ kind \in Kinds
      /\ counter \in [Kinds -> Nat] /\ no \in Nat
  BY DEF IndInv, TypeOK, Request
<1>2. /\ tx' = [tx EXCEPT ![w] = t] /\ counter' = [counter EXCEPT ![kind] = no]
      /\ UNCHANGED <<up, open, sequence, numbered, ticket, uses, torn>>
  BY <1>1 DEF DrawRedis, Drawn, KeyIncremented, TypeOK
<1>3. t \in Request /\ TxFacts(t) /\ t.op = "drawn" /\ t.kind = kind /\ t.no = no
  BY <1>1 DEF DrawRedis, Request, TxFacts, Sources
<1> HIDE DEF t
<1>4. /\ tx' \in [Workers -> Request] /\ \A v \in Workers : TxFacts(tx'[v])
      /\ tx'[w] = t /\ \A v \in Workers : v # w => tx'[v] = tx[v]
  BY <1>2, <1>3, Turn
<1>5. ASSUME NEW k \in Kinds PROVE RowsApart(k)' /\ HandsApart(k)'
  <2>1. RowsApart(k) /\ HandsApart(k) /\ numbered[k] \in SUBSET Row
    BY DEF IndInv, TypeOK
  <2>2. /\ counter[k] \in Nat /\ counter'[k] \in Nat /\ counter[k] <= counter'[k]
        /\ k = kind => counter'[k] = no /\ counter[k] < no
    BY <1>1, <1>2
  <2>3. \A r \in numbered[k] : r.no \in Nat
    BY <2>1 DEF Row
  <2>4. \A v \in Workers : tx[v].no \in Nat
    BY <1>1 DEF TypeOK, Request
  <2>5. RowsApart(k)'
    BY <1>2, <2>1, <2>2, <2>3 DEF RowsApart
  <2>6. \A v \in Workers : v # w /\ Holds(tx'[v], k) => Holds(tx[v], k) /\ tx'[v] = tx[v]
    BY <1>4
  <2>7. Holds(tx'[w], k) => k = kind /\ tx'[w].no = no
    BY <1>3, <1>4 DEF Holds
  <2> HIDE DEF no, kind
  <2>8. \A v \in Workers : Holds(tx'[v], k) =>
          /\ tx'[v].no <= counter'[k]
          /\ \A r \in numbered'[k] : r.from = "redis" => r.no # tx'[v].no
    <3> SUFFICES ASSUME NEW v \in Workers, Holds(tx'[v], k)
                 PROVE  /\ tx'[v].no <= counter'[k]
                        /\ \A r \in numbered[k] : r.from = "redis" => r.no # tx'[v].no
      BY <1>2
    <3>1. CASE v = w
      <4>1. tx'[v].no = no /\ k = kind
        BY <2>7, <3>1
      <4> QED BY <2>1, <2>2, <2>3, <4>1 DEF RowsApart
    <3>2. CASE v # w
      <4>1. tx'[v] = tx[v] /\ Holds(tx[v], k)
        BY <2>6, <3>2
      <4> QED BY <2>1, <2>2, <2>4, <4>1 DEF HandsApart
    <3> QED BY <3>1, <3>2
  <2>9. \A v \in Workers : v # w /\ Holds(tx'[v], k) /\ Holds(tx'[w], k)
                             => tx'[v].no # tx'[w].no
    BY <2>1, <2>2, <2>4, <2>6, <2>7 DEF HandsApart
  <2>10. HandsApart(k)'
    BY <2>1, <2>6, <2>8, <2>9 DEF HandsApart
  <2> QED BY <2>5, <2>10
<1>6. \A v \in Workers : tx'[v].op \in {"read", "cleared"} => tx'[v] = tx[v]
  BY <1>3, <1>4
<1>7. \A t1 \in Tickets : t1 \notin torn' => Whole(t1)'
  BY <1>2, <1>6, TicketsKept
<1>8. TypeOK'
  BY <1>1, <1>2, <1>4 DEF TypeOK
<1> QED BY <1>4, <1>5, <1>7, <1>8 DEF IndInv

LEMMA DrawMysqlKeeps ==
  ASSUME IndInv, NEW w \in Workers, DrawMysql(w)
  PROVE  IndInv'
<1>1. /\ tx[w] \in Request /\ TxFacts(tx[w]) /\ tx[w].op = "begun"
      /\ sequence \in [Kinds -> Nat] /\ up \in BOOLEAN /\ open \in BOOLEAN
      /\ UNCHANGED <<up, open, counter, sequence, numbered, ticket, uses, torn>>
  BY DEF IndInv, TypeOK, DrawMysql
<1>2. CASE Reply(w)
  BY <1>1, <1>2, Blank, RequestKeeps DEF Reply, Idle
<1>3. CASE Drawn(w, 1, "mysql")
  <2> DEFINE t == [tx[w] EXCEPT !.op = "drawn", !.no = 1, !.from = "mysql"]
  <2>1. t \in Request /\ TxFacts(t) /\ t.op = "drawn" /\ t.from = "mysql"
    BY <1>1 DEF Request, TxFacts, Sources
  <2>2. tx' = [tx EXCEPT ![w] = t]
    BY <1>3 DEF Drawn, IndInv, TypeOK
  <2> HIDE DEF t
  <2> QED BY <1>1, <2>1, <2>2, RequestKeeps
<1> QED BY <1>2, <1>3 DEF DrawMysql

(* A row is stored under the number in hand.                               *)
LEMMA StoreKeeps ==
  ASSUME IndInv, NEW w \in Workers, Store(w)
  PROVE  IndInv'
<1> DEFINE t == tx[w]
           row == [who |-> t.who, no |-> t.no, from |-> t.from]
<1>1. /\ TypeOK /\ t \in Request /\ TxFacts(t) /\ t.op = "drawn" /\ t.kind \in Kinds
      /\ tx' = [tx EXCEPT ![w] = Idle] /\ UNCHANGED <<up, open, counter, ticket, uses, torn>>
  BY DEF IndInv, TypeOK, Request, Store, Reply
<1>2. CASE Taken(t.kind, t.no)
  <2>1. UNCHANGED <<numbered, sequence>>
    BY <1>2 DEF Store
  <2>2. sequence' \in [Kinds -> Nat] /\ up' \in BOOLEAN /\ open' \in BOOLEAN
    BY <1>1, <2>1 DEF TypeOK
  <2>3. Idle.op = "idle"
    BY DEF Idle
  <2> QED BY <1>1, <2>1, <2>2, <2>3, Blank, RequestKeeps
<1>3. CASE ~Taken(t.kind, t.no)
  <2>1. /\ numbered' = [numbered EXCEPT ![t.kind] = @ \union {row}]
        /\ sequence' = [sequence EXCEPT ![t.kind] = @ + IF t.from = "mysql" THEN 1 ELSE 0]
    BY <1>3 DEF Store
  <2>2. row \in Row
    BY <1>1 DEF Row, Request, TxFacts
  <2>3. /\ tx' \in [Workers -> Request] /\ \A v \in Workers : TxFacts(tx'[v])
        /\ tx'[w] = Idle /\ \A v \in Workers : v # w => tx'[v] = tx[v]
    BY <1>1, Blank, Turn
  <2>4. ASSUME NEW k \in Kinds PROVE RowsApart(k)' /\ HandsApart(k)'
    <3>1. RowsApart(k) /\ HandsApart(k)
      BY DEF IndInv
    <3>2. \A v \in Workers : Holds(tx'[v], k) => v # w /\ tx'[v] = tx[v] /\ Holds(tx[v], k)
      BY <2>3 DEF Holds, Idle
    <3>3. CASE k # t.kind
      <4>1. numbered'[k] = numbered[k] /\ counter' = counter
        BY <1>1, <2>1, <3>3 DEF TypeOK
      <4> QED BY <3>1, <3>2, <4>1 DEF RowsApart, HandsApart
    <3>4. CASE k = t.kind
      <4>1. numbered'[k] = numbered[k] \union {row} /\ counter' = counter
        BY <1>1, <2>1, <3>4 DEF TypeOK
      <4>2. row.from = "redis" =>
              /\ Holds(t, k) /\ row.no = t.no /\ row.no <= counter[k]
              /\ \A r \in numbered[k] : r.from = "redis" => r.no # row.no
        BY <1>1, <3>1, <3>4 DEF Holds, HandsApart
      <4>3. \A v \in Workers : v # w /\ Holds(tx[v], k) /\ Holds(t, k) => tx[v].no # t.no
        BY <3>1 DEF HandsApart
      <4> HIDE DEF row
      <4>4. RowsApart(k)'
        BY <3>1, <4>1, <4>2 DEF RowsApart
      <4>5. HandsApart(k)'
        BY <3>1, <3>2, <4>1, <4>2, <4>3 DEF HandsApart
      <4> QED BY <4>4, <4>5
    <3> QED BY <3>3, <3>4
  <2>5. \A v \in Workers : tx'[v].op \in {"read", "cleared"} => tx'[v] = tx[v]
    BY <2>3 DEF Idle
  <2>6. \A t1 \in Tickets : t1 \notin torn' => Whole(t1)'
    BY <1>1, <2>5, TicketsKept
  <2>7. numbered' \in [Kinds -> SUBSET Row] /\ sequence' \in [Kinds -> Nat]
    BY <1>1, <2>1, <2>2 DEF TypeOK
  <2>8. TypeOK'
    BY <1>1, <2>3, <2>7 DEF TypeOK
  <2> QED BY <2>3, <2>4, <2>6, <2>8 DEF IndInv
<1> QED BY <1>2, <1>3

-----------------------------------------------------------------------------
(* Tickets.                                                                *)

(* A step of a sign-on leaves the numbers alone.                           *)
LEMMA SignOnKeeps ==
  ASSUME IndInv, NEW w \in Workers, NEW t \in Request, TxFacts(t), t.op # "drawn",
         tx' = [tx EXCEPT ![w] = t],
         UNCHANGED <<up, open, counter, sequence, numbered>>,
         ticket' \in [Tickets -> {"new", "live", "gone"}], uses' \in [Tickets -> 0..2],
         torn' \subseteq Tickets,
         \A t1 \in Tickets : t1 \notin torn' => Whole(t1)'
  PROVE  IndInv'
<1>1. /\ tx' \in [Workers -> Request] /\ \A v \in Workers : TxFacts(tx'[v])
      /\ tx'[w] = t /\ \A v \in Workers : v # w => tx'[v] = tx[v]
  BY Turn
<1>2. \A k \in Kinds : RowsApart(k)' /\ HandsApart(k)'
  BY <1>1, NumbersKept
<1>3. TypeOK'
  BY <1>1 DEF IndInv, TypeOK
<1> QED BY <1>1, <1>2, <1>3 DEF IndInv

(* A ticket is made, or expires.                                           *)
LEMMA TicketKeeps ==
  ASSUME IndInv, NEW t \in Tickets, Impersonate(t) \/ TicketExpires(t)
  PROVE  IndInv'
<1>1. PICK s \in {"live", "gone"} : ticket' = [ticket EXCEPT ![t] = s]
  BY DEF Impersonate, TicketExpires
<1>2. UNCHANGED <<up, open, counter, sequence, numbered, uses, torn, tx>>
  BY DEF Impersonate, TicketExpires
<1>3. TypeOK /\ TypeOK'
  BY <1>1, <1>2 DEF IndInv, TypeOK
<1>4. \A k \in Kinds : RowsApart(k)' /\ HandsApart(k)'
  BY <1>2, NumbersKept
<1>5. ASSUME NEW t1 \in Tickets, t1 \notin torn' PROVE Whole(t1)'
  <2>1. Whole(t1)
    BY <1>2, <1>5 DEF IndInv
  <2>2. \/ ticket'[t1] = ticket[t1]
        \/ ticket[t1] # "gone" /\ ticket'[t1] \in {"live", "gone"}
    BY <1>1, <1>3 DEF TypeOK, Impersonate, TicketExpires
  <2> QED BY <1>2, <2>1, <2>2 DEF Whole, Busy
<1>6. \A w \in Workers : TxFacts(tx'[w])
  BY <1>2 DEF IndInv
<1> QED BY <1>3, <1>4, <1>5, <1>6 DEF IndInv

LEMMA ReadKeeps ==
  ASSUME IndInv, NEW w \in Workers, NEW t \in Tickets, SsoRead(w, t)
  PROVE  IndInv'
<1> DEFINE new == [Idle EXCEPT !.op = "read", !.who = t]
<1>1. new \in Request /\ TxFacts(new) /\ new.op = "read" /\ new.who = t
  BY DEF Idle, Request, TxFacts, Kinds, Sources
<1>2. /\ TypeOK /\ tx[w].op = "idle" /\ ticket[t] = "live"
      /\ torn' = IF Reading(t) THEN torn \union {t} ELSE torn
      /\ tx' = [tx EXCEPT ![w] = new]
      /\ UNCHANGED <<up, open, counter, sequence, numbered, ticket, uses>>
  BY DEF SsoRead, IndInv
<1> HIDE DEF new
<1>3. tx'[w] = new /\ \A v \in Workers : v # w => tx'[v] = tx[v]
  BY <1>1, <1>2, Turn
<1>4. ASSUME NEW t1 \in Tickets, t1 \notin torn' PROVE Whole(t1)'
  <2>1. Whole(t1)
    BY <1>2, <1>4 DEF IndInv
  <2>2. CASE t1 # t
    <3>1. \A v \in Workers : tx'[v].op \in {"read", "cleared"} /\ tx'[v].who = t1 => tx'[v] = tx[v]
      BY <1>1, <1>3, <2>2
    <3> QED BY <1>2, <2>1, <3>1 DEF Whole, Busy
  <2>3. CASE t1 = t
    <3>1. ~Reading(t)
      BY <1>2, <1>4, <2>3
    <3>2. uses[t] = 0 /\ \A v \in Workers : ~(tx[v].op = "cleared" /\ tx[v].who = t)
      BY <1>2, <2>1, <2>3 DEF Whole
    <3>3. \A v \in Workers : ~(tx[v].op = "read" /\ tx[v].who = t)
      BY <3>1 DEF Reading
    <3>4. \A v \in Workers : tx'[v].op \in {"read", "cleared"} /\ tx'[v].who = t
                               => v = w /\ tx'[v].op = "read"
      BY <1>1, <1>3, <3>2, <3>3
    <3> QED BY <1>2, <2>3, <3>2, <3>4 DEF Whole, Busy
  <2> QED BY <2>2, <2>3
<1>5. /\ ticket' \in [Tickets -> {"new", "live", "gone"}] /\ uses' \in [Tickets -> 0..2]
      /\ torn' \subseteq Tickets
  BY <1>2 DEF TypeOK
<1> QED BY <1>1, <1>2, <1>4, <1>5, SignOnKeeps

LEMMA DeleteKeeps ==
  ASSUME IndInv, NEW w \in Workers, SsoDelete(w)
  PROVE  IndInv'
<1> DEFINE t == tx[w].who
           new == [tx[w] EXCEPT !.op = "cleared"]
<1>1. TypeOK /\ tx[w] \in Request /\ TxFacts(tx[w]) /\ tx[w].op = "read"
  BY DEF IndInv, TypeOK, SsoDelete
<1>2. /\ new \in Request /\ TxFacts(new) /\ new.op = "cleared" /\ new.who = t
      /\ t \in Tickets
  BY <1>1 DEF Request, TxFacts
<1>3. /\ \/ ticket' = [ticket EXCEPT ![t] = "gone"] /\ torn' = torn
         \/ ticket' = ticket /\ torn' = torn \union {t}
      /\ tx' = [tx EXCEPT ![w] = new]
      /\ UNCHANGED <<up, open, counter, sequence, numbered, uses>>
  BY <1>1 DEF SsoDelete, Deleted, TypeOK
<1> HIDE DEF new
<1>4. tx'[w] = new /\ \A v \in Workers : v # w => tx'[v] = tx[v]
  BY <1>2, <1>3, Turn
<1>5. ASSUME NEW t1 \in Tickets, t1 \notin torn' PROVE Whole(t1)'
  <2>1. Whole(t1)
    BY <1>3, <1>5 DEF IndInv
  <2>2. \A v \in Workers : tx'[v].op \in {"read", "cleared"} /\ tx'[v].who = t1
                             => Busy(v, t1) /\ (v # w => tx'[v] = tx[v]) /\ (v = w => t1 = t)
    BY <1>1, <1>2, <1>4 DEF Busy
  <2>3. CASE t1 # t
    <3>1. ticket'[t1] = ticket[t1]
      BY <1>1, <1>3, <2>3 DEF TypeOK
    <3>2. \A v \in Workers : tx'[v].op \in {"read", "cleared"} /\ tx'[v].who = t1 => tx'[v] = tx[v]
      BY <2>2, <2>3
    <3> QED BY <1>3, <2>1, <2>2, <3>1, <3>2 DEF Whole, Busy
  <2>4. CASE t1 = t
    <3>1. ticket'[t1] = "gone"
      BY <1>1, <1>2, <1>3, <1>5, <2>4 DEF TypeOK
    <3> QED BY <1>3, <2>1, <2>2, <3>1 DEF Whole, Busy
  <2> QED BY <2>3, <2>4
<1>6. /\ ticket' \in [Tickets -> {"new", "live", "gone"}] /\ uses' \in [Tickets -> 0..2]
      /\ torn' \subseteq Tickets
  BY <1>1, <1>2, <1>3 DEF TypeOK
<1> QED BY <1>2, <1>3, <1>5, <1>6, SignOnKeeps

LEMMA IssueKeeps ==
  ASSUME IndInv, NEW w \in Workers, SsoIssue(w)
  PROVE  IndInv'
<1> DEFINE t == tx[w].who
<1>1. TypeOK /\ TxFacts(tx[w]) /\ tx[w].op = "cleared" /\ t \in Tickets
  BY DEF IndInv, SsoIssue, TxFacts
<1>2. /\ \/ uses' = [uses EXCEPT ![t] = IF @ < 2 THEN @ + 1 ELSE @]
         \/ UNCHANGED uses
      /\ tx' = [tx EXCEPT ![w] = Idle]
      /\ UNCHANGED <<up, open, counter, sequence, numbered, ticket, torn>>
  BY DEF SsoIssue, Reply
<1>3. tx'[w] = Idle /\ \A v \in Workers : v # w => tx'[v] = tx[v]
  BY <1>2, Blank, Turn
<1>4. ASSUME NEW t1 \in Tickets, t1 \notin torn' PROVE Whole(t1)'
  <2>1. Whole(t1)
    BY <1>2, <1>4 DEF IndInv
  <2>2. \A v \in Workers : tx'[v].op \in {"read", "cleared"} /\ tx'[v].who = t1
                             => v # w /\ tx'[v] = tx[v] /\ Busy(v, t1)
    BY <1>3 DEF Busy, Idle
  <2>3. CASE t1 # t
    <3>1. uses'[t1] = uses[t1]
      BY <1>1, <1>2, <2>3 DEF TypeOK
    <3> QED BY <1>2, <2>1, <2>2, <3>1 DEF Whole, Busy
  <2>4. CASE t1 = t
    <3>1. Busy(w, t1) /\ uses[t1] = 0 /\ ticket[t1] = "gone"
      BY <1>1, <2>1, <2>4 DEF Whole, Busy
    <3>2. uses'[t1] \in {0, 1}
      BY <1>1, <1>2, <2>4, <3>1 DEF TypeOK
    <3>3. \A v \in Workers : ~(tx'[v].op \in {"read", "cleared"} /\ tx'[v].who = t1)
      BY <2>1, <2>2, <3>1 DEF Whole
    <3> QED BY <1>2, <3>1, <3>2, <3>3 DEF Whole, Busy
  <2> QED BY <2>3, <2>4
<1>5. /\ ticket' \in [Tickets -> {"new", "live", "gone"}] /\ torn' \subseteq Tickets
      /\ uses' \in [Tickets -> 0..2]
  BY <1>1, <1>2 DEF TypeOK
<1>6. Idle.op # "drawn"
  BY DEF Idle
<1> QED BY <1>2, <1>4, <1>5, <1>6, Blank, SignOnKeeps

-----------------------------------------------------------------------------
LEMMA InitKeeps == Init => IndInv
<1> SUFFICES ASSUME Init PROVE IndInv
  OBVIOUS
<1>1. tx \in [Workers -> Request] /\ \A w \in Workers : TxFacts(tx[w]) /\ tx[w].op = "idle"
  <2>1. Idle.op = "idle"
    BY DEF Idle
  <2> QED BY <2>1, Blank DEF Init
<1>2. numbered \in [Kinds -> SUBSET Row]
  <2>1. \A n \in Seeded : [who |-> "seed", no |-> n, from |-> "seed"] \in Row
    BY TenancyAssumption DEF Row, Sources
  <2> QED BY <2>1 DEF Init
<1>3. TypeOK
  BY <1>1, <1>2 DEF Init, TypeOK
<1>4. \A k \in Kinds : \A r \in numbered[k] : r.from = "seed"
  BY DEF Init
<1>5. \A k \in Kinds : RowsApart(k) /\ HandsApart(k)
  BY <1>1, <1>4 DEF RowsApart, HandsApart, Holds
<1>6. \A t \in Tickets : uses[t] = 0
  BY DEF Init
<1>7. \A t \in Tickets : Whole(t)
  BY <1>1, <1>6 DEF Whole, Busy
<1> QED BY <1>1, <1>3, <1>5, <1>7 DEF IndInv

(* A step after which only up and open may differ.                         *)
LEMMA OutsideKeeps ==
  ASSUME IndInv, up' \in BOOLEAN, open' \in BOOLEAN,
         UNCHANGED <<counter, sequence, numbered, ticket, uses, torn, tx>>
  PROVE  IndInv'
<1>1. \A k \in Kinds : RowsApart(k)' /\ HandsApart(k)'
  BY NumbersKept
<1>2. \A t \in Tickets : t \notin torn' => Whole(t)'
  BY TicketsKept
<1> QED BY <1>1, <1>2 DEF IndInv, TypeOK

LEMMA NextKeeps == IndInv /\ [Next]_vars => IndInv'
<1> SUFFICES ASSUME IndInv, [Next]_vars PROVE IndInv'
  OBVIOUS
<1>1. ASSUME NEW w \in Workers, NEW p \in People, LoginBegin(w, p) PROVE IndInv'
  BY <1>1, BeginKeeps DEF LoginBegin, Kinds
<1>2. ASSUME NEW w \in Workers, NEW c \in Companies, OpenBegin(w, c) PROVE IndInv'
  BY <1>2, BeginKeeps DEF OpenBegin, Kinds
<1>3. ASSUME NEW w \in Workers, Fail(w) PROVE IndInv'
  <2>1. /\ tx' = [tx EXCEPT ![w] = Idle]
        /\ UNCHANGED <<up, open, counter, sequence, numbered, ticket, uses, torn>>
    BY <1>3 DEF Fail, Reply
  <2>2. sequence' \in [Kinds -> Nat] /\ up' \in BOOLEAN /\ open' \in BOOLEAN
    BY <2>1 DEF IndInv, TypeOK
  <2>3. Idle.op = "idle"
    BY DEF Idle
  <2> QED BY <2>1, <2>2, <2>3, Blank, RequestKeeps
<1>4. CASE RedisFlips \/ SetStatus \/ UNCHANGED vars
  <2>1. up' \in BOOLEAN /\ open' \in BOOLEAN
    BY <1>4 DEF RedisFlips, SetStatus, vars, IndInv, TypeOK
  <2>2. UNCHANGED <<counter, sequence, numbered, ticket, uses, torn, tx>>
    BY <1>4 DEF RedisFlips, SetStatus, vars
  <2> QED BY <2>1, <2>2, OutsideKeeps
<1> QED BY <1>1, <1>2, <1>3, <1>4, DrawRedisKeeps, DrawMysqlKeeps, StoreKeeps,
           ReadKeeps, DeleteKeeps, IssueKeeps, TicketKeeps DEF Next

(* The rows, the tickets and the requests keep their types.                *)
THEOREM TypeCorrect == Spec => []TypeOK
<1>1. IndInv => TypeOK
  BY DEF IndInv
<1> QED BY <1>1, InitKeeps, NextKeeps, PTL DEF Spec

(* No number of Redis is in two rows, or in a row and a hand, across       *)
(* failures and outages.                                                   *)
THEOREM NumbersApartHolds == Spec => []NumbersApart
<1>1. IndInv => NumbersApart
  <2> SUFFICES ASSUME IndInv, NEW k \in Kinds
               PROVE  /\ \A r, s \in numbered[k] \union InHand(k) :
                           r # s /\ r.no = s.no => ~(r.from = "redis" /\ s.from = "redis")
                      /\ \A v, w \in Workers :
                           v # w /\ {tx[v].op, tx[w].op} = {"drawn"} /\ tx[v].kind = tx[w].kind
                                 /\ {tx[v].from, tx[w].from} = {"redis"} => tx[v].no # tx[w].no
    BY DEF NumbersApart
  <2>1. \A j \in Kinds : RowsApart(j) /\ HandsApart(j)
    BY DEF IndInv
  <2>2. ASSUME NEW r \in InHand(k), r.from = "redis"
        PROVE  \E w \in Workers :
                 /\ Holds(tx[w], k) /\ tx[w].no = r.no
                 /\ r = [who |-> tx[w].who, no |-> tx[w].no, from |-> tx[w].from]
    BY <2>2 DEF InHand, Holds
  <2>3. ASSUME NEW r \in numbered[k] \union InHand(k), NEW s \in numbered[k] \union InHand(k),
               r # s, r.no = s.no, r.from = "redis", s.from = "redis"
        PROVE  FALSE
    <3>1. CASE r \in numbered[k] /\ s \in numbered[k]
      BY <2>1, <2>3, <3>1 DEF RowsApart
    <3>2. CASE r \in numbered[k] /\ s \in InHand(k)
      BY <2>1, <2>2, <2>3, <3>2 DEF HandsApart
    <3>3. CASE r \in InHand(k) /\ s \in numbered[k]
      BY <2>1, <2>2, <2>3, <3>3 DEF HandsApart
    <3>4. CASE r \in InHand(k) /\ s \in InHand(k)
      BY <2>1, <2>2, <2>3, <3>4 DEF HandsApart
    <3> QED BY <2>3, <3>1, <3>2, <3>3, <3>4
  <2>4. ASSUME NEW v \in Workers, NEW w \in Workers, v # w,
               {tx[v].op, tx[w].op} = {"drawn"}, tx[v].kind = tx[w].kind,
               {tx[v].from, tx[w].from} = {"redis"}
        PROVE  tx[v].no # tx[w].no
    <3>1. tx[v].kind \in Kinds
      BY DEF IndInv, TypeOK, Request
    <3>2. Holds(tx[v], tx[v].kind) /\ Holds(tx[w], tx[v].kind)
      BY <2>4 DEF Holds
    <3> QED BY <2>1, <2>4, <3>1, <3>2 DEF HandsApart
  <2> QED BY <2>3, <2>4
<1> QED BY <1>1, InitKeeps, NextKeeps, PTL DEF Spec

(* A ticket opens one session at most, unless two exchanges overlapped or  *)
(* its delete failed.                                                      *)
THEOREM TicketOnceHolds == Spec => []TicketOnce
<1>1. IndInv => TicketOnce
  BY DEF IndInv, TicketOnce, Whole, TypeOK
<1> QED BY <1>1, InitKeeps, NextKeeps, PTL DEF Spec

-----------------------------------------------------------------------------
(* Members.                                                                *)

(* The rows of a set of people, and the logins under way that may add one. *)
RowsOf(P) == {r \in numbered["member"] : r.who \in P}

Coming(P) ==
  {w \in Workers : tx[w].op \in {"begun", "drawn"} /\ tx[w].kind = "member" /\ tx[w].who \in P}

Within(P, n) ==
  IsFiniteSet(RowsOf(P)) /\ Cardinality(RowsOf(P)) + Cardinality(Coming(P)) <= n

Anybody == People \union Companies \union {"seed"}

MembersInv ==
  /\ IndInv
  /\ Limit > 0 => Within(Anybody, Limit - 1 + Cardinality(Workers))
  /\ \A p \in People : Within({p}, Cardinality(Workers))

LEMMA ComingFinite ==
  ASSUME NEW P
  PROVE  /\ Cardinality(Workers) \in Nat
         /\ IsFiniteSet(Coming(P)) /\ Cardinality(Coming(P)) \in Nat
         /\ Cardinality(Coming(P)) <= Cardinality(Workers)
<1>1. Coming(P) \in SUBSET Workers /\ IsFiniteSet(Workers)
  BY TenancyAssumption DEF Coming
<1> QED BY <1>1, FS_Subset, FS_CardinalityType

(* No row is added and nobody else is coming.                              *)
LEMMA WithinKept ==
  ASSUME NEW P, NEW n \in Int, Within(P, n),
         numbered'["member"] = numbered["member"], Coming(P)' \subseteq Coming(P)
  PROVE  Within(P, n)'
<1>1. RowsOf(P)' = RowsOf(P)
  BY DEF RowsOf
<1>2. Cardinality(Coming(P)') \in Nat /\ Cardinality(Coming(P)') <= Cardinality(Coming(P))
  BY ComingFinite, FS_Subset, FS_CardinalityType
<1>3. Cardinality(RowsOf(P)) \in Nat /\ Cardinality(Coming(P)) \in Nat
  BY ComingFinite, FS_CardinalityType DEF Within
<1> QED BY <1>1, <1>2, <1>3 DEF Within

(* A login that ends turns into one more row.                              *)
LEMMA WithinStored ==
  ASSUME NEW P, NEW n \in Int, Within(P, n), NEW w \in Coming(P), NEW r,
         numbered'["member"] = numbered["member"] \union {r},
         Coming(P)' \subseteq Coming(P) \ {w}
  PROVE  Within(P, n)'
<1>1. RowsOf(P)' \subseteq RowsOf(P) \union {r}
  BY DEF RowsOf
<1>2. /\ IsFiniteSet(RowsOf(P) \union {r})
      /\ Cardinality(RowsOf(P) \union {r})
           = IF r \in RowsOf(P) THEN Cardinality(RowsOf(P)) ELSE Cardinality(RowsOf(P)) + 1
  BY FS_AddElement DEF Within
<1>3. /\ IsFiniteSet(RowsOf(P)') /\ Cardinality(RowsOf(P)') \in Nat
      /\ Cardinality(RowsOf(P)') <= Cardinality(RowsOf(P) \union {r})
  BY <1>1, <1>2, FS_Subset, FS_CardinalityType
<1>4. IsFiniteSet(Coming(P) \ {w}) /\ Cardinality(Coming(P) \ {w}) = Cardinality(Coming(P)) - 1
  BY ComingFinite, FS_RemoveElement
<1>5. Cardinality(Coming(P)') \in Nat /\ Cardinality(Coming(P)') <= Cardinality(Coming(P) \ {w})
  BY <1>4, FS_Subset, FS_CardinalityType
<1>6. Cardinality(RowsOf(P)) \in Nat /\ Cardinality(Coming(P)) \in Nat
  BY ComingFinite, FS_CardinalityType DEF Within
<1>7. Cardinality(RowsOf(P)) + Cardinality(Coming(P)) <= n
  BY DEF Within
<1>8. Cardinality(RowsOf(P)') + Cardinality(Coming(P)') <= n
  BY <1>2, <1>3, <1>4, <1>5, <1>6, <1>7
<1> QED BY <1>3, <1>8 DEF Within

(* A login begins when there are few rows.                                 *)
LEMMA WithinBegun ==
  ASSUME NEW P, NEW n \in Int, IsFiniteSet(RowsOf(P)),
         Cardinality(RowsOf(P)) + Cardinality(Workers) <= n,
         numbered'["member"] = numbered["member"]
  PROVE  Within(P, n)'
<1>1. RowsOf(P)' = RowsOf(P)
  BY DEF RowsOf
<1>2. Cardinality(RowsOf(P)) \in Nat /\ Cardinality(Workers) \in Nat
  BY ComingFinite, FS_CardinalityType
<1>3. Coming(P)' \in SUBSET Workers /\ IsFiniteSet(Workers)
  BY TenancyAssumption DEF Coming
<1>4. Cardinality(Coming(P)') \in Nat /\ Cardinality(Coming(P)') <= Cardinality(Workers)
  BY <1>3, FS_Subset, FS_CardinalityType
<1> QED BY <1>1, <1>2, <1>4 DEF Within

(* A first login begins: its member has no row, and the quota is not used. *)
LEMMA LoginWithin ==
  ASSUME MembersInv, NEW w \in Workers, NEW p \in People, LoginBegin(w, p)
  PROVE  /\ Limit > 0 => Within(Anybody, Limit - 1 + Cardinality(Workers))'
         /\ \A q \in People : Within({q}, Cardinality(Workers))'
<1>1. Cardinality(Workers) \in Nat /\ Limit \in Nat
  BY ComingFinite, TenancyAssumption
<1>2. /\ ~Known(p) /\ Room(Cardinality(numbered["member"])) /\ UNCHANGED numbered
      /\ tx' = [tx EXCEPT ![w] = [Idle EXCEPT !.op = "begun", !.kind = "member", !.who = p,
                                             !.rows = sequence["member"]]]
  BY DEF LoginBegin, Begin
<1>3. TypeOK
  BY DEF MembersInv, IndInv
<1>4. Limit > 0 => Within(Anybody, Limit - 1 + Cardinality(Workers))'
  <2> SUFFICES ASSUME Limit > 0
               PROVE  Within(Anybody, Limit - 1 + Cardinality(Workers))'
    OBVIOUS
  <2>1. RowsOf(Anybody) = numbered["member"]
    BY <1>3 DEF TypeOK, RowsOf, Anybody, Row, Kinds
  <2>2. IsFiniteSet(RowsOf(Anybody))
    BY DEF MembersInv, Within
  <2>3. Cardinality(RowsOf(Anybody)) \in Nat /\ Cardinality(RowsOf(Anybody)) < Limit
    BY <1>2, <2>1, <2>2, FS_CardinalityType DEF Room
  <2>4. /\ Cardinality(RowsOf(Anybody)) + Cardinality(Workers) <= Limit - 1 + Cardinality(Workers)
        /\ Limit - 1 + Cardinality(Workers) \in Int
    BY <1>1, <2>3
  <2> QED BY <1>2, <2>2, <2>4, WithinBegun
<1>5. ASSUME NEW q \in People PROVE Within({q}, Cardinality(Workers))'
  <2>1. Within({q}, Cardinality(Workers)) /\ Cardinality(Workers) \in Int
    BY <1>1 DEF MembersInv
  <2>2. CASE q = p
    <3>1. RowsOf({p}) = {}
      BY <1>2 DEF Known, RowsOf
    <3>2. IsFiniteSet(RowsOf({q})) /\ Cardinality(RowsOf({q})) = 0
      BY <2>2, <3>1, FS_EmptySet
    <3> QED BY <1>1, <1>2, <2>1, <3>2, WithinBegun
  <2>3. CASE q # p
    <3>1. Coming({q})' \subseteq Coming({q})
      BY <1>2, <1>3, <2>3 DEF Coming, TypeOK
    <3> QED BY <1>2, <2>1, <3>1, WithinKept
  <2> QED BY <2>2, <2>3
<1> QED BY <1>4, <1>5

(* A login ends with its row.                                              *)
LEMMA StoreWithin ==
  ASSUME MembersInv, NEW w \in Workers, Store(w), NEW P, NEW n \in Int, Within(P, n)
  PROVE  Within(P, n)'
<1> DEFINE r == [who |-> tx[w].who, no |-> tx[w].no, from |-> tx[w].from]
<1>1. TypeOK /\ tx[w].op = "drawn" /\ tx[w].kind \in Kinds
  BY DEF MembersInv, IndInv, TypeOK, Request, Store
<1>2. /\ \/ numbered' = numbered
         \/ numbered' = [numbered EXCEPT ![tx[w].kind] = @ \union {r}]
      /\ tx' = [tx EXCEPT ![w] = Idle]
  BY DEF Store, Reply
<1> HIDE DEF r
<1>3. Coming(P)' \subseteq Coming(P) \ {w}
  BY <1>1, <1>2 DEF Coming, TypeOK, Idle
<1>4. CASE numbered'["member"] = numbered["member"]
  BY <1>3, <1>4, WithinKept
<1>5. CASE numbered'["member"] # numbered["member"]
  <2>1. tx[w].kind = "member" /\ numbered'["member"] = numbered["member"] \union {r}
    BY <1>1, <1>2, <1>5 DEF TypeOK, Kinds
  <2>2. CASE w \in Coming(P)
    BY <1>3, <2>1, <2>2, WithinStored
  <2>3. CASE w \notin Coming(P)
    <3>1. tx[w].who \notin P
      BY <1>1, <2>1, <2>3 DEF Coming
    <3>2. RowsOf(P)' = RowsOf(P)
      BY <2>1, <3>1 DEF RowsOf, r
    <3>3. Cardinality(Coming(P)') \in Nat /\ Cardinality(Coming(P)') <= Cardinality(Coming(P))
      BY <1>3, ComingFinite, FS_Subset, FS_CardinalityType
    <3>4. Cardinality(RowsOf(P)) \in Nat /\ Cardinality(Coming(P)) \in Nat
      BY ComingFinite, FS_CardinalityType DEF Within
    <3> QED BY <3>2, <3>3, <3>4 DEF Within
  <2> QED BY <2>2, <2>3
<1> QED BY <1>4, <1>5

(* Every other step draws a number, ends a request or leaves logins alone. *)
LEMMA OthersWithin ==
  ASSUME MembersInv, [Next]_vars,
         \A w \in Workers : ~Store(w) /\ \A p \in People : ~LoginBegin(w, p),
         NEW P, NEW n \in Int, Within(P, n)
  PROVE  Within(P, n)'
<1>1. TypeOK
  BY DEF MembersInv, IndInv
<1>2. numbered' = numbered
  BY DEF Next, OpenBegin, Begin, DrawRedis, DrawMysql, Fail, SsoRead, SsoDelete, SsoIssue,
         Impersonate, TicketExpires, RedisFlips, SetStatus, vars
<1>3. ASSUME NEW w \in Workers, NEW c \in Companies, OpenBegin(w, c)
      PROVE  Coming(P)' \subseteq Coming(P)
  BY <1>1, <1>3 DEF OpenBegin, Begin, Coming, TypeOK, Idle
<1>4. ASSUME NEW w \in Workers, DrawRedis(w) \/ DrawMysql(w)
      PROVE  Coming(P)' \subseteq Coming(P)
  <2>1. tx[w].op = "begun" /\ tx[w] \in Request /\ w \in DOMAIN tx
    BY <1>1, <1>4 DEF DrawRedis, DrawMysql, TypeOK
  <2>2. \A v \in Workers : v # w => tx'[v] = tx[v]
    BY <1>1, <1>4 DEF DrawRedis, DrawMysql, Drawn, Reply, TypeOK
  <2>3. CASE tx' = [tx EXCEPT ![w] = Idle]
    <3>1. tx'[w] = Idle
      BY <2>1, <2>3
    <3> QED BY <2>2, <3>1 DEF Coming, Idle
  <2>4. CASE \E no, from : Drawn(w, no, from)
    <3>1. /\ tx'[w].kind = tx[w].kind /\ tx'[w].who = tx[w].who
      BY <1>1, <2>1, <2>4 DEF Drawn, Request, TypeOK
    <3> QED BY <2>1, <2>2, <3>1 DEF Coming
  <2>5. tx' = [tx EXCEPT ![w] = Idle] \/ \E no, from : Drawn(w, no, from)
    BY <1>4 DEF DrawRedis, DrawMysql, Reply
  <2> QED BY <2>3, <2>4, <2>5
<1>5. ASSUME NEW w \in Workers, Fail(w) \/ SsoDelete(w) \/ SsoIssue(w)
      PROVE  Coming(P)' \subseteq Coming(P)
  <2>1. \A v \in Workers : v # w => tx'[v] = tx[v]
    BY <1>1, <1>5 DEF Fail, SsoDelete, SsoIssue, Reply, TypeOK
  <2>2. tx'[w].op \in {"idle", "cleared"}
    <3>1. tx[w] \in Request /\ w \in DOMAIN tx
      BY <1>1 DEF TypeOK
    <3> QED BY <1>5, <3>1 DEF Fail, SsoDelete, SsoIssue, Reply, Idle, Request
  <2> QED BY <2>1, <2>2 DEF Coming
<1>6. ASSUME NEW w \in Workers, NEW t \in Tickets, SsoRead(w, t)
      PROVE  Coming(P)' \subseteq Coming(P)
  BY <1>1, <1>6 DEF SsoRead, Coming, TypeOK, Idle
<1>7. ASSUME tx' = tx PROVE Coming(P)' \subseteq Coming(P)
  BY <1>7 DEF Coming
<1>8. Coming(P)' \subseteq Coming(P)
  BY <1>3, <1>4, <1>5, <1>6, <1>7
  DEF Next, Impersonate, TicketExpires, RedisFlips, SetStatus, vars
<1> QED BY <1>2, <1>8, WithinKept

LEMMA MembersKept == MembersInv /\ [Next]_vars => MembersInv'
<1> SUFFICES ASSUME MembersInv, [Next]_vars PROVE MembersInv'
  OBVIOUS
<1>1. IndInv'
  BY NextKeeps DEF MembersInv
<1>2. Cardinality(Workers) \in Int /\ Limit - 1 + Cardinality(Workers) \in Int
  BY ComingFinite, TenancyAssumption
<1>3. ASSUME NEW w \in Workers, NEW p \in People, LoginBegin(w, p) PROVE MembersInv'
  BY <1>1, <1>3, LoginWithin DEF MembersInv
<1>4. ASSUME NEW w \in Workers, Store(w) PROVE MembersInv'
  BY <1>1, <1>2, <1>4, StoreWithin DEF MembersInv
<1>5. ASSUME \A w \in Workers : ~Store(w) /\ \A p \in People : ~LoginBegin(w, p)
      PROVE  MembersInv'
  BY <1>1, <1>2, <1>5, OthersWithin DEF MembersInv
<1> QED BY <1>3, <1>4, <1>5

LEMMA MembersInit == Init => MembersInv
<1> SUFFICES ASSUME Init PROVE MembersInv
  OBVIOUS
<1>1. ASSUME NEW P PROVE RowsOf(P) = {} /\ Coming(P) = {}
  BY DEF Init, RowsOf, Coming, Idle, Kinds
<1>2. ASSUME NEW P, NEW n \in Nat PROVE Within(P, n)
  BY <1>1, FS_EmptySet DEF Within
<1>3. /\ Cardinality(Workers) \in Nat
      /\ Limit > 0 => Limit - 1 + Cardinality(Workers) \in Nat
  BY ComingFinite, TenancyAssumption
<1> QED BY <1>2, <1>3, InitKeeps DEF MembersInv

(* First logins that overlap pass the quota by one for each further worker *)
(* at most, and give one person at most a row for each worker.             *)
THEOREM MembersBoundedHolds == Spec => []MembersBounded
<1>1. ASSUME MembersInv PROVE MembersBounded
  <2>1. Cardinality(Workers) \in Nat /\ Limit \in Nat
    BY ComingFinite, TenancyAssumption
  <2>2. ASSUME NEW P, NEW n \in Int, Within(P, n)
        PROVE  Cardinality(RowsOf(P)) \in Nat /\ Cardinality(RowsOf(P)) <= n
    BY <2>2, ComingFinite, FS_CardinalityType DEF Within
  <2>3. ASSUME Limit > 0 PROVE Cardinality(numbered["member"]) < Limit + Cardinality(Workers)
    <3>1. RowsOf(Anybody) = numbered["member"]
      BY <1>1 DEF MembersInv, IndInv, TypeOK, RowsOf, Anybody, Row, Kinds
    <3>2. Within(Anybody, Limit - 1 + Cardinality(Workers))
      BY <1>1, <2>3 DEF MembersInv
    <3> QED BY <2>1, <2>2, <3>1, <3>2
  <2>4. ASSUME NEW p \in People
        PROVE  Cardinality({r \in numbered["member"] : r.who = p}) <= Cardinality(Workers)
    <3>1. RowsOf({p}) = {r \in numbered["member"] : r.who = p}
      BY DEF RowsOf
    <3>2. Within({p}, Cardinality(Workers))
      BY <1>1 DEF MembersInv
    <3> QED BY <2>1, <2>2, <3>1, <3>2
  <2> QED BY <2>3, <2>4 DEF MembersBounded
<1> QED BY <1>1, MembersInit, MembersKept, PTL DEF Spec
=============================================================================
