--------------------------- MODULE SmsProofs ---------------------------
(* Proofs about qmodem-smsd: what "done" means of a delivery, across crashes   *)
(* and reused rowids; no part of a managed request twice, what success means  *)
EXTENDS SmsDelivery, SmsSend, SequenceTheorems, WellFoundedInduction, TLAPS

Messages == [id : Nat, uid : Nat, revision : Nat]
Deliveries == [id : Nat, message : Nat, uid : Nat, revision : Nat,
               state : {"pending", "claimed", "done"}, late : BOOLEAN, available : BOOLEAN]

\* the tables after n texts: ids are unique, every delivery is for a text its message
\* had, and the text a message has now was queued
Tables(ms, ds, n) ==
    /\ ms \subseteq Messages /\ ds \subseteq Deliveries
    /\ \A a \in ms : a.id <= n /\ a.uid <= n
    /\ \A a, b \in ms : a.id = b.id \/ a.uid = b.uid => a = b
    /\ \A d \in ds : d.id <= n
    /\ \A d, e \in ds : d.id = e.id => d = e
    /\ \A d \in ds : \E a \in ms : a.id = d.message /\ a.uid = d.uid /\ d.revision <= a.revision
    /\ \A a \in ms : \E d \in ds : d.message = a.id /\ d.revision = a.revision

\* what was forwarded is no newer than the message
Past ==
    /\ forwarded \subseteq Nat \X Nat \X Targets
    /\ \A f \in forwarded : f[1] <= texts
    /\ \A f \in forwarded, a \in messages : f[1] = a.uid => f[2] <= a.revision

\* the forwarder works on a text of the message its claim is for: while it does, no
\* other delivery that gets the same rowid can be in state "claimed"
Working ==
    pc = "forwarding" =>
        /\ claim.uid \in Nat /\ claim.revision \in Nat /\ claim.uid <= texts
        /\ \A a \in messages : a.uid = claim.uid => claim.revision <= a.revision
        /\ \A d \in deliveries : d.id = claim.delivery /\ d.state = "claimed" =>
              d.uid = claim.uid /\ d.revision <= claim.revision
        /\ success = TRUE => \A t \in Targets \ todo : <<claim.uid, claim.revision, t>> \in forwarded

Inv == /\ texts \in Nat /\ success \in BOOLEAN /\ pc \in {"idle", "forwarding"}
       /\ Tables(messages, deliveries, texts) /\ Past /\ Working /\ DoneMeansForwarded
-------------------------------------------------------------------------------
\* a set of naturals up to a bound has a largest member
LEMMA LargestExists ==
    ASSUME NEW n \in Nat, NEW S, S \subseteq 0..n, S # {}
    PROVE  Max(S) \in S /\ \A y \in S : Max(S) >= y
  <1> DEFINE T == {n - x : x \in S}
  <1>1. T \subseteq Nat /\ T # {}
    <2>1. \A x \in S : x \in Int /\ n - x \in Nat
      OBVIOUS
    <2>2. PICK x : x \in S
      OBVIOUS
    <2>3. n - x \in T
      BY <2>2
    <2> QED BY <2>1, <2>3
  <1>2. PICK t \in T : \A y \in T : ~(<<y, t>> \in OpToRel(<, Nat))
    <2> HIDE DEF T
    <2> QED BY <1>1, NatLessThanWellFounded, WFMin, Zenon
  <1>3. \A y \in T : t <= y
    <2> SUFFICES ASSUME NEW y \in T PROVE t <= y
      OBVIOUS
    <2>1. ~(<<y, t>> \in OpToRel(<, Nat)) /\ y \in Nat /\ t \in Nat
      BY <1>1, <1>2, Zenon
    <2> HIDE DEF T
    <2> QED BY <2>1 DEF OpToRel
  <1>4. PICK x \in S : t = n - x
    BY <1>2, Zenon
  <1>5. \A y \in S : x >= y
    BY <1>3, <1>4
  <1> HIDE DEF T
  <1> QED BY <1>5, Zenon DEF Max

\* a non-empty set of rows has one with the lowest id
LEMMA LowestExists ==
    ASSUME NEW rows, rows # {}, \A r \in rows : r.id \in Nat
    PROVE  \E x \in rows : \A y \in rows : x.id <= y.id
  <1> DEFINE T == {r.id : r \in rows}
  <1>1. T \subseteq Nat /\ T # {} /\ \A r \in rows : r.id \in T
    OBVIOUS
  <1>2. PICK t \in T : \A y \in T : ~(<<y, t>> \in OpToRel(<, Nat))
    <2> HIDE DEF T
    <2> QED BY <1>1, NatLessThanWellFounded, WFMin, Zenon
  <1>3. PICK x \in rows : t = x.id
    BY <1>2, Zenon
  <1> HIDE DEF T
  <1>4. \A y \in T : t <= y
    <2> SUFFICES ASSUME NEW y \in T PROVE t <= y
      OBVIOUS
    <2>1. ~(<<y, t>> \in OpToRel(<, Nat)) /\ y \in Nat /\ t \in Nat
      BY <1>1, <1>2, Zenon
    <2> QED BY <2>1 DEF OpToRel
  <1> QED BY <1>1, <1>3, <1>4

\* the rowid of a new row is not in use
LEMMA FreshId ==
    ASSUME NEW n \in Nat, NEW rows, \A r \in rows : r.id \in Nat /\ r.id <= n
    PROVE  NextId(rows) \in Nat /\ NextId(rows) <= n + 1 /\ \A r \in rows : r.id < NextId(rows)
  <1>1. CASE rows = {}
    BY <1>1 DEF NextId
  <1>2. CASE rows # {}
    <2> DEFINE S == {r.id : r \in rows}
    <2>1. S \subseteq 0..n /\ S # {} /\ \A r \in rows : r.id \in S
      BY <1>2
    <2>2. NextId(rows) = 1 + Max(S)
      BY <1>2 DEF NextId
    <2> HIDE DEF S
    <2>3. Max(S) \in S /\ \A y \in S : Max(S) >= y
      BY <2>1, LargestExists, Zenon
    <2>4. Max(S) \in Nat /\ Max(S) <= n
      <3>1. Max(S) \in 0..n
        BY <2>1, <2>3, Zenon
      <3> QED BY <3>1
    <2>5. \A r \in rows : r.id \in Nat /\ r.id <= Max(S)
      BY <2>1, <2>3, <2>4
    <2> QED BY <2>2, <2>4, <2>5
  <1> QED BY <1>1, <1>2

\* updates that keep the keys of the rows keep the tables
LEMMA Updated ==
    ASSUME NEW ms, NEW ds, NEW n, Tables(ms, ds, n), NEW F,
           \A d \in ds : /\ F[d] \in Deliveries /\ F[d].id = d.id /\ F[d].message = d.message
                         /\ F[d].uid = d.uid /\ F[d].revision = d.revision
    PROVE  Tables(ms, {F[d] : d \in ds}, n)
  <1> DEFINE es == {F[d] : d \in ds}
  <1>1. \A e \in es : \E d \in ds : e = F[d]
    OBVIOUS
  <1>2. \A d \in ds : F[d] \in es
    OBVIOUS
  <1> HIDE DEF es
  <1>3. es \subseteq Deliveries /\ \A e \in es : e.id <= n
    BY <1>1 DEF Tables
  <1>4. \A d, e \in es : d.id = e.id => d = e
    BY <1>1 DEF Tables
  <1>5. \A e \in es : \E a \in ms : a.id = e.message /\ a.uid = e.uid /\ e.revision <= a.revision
    BY <1>1 DEF Tables
  <1>6. \A a \in ms : \E e \in es : e.message = a.id /\ e.revision = a.revision
    BY <1>2 DEF Tables
  <1>7. Tables(ms, es, n)
    BY <1>3, <1>4, <1>5, <1>6 DEF Tables
  <1> QED BY <1>7 DEF es

\* one row is replaced by one with the same keys
LEMMA ReplacedRow ==
    ASSUME NEW ms, NEW ds, NEW n, Tables(ms, ds, n), NEW d \in ds, NEW e \in Deliveries,
           e.id = d.id, e.message = d.message, e.uid = d.uid, e.revision = d.revision
    PROVE  Tables(ms, (ds \ {d}) \cup {e}, n)
  <1> DEFINE F == [x \in ds |-> IF x = d THEN e ELSE x]
  <1>1. (ds \ {d}) \cup {e} = {F[x] : x \in ds}
    OBVIOUS
  <1>2. \A x \in ds : /\ F[x] \in Deliveries /\ F[x].id = x.id /\ F[x].message = x.message
                      /\ F[x].uid = x.uid /\ F[x].revision = x.revision
    BY DEF Tables
  <1> HIDE DEF F
  <1> QED BY <1>1, <1>2, Updated

\* a row for a text the message did not have before
LEMMA Queued ==
    ASSUME NEW n \in Nat, NEW ms, NEW ds, NEW m \in Messages,
           \A d \in ds : d \in Deliveries /\ d.id <= n,
           \A d, e \in ds : d.id = e.id => d = e,
           \A d \in ds : ~(d.message = m.id /\ d.revision = m.revision),
           deliveries = ds, QueueDelivery(m)
    PROVE  \E q \in Deliveries :
              /\ deliveries' = ds \cup {q} /\ q.id <= n + 1 /\ \A d \in ds : d.id # q.id
              /\ q.message = m.id /\ q.uid = m.uid /\ q.revision = m.revision
              /\ q.state = "pending"
  <1> DEFINE q == [id |-> NextId(deliveries), message |-> m.id, uid |-> m.uid,
                   revision |-> m.revision, state |-> "pending", late |-> FALSE,
                   available |-> TRUE]
  <1>1. \A d \in ds : d.id \in Nat /\ d.id <= n
    BY DEF Deliveries
  <1>2. NextId(ds) \in Nat /\ NextId(ds) <= n + 1 /\ \A d \in ds : d.id < NextId(ds)
    BY <1>1, FreshId
  <1>3. deliveries' = ds \cup {q}
    BY DEF QueueDelivery
  <1>4. q \in Deliveries
    BY <1>2 DEF Deliveries, Messages
  <1>5. /\ q.id = NextId(ds) /\ q.message = m.id /\ q.uid = m.uid /\ q.revision = m.revision
        /\ q.state = "pending"
    OBVIOUS
  <1>6. \A d \in ds : d.id # q.id
    BY <1>1, <1>2, <1>5
  <1> HIDE DEF q
  <1> QED BY <1>2, <1>3, <1>4, <1>5, <1>6
-------------------------------------------------------------------------------
\* a message is stored: its ids are new, so nothing known of others applies to it
LEMMA PublishInv ==
    ASSUME Inv, Publish
    PROVE  Inv'
  <1> DEFINE m == [id |-> NextId(messages), uid |-> texts + 1, revision |-> 1]
  <1>0. texts \in Nat /\ texts' = texts + 1 /\ messages' = messages \cup {m} /\ QueueDelivery(m)
        /\ UNCHANGED <<pc, claim, todo, success, forwarded>>
    BY DEF Inv, Publish
  <1>1. \A a \in messages : a.id \in Nat /\ a.id <= texts /\ a.uid \in Nat /\ a.uid <= texts
    BY DEF Inv, Tables, Messages
  <1>2. m \in Messages /\ m.id = NextId(messages) /\ m.uid = texts + 1 /\ m.revision = 1
        /\ m.id <= texts + 1 /\ \A a \in messages : a.id < m.id
    BY <1>0, <1>1, FreshId DEF Messages
  <1> HIDE DEF m
  <1>3. \A a \in messages : a.id # m.id /\ a.uid # m.uid
    BY <1>0, <1>1, <1>2 DEF Messages
  <1>4. \A d \in deliveries : d.message # m.id
    BY <1>3 DEF Inv, Tables
  <1>5. PICK q \in Deliveries :
           /\ deliveries' = deliveries \cup {q} /\ q.id <= texts + 1
           /\ \A d \in deliveries : d.id # q.id
           /\ q.message = m.id /\ q.uid = m.uid /\ q.revision = m.revision
           /\ q.state = "pending"
    BY <1>0, <1>2, <1>4, Queued DEF Inv, Tables
  <1>6. Tables(messages', deliveries', texts')
    <2>1. \A d \in deliveries : d.id \in Nat /\ d.id <= texts
      BY DEF Inv, Tables, Deliveries
    <2>2. /\ messages' \subseteq Messages /\ deliveries' \subseteq Deliveries
          /\ \A a \in messages' : a.id <= texts' /\ a.uid <= texts'
          /\ \A d \in deliveries' : d.id <= texts'
      BY <1>0, <1>1, <1>2, <1>5, <2>1 DEF Inv, Tables
    <2>3. \A a, b \in messages' : a.id = b.id \/ a.uid = b.uid => a = b
      BY <1>0, <1>3 DEF Inv, Tables
    <2>4. \A d, e \in deliveries' : d.id = e.id => d = e
      BY <1>5 DEF Inv, Tables
    <2>5. m.revision <= m.revision
      BY <1>2
    <2>6. \A d \in deliveries' : \E a \in messages' :
             a.id = d.message /\ a.uid = d.uid /\ d.revision <= a.revision
      BY <1>0, <1>5, <2>5 DEF Inv, Tables
    <2>7. \A a \in messages' : \E d \in deliveries' : d.message = a.id /\ d.revision = a.revision
      BY <1>0, <1>5 DEF Inv, Tables
    <2> QED BY <2>2, <2>3, <2>4, <2>6, <2>7 DEF Tables
  <1>7. Past'
    <2>1. \A f \in forwarded : f[1] \in Nat /\ f[1] <= texts
      BY DEF Inv, Past
    <2>2. \A f \in forwarded : f[1] <= texts' /\ f[1] # m.uid
      BY <1>0, <1>2, <2>1
    <2> QED BY <1>0, <2>2 DEF Inv, Past
  <1>8. Working'
    <2>1. pc = "forwarding" => claim.uid <= texts' /\ claim.uid # m.uid
      BY <1>0, <1>2 DEF Inv, Working
    <2> QED BY <1>0, <1>5, <2>1 DEF Inv, Working
  <1>9. DoneMeansForwarded'
    BY <1>0, <1>5 DEF Inv, DoneMeansForwarded
  <1> QED BY <1>0, <1>6, <1>7, <1>8, <1>9 DEF Inv

\* a message gets a new text, for which no delivery was queued yet
LEMMA ReviseInv ==
    ASSUME Inv, Revise
    PROVE  Inv'
  <1>0. texts \in Nat /\ texts' = texts + 1
        /\ UNCHANGED <<pc, claim, todo, success, forwarded>>
    BY DEF Inv, Revise
  <1>a. PICK o \in messages :
           /\ messages' = (messages \ {o}) \cup {[o EXCEPT !.revision = @ + 1]}
           /\ QueueDelivery([o EXCEPT !.revision = @ + 1])
    BY DEF Revise
  <1> DEFINE m == [o EXCEPT !.revision = @ + 1]
  <1>1. \A a \in messages : /\ a.id \in Nat /\ a.id <= texts /\ a.uid \in Nat /\ a.uid <= texts
                            /\ a.revision \in Nat
    BY DEF Inv, Tables, Messages
  <1>2. m \in Messages /\ m.id = o.id /\ m.uid = o.uid /\ m.revision = o.revision + 1
    BY DEF Inv, Tables, Messages
  <1>b. messages' = (messages \ {o}) \cup {m} /\ QueueDelivery(m)
    BY <1>a
  <1> HIDE DEF m
  <1>3. \A a \in messages : a # o => a.id # m.id /\ a.uid # m.uid
    BY <1>2 DEF Inv, Tables
  <1>4. \A d \in deliveries : ~(d.message = m.id /\ d.revision = m.revision)
    <2> SUFFICES ASSUME NEW d \in deliveries, d.message = m.id PROVE d.revision # m.revision
      OBVIOUS
    <2>1. d.revision \in Nat /\ d.revision <= o.revision
      BY <1>2, <1>3 DEF Inv, Tables, Deliveries
    <2> QED BY <1>1, <1>2, <2>1
  <1>5. PICK q \in Deliveries :
           /\ deliveries' = deliveries \cup {q} /\ q.id <= texts + 1
           /\ \A d \in deliveries : d.id # q.id
           /\ q.message = m.id /\ q.uid = m.uid /\ q.revision = m.revision
           /\ q.state = "pending"
    BY <1>0, <1>b, <1>2, <1>4, Queued DEF Inv, Tables
  <1>6. Tables(messages', deliveries', texts')
    <2>1. \A d \in deliveries : d.id \in Nat /\ d.id <= texts /\ d.revision \in Nat
      BY DEF Inv, Tables, Deliveries
    <2>2. /\ messages' \subseteq Messages /\ deliveries' \subseteq Deliveries
          /\ \A a \in messages' : a.id <= texts' /\ a.uid <= texts'
          /\ \A d \in deliveries' : d.id <= texts'
      BY <1>0, <1>1, <1>2, <1>b, <1>5, <2>1 DEF Inv, Tables
    <2>3. \A a, b \in messages' : a.id = b.id \/ a.uid = b.uid => a = b
      BY <1>b, <1>3 DEF Inv, Tables
    <2>4. \A d, e \in deliveries' : d.id = e.id => d = e
      BY <1>5 DEF Inv, Tables
    <2>5. m.revision <= m.revision /\ o.revision \in Nat
      BY <1>1, <1>2
    <2>6. ASSUME NEW d \in deliveries
          PROVE  \E a \in messages' : a.id = d.message /\ a.uid = d.uid /\ d.revision <= a.revision
      <3>1. PICK a \in messages : a.id = d.message /\ a.uid = d.uid /\ d.revision <= a.revision
        BY DEF Inv, Tables
      <3>2. CASE a = o
        BY <1>b, <1>2, <2>1, <2>5, <3>1, <3>2
      <3>3. CASE a # o
        BY <1>b, <3>1, <3>3
      <3> QED BY <3>2, <3>3
    <2>7. \A d \in deliveries' : \E a \in messages' :
             a.id = d.message /\ a.uid = d.uid /\ d.revision <= a.revision
      BY <1>b, <1>5, <2>5, <2>6
    <2>8. \A a \in messages' : \E d \in deliveries' : d.message = a.id /\ d.revision = a.revision
      BY <1>b, <1>5 DEF Inv, Tables
    <2> QED BY <2>2, <2>3, <2>4, <2>7, <2>8 DEF Tables
  <1>7. Past'
    <2>1. \A f \in forwarded : f[1] \in Nat /\ f[2] \in Nat /\ f[1] <= texts'
      BY <1>0 DEF Inv, Past
    <2>2. \A f \in forwarded : f[1] = m.uid => f[2] <= m.revision
      BY <1>1, <1>2, <2>1 DEF Inv, Past
    <2> QED BY <1>0, <1>b, <2>1, <2>2 DEF Inv, Past
  <1>8. Working'
    <2>1. pc = "forwarding" => claim.uid <= texts' /\ (claim.uid = m.uid => claim.revision <= m.revision)
      BY <1>0, <1>1, <1>2 DEF Inv, Working
    <2> QED BY <1>0, <1>b, <1>5, <2>1, Zenon DEF Inv, Working
  <1>9. DoneMeansForwarded'
    BY <1>0, <1>5 DEF Inv, DoneMeansForwarded
  <1> QED BY <1>0, <1>6, <1>7, <1>8, <1>9 DEF Inv

\* a message goes with its deliveries; those of others stay
LEMMA DeleteInv ==
    ASSUME Inv, Delete
    PROVE  Inv'
  <1>0. UNCHANGED <<pc, claim, todo, success, texts, forwarded>>
    BY DEF Delete
  <1>1. PICK m \in messages : /\ messages' = messages \ {m}
                              /\ deliveries' = {d \in deliveries : d.message # m.id}
    BY DEF Delete
  <1>2. Tables(messages', deliveries', texts')
    <2>1. \A d \in deliveries' : \E a \in messages' :
             a.id = d.message /\ a.uid = d.uid /\ d.revision <= a.revision
      BY <1>1 DEF Inv, Tables
    <2>2. \A a \in messages' : \E d \in deliveries' : d.message = a.id /\ d.revision = a.revision
      BY <1>1 DEF Inv, Tables
    <2> QED BY <1>0, <1>1, <2>1, <2>2 DEF Inv, Tables
  <1>3. Past' /\ Working' /\ DoneMeansForwarded'
    BY <1>0, <1>1 DEF Inv, Past, Working, DoneMeansForwarded
  <1> QED BY <1>0, <1>2, <1>3 DEF Inv

\* a claim expires or a backoff passes: only the flags of one row change
LEMMA TimeInv ==
    ASSUME Inv, ClaimExpires \/ BackoffPasses
    PROVE  Inv'
  <1>0. UNCHANGED <<messages, pc, claim, todo, success, texts, forwarded>>
    BY DEF ClaimExpires, BackoffPasses
  <1>1. PICK d \in deliveries, e \in Deliveries :
           /\ deliveries' = (deliveries \ {d}) \cup {e} /\ e.state = d.state
           /\ e.id = d.id /\ e.message = d.message /\ e.uid = d.uid /\ e.revision = d.revision
    <2>0. \A d \in deliveries : d \in Deliveries
      BY DEF Inv, Tables
    <2>1. CASE ClaimExpires
      <3>1. PICK d \in deliveries : deliveries' = (deliveries \ {d}) \cup {[d EXCEPT !.late = TRUE]}
        BY <2>1 DEF ClaimExpires
      <3> DEFINE e == [d EXCEPT !.late = TRUE]
      <3>2. /\ e \in Deliveries /\ e.state = d.state /\ e.id = d.id /\ e.message = d.message
            /\ e.uid = d.uid /\ e.revision = d.revision
        BY <2>0, Zenon DEF Deliveries
      <3> QED BY <3>1, <3>2, Zenon
    <2>2. CASE BackoffPasses
      <3>1. PICK d \in deliveries : deliveries' = (deliveries \ {d}) \cup {[d EXCEPT !.available = TRUE]}
        BY <2>2 DEF BackoffPasses
      <3> DEFINE e == [d EXCEPT !.available = TRUE]
      <3>2. /\ e \in Deliveries /\ e.state = d.state /\ e.id = d.id /\ e.message = d.message
            /\ e.uid = d.uid /\ e.revision = d.revision
        BY <2>0, Zenon DEF Deliveries
      <3> QED BY <3>1, <3>2, Zenon
    <2> QED BY <2>1, <2>2
  <1>2. Tables(messages', deliveries', texts')
    BY <1>0, <1>1, ReplacedRow DEF Inv
  <1>3. Past' /\ Working' /\ DoneMeansForwarded'
    BY <1>0, <1>1 DEF Inv, Past, Working, DoneMeansForwarded
  <1> QED BY <1>0, <1>2, <1>3 DEF Inv

\* expired claims go back to the queue: keys stay and nothing becomes done or claimed
LEMMA ReclaimedTables ==
    ASSUME Inv
    PROVE  /\ Tables(messages, Reclaimed, texts)
           /\ \A e \in Reclaimed : e.state # "pending" => e \in deliveries
  <1> DEFINE F == [d \in deliveries |->
                     IF d.state = "claimed" /\ d.late
                     THEN [d EXCEPT !.state = "pending", !.late = FALSE, !.available = TRUE] ELSE d]
  <1>1. Reclaimed = {F[d] : d \in deliveries}
    BY DEF Reclaimed
  <1>2. \A d \in deliveries : d \in Deliveries
    BY DEF Inv, Tables
  <1>3. \A d \in deliveries :
           /\ F[d] \in Deliveries /\ F[d].id = d.id /\ F[d].message = d.message
           /\ F[d].uid = d.uid /\ F[d].revision = d.revision
           /\ F[d].state # "pending" => F[d] = d
    <2> SUFFICES ASSUME NEW d \in deliveries
                 PROVE  /\ F[d] \in Deliveries /\ F[d].id = d.id /\ F[d].message = d.message
                        /\ F[d].uid = d.uid /\ F[d].revision = d.revision
                        /\ F[d].state # "pending" => F[d] = d
      OBVIOUS
    <2>1. d \in Deliveries
      BY <1>2
    <2>2. CASE d.state = "claimed" /\ d.late
      <3>1. F[d] = [d EXCEPT !.state = "pending", !.late = FALSE, !.available = TRUE]
        BY <2>2
      <3> HIDE DEF F
      <3> QED BY <2>1, <3>1, Zenon DEF Deliveries
    <2>3. CASE ~(d.state = "claimed" /\ d.late)
      <3>1. F[d] = d
        BY <2>3
      <3> HIDE DEF F
      <3> QED BY <2>1, <3>1
    <2> QED BY <2>2, <2>3
  <1> HIDE DEF F
  <1>4. Tables(messages, {F[d] : d \in deliveries}, texts)
    BY <1>3, Updated DEF Inv
  <1> QED BY <1>1, <1>3, <1>4

\* a claim: what the forwarder is told is the message's text, at least as new as the one queued
LEMMA ClaimInv ==
    ASSUME Inv, ClaimDelivery
    PROVE  Inv'
  <1> DEFINE due == {x \in Reclaimed : x.state = "pending" /\ x.available}
             d == CHOOSE x \in due : \A y \in due : x.id <= y.id
             m == CHOOSE x \in messages : x.id = d.message
             e == [d EXCEPT !.state = "claimed"]
  <1>0. /\ due # {} /\ pc = "idle" /\ deliveries' = (Reclaimed \ {d}) \cup {e}
        /\ UNCHANGED <<messages, texts, forwarded>>
        /\ \/ /\ pc' = "forwarding" /\ claim' = Answer(d, m) /\ todo' = Targets /\ success' = TRUE
           \/ UNCHANGED <<pc, claim, todo, success>>
    BY DEF ClaimDelivery
  <1>1. Tables(messages, Reclaimed, texts) /\ \A x \in Reclaimed : x.state # "pending" => x \in deliveries
    BY ReclaimedTables
  <1>2. d \in due
    <2>1. \A x \in due : x.id \in Nat
      BY <1>1 DEF Tables, Deliveries
    <2>2. \E x \in due : \A y \in due : x.id <= y.id
      <3> HIDE DEF due
      <3> QED BY <1>0, <2>1, LowestExists
    <2> QED BY <2>2
  <1>3. d \in Reclaimed /\ d \in Deliveries
    BY <1>1, <1>2 DEF Tables
  <1> HIDE DEF due, d
  <1>4. /\ e \in Deliveries /\ e.state = "claimed" /\ e.id = d.id /\ e.message = d.message
        /\ e.uid = d.uid /\ e.revision = d.revision
    BY <1>3 DEF Deliveries
  <1> HIDE DEF e
  <1>5. Tables(messages', deliveries', texts')
    BY <1>0, <1>1, <1>3, <1>4, ReplacedRow, Zenon
  <1>6. Past'
    BY <1>0 DEF Inv, Past
  <1>7. DoneMeansForwarded'
    BY <1>0, <1>1, <1>4 DEF Inv, DoneMeansForwarded
  <1>8. CASE pc' = "forwarding" /\ claim' = Answer(d, m) /\ todo' = Targets /\ success' = TRUE
    <2>1. m \in messages /\ m.id = d.message /\ m.uid = d.uid /\ d.revision <= m.revision
      <3>1. PICK a \in messages : a.id = d.message /\ a.uid = d.uid /\ d.revision <= a.revision
        BY <1>1, <1>3 DEF Tables
      <3>2. m \in messages /\ m.id = d.message
        BY <3>1
      <3>3. m = a
        <4> HIDE DEF m
        <4> QED BY <1>1, <3>1, <3>2 DEF Tables
      <3> QED BY <3>1, <3>3, Zenon
    <2> HIDE DEF m
    <2>2. claim'.delivery = d.id /\ claim'.uid = m.uid /\ claim'.revision = m.revision
      BY <1>8 DEF Answer
    <2>3. m.uid \in Nat /\ m.revision \in Nat /\ m.uid <= texts /\ m.revision <= m.revision
      BY <2>1 DEF Inv, Tables, Messages
    <2>4. \A a \in messages : a.uid = m.uid => a = m
      BY <2>1 DEF Inv, Tables
    <2>5. \A x \in deliveries' : x.id = d.id => x = e
      BY <1>0, <1>1, <1>3, Zenon DEF Tables
    <2>6. Working'
      BY <1>0, <1>4, <1>8, <2>1, <2>2, <2>3, <2>4, <2>5, Zenon DEF Working
    <2> QED BY <1>0, <1>5, <1>6, <1>7, <1>8, <2>6 DEF Inv
  <1>9. CASE UNCHANGED <<pc, claim, todo, success>>
    BY <1>0, <1>5, <1>6, <1>7, <1>9, Zenon DEF Inv, Working
  <1> QED BY <1>0, <1>8, <1>9, Zenon

\* a target takes the text, or fails and spoils the success
LEMMA ForwardInv ==
    ASSUME Inv, NEW t \in Targets, Forward(t)
    PROVE  Inv'
  <1>0. /\ pc = "forwarding" /\ t \in todo /\ todo' = todo \ {t}
        /\ UNCHANGED <<messages, deliveries, pc, claim, texts>>
    BY DEF Forward, dbVars
  <1>1. CASE /\ forwarded' = forwarded \cup {<<claim.uid, claim.revision, t>>}
             /\ success' = success
    <2> DEFINE f == <<claim.uid, claim.revision, t>>
    <2>1. f \in Nat \X Nat \X Targets /\ f[1] = claim.uid /\ f[2] = claim.revision
      BY <1>0, Zenon DEF Inv, Working
    <2>2. forwarded' = forwarded \cup {f}
      BY <1>1
    <2> HIDE DEF f
    <2>3. Past'
      BY <1>0, <2>1, <2>2, Zenon DEF Inv, Past, Working
    <2>4. Working'
      <3>1. success = TRUE => \A u \in Targets \ todo' : <<claim.uid, claim.revision, u>> \in forwarded'
        BY <1>0, <2>2, Zenon DEF Inv, Working, f
      <3> QED BY <1>0, <1>1, <3>1, Zenon DEF Inv, Working
    <2>5. DoneMeansForwarded'
      BY <1>0, <2>2 DEF Inv, DoneMeansForwarded
    <2> QED BY <1>0, <1>1, <2>3, <2>4, <2>5 DEF Inv
  <1>2. CASE success' = FALSE /\ forwarded' = forwarded
    <2>1. Past' /\ DoneMeansForwarded'
      BY <1>0, <1>2 DEF Inv, Past, DoneMeansForwarded
    <2>2. Working'
      BY <1>0, <1>2, Zenon DEF Inv, Working
    <2> QED BY <1>0, <1>2, <2>1, <2>2, Zenon DEF Inv
  <1> QED BY <1>1, <1>2, Zenon DEF Forward

\* the delivery that is marked done is the one that was claimed
LEMMA CompleteInv ==
    ASSUME Inv, CompleteDelivery
    PROVE  Inv'
  <1>0. /\ pc = "forwarding" /\ todo = {} /\ pc' = "idle" /\ success' = FALSE
        /\ UNCHANGED <<messages, texts, forwarded>>
    BY DEF CompleteDelivery
  <1>1. Past' /\ Working'
    BY <1>0, Zenon DEF Inv, Past, Working
  <1>2. CASE deliveries' = Completed(claim.delivery, success)
    <2> DEFINE F == [d \in deliveries |->
                       IF d.id = claim.delivery /\ d.state = "claimed"
                       THEN IF success THEN [d EXCEPT !.state = "done", !.late = FALSE]
                            ELSE [d EXCEPT !.state = "pending", !.late = FALSE, !.available = FALSE]
                       ELSE d]
    <2>1. deliveries' = {F[d] : d \in deliveries}
      BY <1>2, Zenon DEF Completed
    <2>2. \A d \in deliveries : d \in Deliveries
      BY DEF Inv, Tables
    <2>3. success = TRUE \/ success = FALSE
      BY DEF Inv
    <2>4. \A d \in deliveries :
             /\ F[d] \in Deliveries /\ F[d].id = d.id /\ F[d].message = d.message
             /\ F[d].uid = d.uid /\ F[d].revision = d.revision
             /\ F[d].state = "done" => \/ d.state = "done"
                                       \/ /\ d.id = claim.delivery /\ d.state = "claimed"
                                          /\ success = TRUE
      <3> SUFFICES ASSUME NEW d \in deliveries
                   PROVE  /\ F[d] \in Deliveries /\ F[d].id = d.id /\ F[d].message = d.message
                          /\ F[d].uid = d.uid /\ F[d].revision = d.revision
                          /\ F[d].state = "done" => \/ d.state = "done"
                                                    \/ /\ d.id = claim.delivery /\ d.state = "claimed"
                                                       /\ success = TRUE
        BY Zenon
      <3>1. d \in Deliveries
        BY <2>2
      <3>2. CASE ~(d.id = claim.delivery /\ d.state = "claimed")
        <4>1. F[d] = d
          BY <3>2
        <4> QED BY <3>1, <4>1
      <3>3. CASE d.id = claim.delivery /\ d.state = "claimed" /\ success = TRUE
        <4>1. F[d] = [d EXCEPT !.state = "done", !.late = FALSE]
          BY <3>3
        <4> HIDE DEF F
        <4> QED BY <3>1, <3>3, <4>1, Zenon DEF Deliveries
      <3>4. CASE d.id = claim.delivery /\ d.state = "claimed" /\ success = FALSE
        <4>1. F[d] = [d EXCEPT !.state = "pending", !.late = FALSE, !.available = FALSE]
          BY <3>4
        <4> HIDE DEF F
        <4> QED BY <3>1, <4>1, Zenon DEF Deliveries
      <3> QED BY <2>3, <3>2, <3>3, <3>4, Zenon
    <2> HIDE DEF F
    <2>5. Tables(messages', deliveries', texts')
      BY <1>0, <2>1, <2>4, Updated DEF Inv
    <2>6. ASSUME NEW d \in deliveries, F[d].state = "done", NEW t \in Targets
          PROVE  \E f \in forwarded : f[1] = d.uid /\ f[2] >= d.revision /\ f[3] = t
      <3>1. CASE d.state = "done"
        BY <3>1 DEF Inv, DoneMeansForwarded
      <3>2. CASE d.id = claim.delivery /\ d.state = "claimed" /\ success = TRUE
        <4>1. <<claim.uid, claim.revision, t>> \in forwarded
          BY <1>0, <3>2, Zenon DEF Inv, Working
        <4>2. d.uid = claim.uid /\ claim.revision >= d.revision
          <5>1. d.uid = claim.uid /\ d.revision <= claim.revision /\ claim.revision \in Nat
            BY <1>0, <3>2, Zenon DEF Inv, Working
          <5>2. d.revision \in Nat
            BY <2>2 DEF Deliveries
          <5> QED BY <5>1, <5>2
        <4> QED BY <4>1, <4>2
      <3> QED BY <2>4, <2>6, <3>1, <3>2, Zenon
    <2>7. DoneMeansForwarded'
      BY <1>0, <2>1, <2>4, <2>6 DEF DoneMeansForwarded
    <2> QED BY <1>0, <1>1, <2>5, <2>7, Zenon DEF Inv
  <1>3. CASE deliveries' = deliveries
    BY <1>0, <1>1, <1>3, Zenon DEF Inv, DoneMeansForwarded
  <1> QED BY <1>2, <1>3 DEF CompleteDelivery
-------------------------------------------------------------------------------
\* the database starts empty and the forwarder idle
LEMMA InitInv == Init => Inv
  <1> SUFFICES ASSUME Init PROVE Inv
    OBVIOUS
  <1>1. Tables({}, {}, 0)
    BY DEF Tables
  <1> QED BY <1>1, Zenon DEF Init, Inv, Past, Working, DoneMeansForwarded

\* the invariant is inductive
LEMMA NextInv == Inv /\ [Next]_vars => Inv'
  <1> SUFFICES ASSUME Inv, [Next]_vars PROVE Inv'
    OBVIOUS
  <1>1. CASE NoInstance
    <2>1. success' = FALSE /\ UNCHANGED <<messages, deliveries, pc, claim, texts, forwarded>>
      BY <1>1 DEF NoInstance, dbVars
    <2>2. Past' /\ Working' /\ DoneMeansForwarded'
      BY <2>1, Zenon DEF Inv, Past, Working, DoneMeansForwarded
    <2> QED BY <2>1, <2>2, Zenon DEF Inv
  <1>2. CASE Crash
    <2>1. pc' = "idle" /\ success' = FALSE /\ UNCHANGED <<messages, deliveries, texts, forwarded>>
      BY <1>2 DEF Crash, dbVars
    <2>2. Past' /\ Working' /\ DoneMeansForwarded'
      BY <2>1, Zenon DEF Inv, Past, Working, DoneMeansForwarded
    <2> QED BY <2>1, <2>2, Zenon DEF Inv
  <1>3. CASE UNCHANGED vars
    BY <1>3, Zenon DEF vars, Inv, Past, Working, DoneMeansForwarded
  <1>4. CASE Forwarder
    BY <1>4, ClaimInv, ForwardInv, CompleteInv DEF Forwarder
  <1> QED BY <1>1, <1>2, <1>3, <1>4, PublishInv, ReviseInv, DeleteInv, TimeInv DEF Next

\* A delivery is marked done only after every target took its text or a later one of the
\* same message, for any number of messages, targets and faults: neither a claim that
\* expired, a crash nor a reused rowid makes delivery_complete mark another one.
THEOREM DoneIsForwarded == Spec => []DoneMeansForwarded
  <1>1. Inv => DoneMeansForwarded
    BY DEF Inv
  <1> QED BY <1>1, InitInv, NextInv, PTL DEF Spec

\* When all deliveries of a message are done, the text it has now went to every target:
\* a revision that comes while an older text is on its way has a delivery of its own.
THEOREM NewestIsForwarded == Spec => []NewestForwarded
  <1>1. Inv => NewestForwarded
    <2> SUFFICES ASSUME Inv, NEW m \in messages,
                        \A d \in deliveries : d.message = m.id => d.state = "done",
                        NEW t \in Targets
                 PROVE  <<m.uid, m.revision, t>> \in forwarded
      BY DEF NewestForwarded
    <2>1. PICK d \in deliveries : d.message = m.id /\ d.revision = m.revision
      BY DEF Inv, Tables
    <2>2. d.uid = m.uid
      BY <2>1 DEF Inv, Tables
    <2>3. PICK f \in forwarded : f[1] = m.uid /\ f[2] >= m.revision /\ f[3] = t
      BY <2>1, <2>2 DEF Inv, DoneMeansForwarded
    <2>4. f \in Nat \X Nat \X Targets /\ f[2] <= m.revision /\ m.revision \in Nat
      BY <2>3, Zenon DEF Inv, Past, Tables, Messages
    <2>5. f[2] = m.revision
      BY <2>3, <2>4
    <2>6. f = <<f[1], f[2], f[3]>>
      BY <2>4
    <2> QED BY <2>3, <2>5, <2>6
  <1> QED BY <1>1, InitInv, NextInv, PTL DEF Spec
-------------------------------------------------------------------------------
(* send_managed: no part twice, and what a success means *)

Calls == [serial : Nat, request : Requests, payload : Payloads]
Rows == [request : Requests, payload : Payloads, state : {"sending", "success", "error"}]
RowFor(c) == [request |-> c.request, payload |-> c.payload, state |-> "sending"]

\* the modem took part k of a request
Taken(r, p, k) == \E x \in accepted : x[1] = r /\ x[2] = p /\ x[3] = k
Whole(r, p) == \A k \in 1..Parts[p] : Taken(r, p, k)

SendTyped ==
    /\ calls \in Nat /\ queue \in Seq(Calls)
    /\ stage \in {"idle", "sending", "failed", "sent", "not sent"}
    /\ managed \subseteq Rows
    /\ \A a \in accepted : a[3] \in Nat
    /\ stage # "idle" => call \in Calls /\ part \in 0..Parts[call.payload]

\* managed_sends has one row per request id, made before the first part goes out and
\* never removed, so that a part belongs to a known request; the request being served has
\* its row in state "sending" and no part beyond those counted; success is recorded
\* and answered only for what the modem took whole
Books ==
    /\ \A a, b \in managed : a.request = b.request => a = b
    /\ \A a \in accepted : \E row \in managed : row.request = a[1]
    /\ stage # "idle" => /\ RowFor(call) \in managed
                         /\ \A k \in 1..part : Taken(call.request, call.payload, k)
    /\ stage = "sending" => \A a \in accepted : a[1] = call.request => a[3] <= part
    /\ stage = "sent" => part = Parts[call.payload]
    /\ \A row \in managed : row.state = "success" => Whole(row.request, row.payload)

SendInv == SendTyped /\ Books /\ AtMostOnce /\ OkMeansSent
-------------------------------------------------------------------------------
\* an answer "success" is for a message the modem took whole
LEMMA ReplyOk ==
    ASSUME OkMeansSent, NEW c, NEW result, Reply(c, result), accepted' = accepted,
           result = "success" => Whole(c.request, c.payload)
    PROVE  OkMeansSent'
  <1> DEFINE new == [request |-> c.request, payload |-> c.payload, result |-> result]
  <1>1. \A a \in answers' : a \in answers \/ a = new
    BY Zenon DEF Reply
  <1>2. ASSUME NEW a \in answers', a.result = "success" PROVE Whole(a.request, a.payload)
    <2>1. CASE a \in answers
      BY <1>2, <2>1 DEF OkMeansSent, Whole, Taken
    <2>2. CASE a = new
      BY <1>2, <2>2
    <2> QED BY <1>1, <2>1, <2>2
  <1> QED BY <1>2 DEF OkMeansSent, Whole, Taken

\* steps that leave the tables, the call being served and the modem alone
LEMMA SameBooks ==
    ASSUME SendInv, UNCHANGED <<smsd, accepted>>, OkMeansSent',
           calls' \in Nat, queue' \in Seq(Calls)
    PROVE  SendInv'
  <1> USE DEF smsd
  <1>1. SendTyped'
    BY Zenon DEF SendInv, SendTyped
  <1>2. Books'
    BY Zenon DEF SendInv, Books, Whole, Taken
  <1>3. AtMostOnce'
    BY DEF SendInv, AtMostOnce
  <1> QED BY <1>1, <1>2, <1>3 DEF SendInv

\* the request's row gets its final state and the answer goes out
LEMMA FinishInv ==
    ASSUME SendInv, stage # "idle", NEW state \in {"success", "error"}, Finish(state),
           UNCHANGED <<queue, calls, accepted>>,
           state = "success" => Whole(call.request, call.payload)
    PROVE  SendInv'
  <1>0. stage' = "idle" /\ managed' = SetState(call.request, state) /\ Reply(call, state)
    BY DEF Finish, Return
  <1>1. \A a \in managed' : \E row \in managed :
           /\ a = row \/ (row.request = call.request /\ a = [row EXCEPT !.state = state])
           /\ row.request = call.request => a = [row EXCEPT !.state = state]
    BY <1>0 DEF SetState
  <1>2. \A row \in managed : \E a \in managed' : a.request = row.request
    <2> TAKE row \in managed
    <2>1. CASE row.request = call.request
      <3>1. [row EXCEPT !.state = state] \in managed'
        BY <1>0, <2>1, Zenon DEF SetState
      <3>2. [row EXCEPT !.state = state].request = row.request
        BY Zenon DEF SendInv, SendTyped, Rows
      <3> QED BY <3>1, <3>2, Zenon
    <2>2. CASE row.request # call.request
      BY <1>0, <2>2 DEF SetState
    <2> QED BY <2>1, <2>2, Zenon
  <1>3. SendTyped'
    BY <1>0, <1>1, Zenon DEF SendInv, SendTyped, Rows
  <1>4. \A a, b \in managed' : a.request = b.request => a = b
    <2> SUFFICES ASSUME NEW a \in managed', NEW b \in managed', a.request = b.request
                 PROVE  a = b
      OBVIOUS
    <2>1. PICK v \in managed :
             /\ a = v \/ (v.request = call.request /\ a = [v EXCEPT !.state = state])
             /\ v.request = call.request => a = [v EXCEPT !.state = state]
      BY <1>1
    <2>2. PICK w \in managed :
             /\ b = w \/ (w.request = call.request /\ b = [w EXCEPT !.state = state])
             /\ w.request = call.request => b = [w EXCEPT !.state = state]
      BY <1>1
    <2>3. v \in Rows /\ w \in Rows
      BY Zenon DEF SendInv, SendTyped
    <2>4. a.request = v.request /\ b.request = w.request
      BY <2>1, <2>2, <2>3 DEF Rows
    <2>5. v = w
      BY <2>4, Zenon DEF SendInv, Books
    <2> QED BY <2>1, <2>2, <2>5
  <1>5. \A a \in accepted' : \E row \in managed' : row.request = a[1]
    BY <1>2, Zenon DEF SendInv, Books
  <1>6. ASSUME NEW a \in managed', a.state = "success" PROVE Whole(a.request, a.payload)
    <2>1. PICK row \in managed :
             \/ a = row
             \/ row.request = call.request /\ a = [row EXCEPT !.state = state]
      BY <1>1
    <2>2. CASE a = row
      BY <1>6, <2>2, Zenon DEF SendInv, Books
    <2>3. CASE row.request = call.request /\ a = [row EXCEPT !.state = state]
      <3>1. RowFor(call) \in managed /\ RowFor(call).request = call.request
        BY Zenon DEF SendInv, Books, RowFor
      <3>2. row = RowFor(call)
        BY <2>3, <3>1 DEF SendInv, Books
      <3>3. a.request = call.request /\ a.payload = call.payload /\ a.state = state
        BY <2>3, <3>2 DEF RowFor
      <3> QED BY <1>6, <3>3
    <2> QED BY <2>1, <2>2, <2>3
  <1>7. Books'
    BY <1>0, <1>4, <1>5, <1>6 DEF Books, Whole, Taken
  <1>8. AtMostOnce' /\ OkMeansSent'
    BY <1>0, ReplyOk DEF SendInv, AtMostOnce
  <1> QED BY <1>3, <1>7, <1>8 DEF SendInv

\* the error goes out and the row of the request stays as it was
LEMMA ReturnInv ==
    ASSUME SendInv, Return("error"), UNCHANGED <<managed, queue, calls, accepted>>
    PROVE  SendInv'
  <1>0. stage' = "idle" /\ Reply(call, "error")
    BY DEF Return
  <1>1. SendTyped'
    BY <1>0, Zenon DEF SendInv, SendTyped
  <1>2. Books'
    BY <1>0, Zenon DEF SendInv, Books, Whole, Taken
  <1>3. AtMostOnce' /\ OkMeansSent'
    BY <1>0, ReplyOk DEF SendInv, AtMostOnce
  <1> QED BY <1>1, <1>2, <1>3 DEF SendInv

\* the modem takes the next part: a part of this number was not taken before
LEMMA AcceptInv ==
    ASSUME SendInv, stage = "sending", part < Parts[call.payload], Accept
    PROVE  /\ AtMostOnce'
           /\ \A a \in accepted' : a[3] \in Nat
           /\ \A a \in accepted' : \E row \in managed : row.request = a[1]
           /\ \A a \in accepted' : a[1] = call.request => a[3] <= part + 1
           /\ accepted \subseteq accepted'
           /\ \E x \in accepted' : x[1] = call.request /\ x[2] = call.payload /\ x[3] = part + 1
  <1> DEFINE x == <<call.request, call.payload, part + 1, Cardinality(accepted) + 1>>
  <1>1. accepted' = accepted \cup {x}
    BY DEF Accept
  <1>2. x[1] = call.request /\ x[2] = call.payload /\ x[3] = part + 1
    OBVIOUS
  <1>3. call \in Calls /\ part \in Nat /\ RowFor(call) \in managed
        /\ RowFor(call).request = call.request
    BY PartsAssumption DEF SendInv, SendTyped, Books, Calls, RowFor
  <1>4. \A a \in accepted : a[3] \in Nat /\ (a[1] = call.request => a[3] <= part)
    BY Zenon DEF SendInv, SendTyped, Books
  <1> HIDE DEF x
  <1>5. AtMostOnce'
    <2> SUFFICES ASSUME NEW a \in accepted', NEW b \in accepted', a[1] = b[1], a[3] = b[3]
                 PROVE  a = b
      BY DEF AtMostOnce
    <2>1. CASE a \in accepted /\ b \in accepted
      BY <2>1 DEF SendInv, AtMostOnce
    <2>2. CASE a = x /\ b \in accepted
      BY <1>2, <1>3, <1>4, <2>2
    <2>3. CASE b = x /\ a \in accepted
      BY <1>2, <1>3, <1>4, <2>3
    <2> QED BY <1>1, <2>1, <2>2, <2>3
  <1>6. \A a \in accepted' : a[3] \in Nat /\ (a[1] = call.request => a[3] <= part + 1)
    BY <1>1, <1>2, <1>3, <1>4
  <1>7. \A a \in accepted' : \E row \in managed : row.request = a[1]
    BY <1>1, <1>2, <1>3, Zenon DEF SendInv, Books
  <1> QED BY <1>1, <1>2, <1>5, <1>6, <1>7

\* more parts taken: what was whole stays whole
LEMMA Grows ==
    ASSUME accepted \subseteq accepted'
    PROVE  \A r, p, k : Taken(r, p, k) => Taken(r, p, k)'
  BY DEF Taken

\* SendPart and SendPartFails, after which no further part follows
LEMMA PartInv ==
    ASSUME SendInv, SendPart \/ SendPartFails
    PROVE  SendInv'
  <1>0. /\ stage = "sending" /\ part < Parts[call.payload]
        /\ UNCHANGED <<managed, sent, call, queue, waiting, calls, answers>>
    BY Zenon DEF SendPart, SendPartFails
  <1>1. call \in Calls /\ part \in 0..Parts[call.payload] /\ Parts[call.payload] \in Nat
    BY <1>0, PartsAssumption DEF SendInv, SendTyped, Calls
  <1>2. CASE Accept
    <2>0. /\ AtMostOnce'
          /\ \A a \in accepted' : a[3] \in Nat
          /\ \A a \in accepted' : \E row \in managed : row.request = a[1]
          /\ \A a \in accepted' : a[1] = call.request => a[3] <= part + 1
          /\ accepted \subseteq accepted'
          /\ \E x \in accepted' : x[1] = call.request /\ x[2] = call.payload /\ x[3] = part + 1
      BY <1>0, <1>2, AcceptInv, Zenon
    <2>1. \A r, p, k : Taken(r, p, k) => Taken(r, p, k)'
      BY <2>0, Grows
    <2>2. OkMeansSent'
      BY <1>0, <2>1 DEF SendInv, OkMeansSent, Taken
    <2>3. \A row \in managed' : row.state = "success" => Whole(row.request, row.payload)'
      BY <1>0, <2>1, Zenon DEF SendInv, Books, Whole
    <2>4. \A k \in 1..part : Taken(call.request, call.payload, k)'
      BY <1>0, <2>1, Zenon DEF SendInv, Books
    <2>5. CASE SendPart
      <3>1. part' = part + 1 /\ stage' = "sending"
        BY <1>0, <2>5, Zenon DEF SendPart
      <3>2. Taken(call.request, call.payload, part)'
        BY <1>0, <2>0, <1>1, <3>1, Zenon DEF Taken
      <3>3. \A k \in 1..part' : Taken(call.request, call.payload, k)'
        BY <1>1, <2>4, <3>1, <3>2
      <3>4. SendTyped'
        BY <1>0, <1>1, <2>0, <3>1 DEF SendInv, SendTyped
      <3>5. Books'
        BY <1>0, <2>0, <2>3, <3>1, <3>3, Zenon DEF SendInv, Books
      <3> QED BY <2>0, <2>2, <3>4, <3>5 DEF SendInv
    <2>6. CASE SendPartFails
      <3>1. part' = part /\ stage' = "failed"
        BY <2>6 DEF SendPartFails
      <3>4. SendTyped'
        BY <1>0, <1>1, <2>0, <3>1, Zenon DEF SendInv, SendTyped
      <3>5. Books'
        BY <1>0, <2>0, <2>3, <2>4, <3>1, Zenon DEF SendInv, Books
      <3> QED BY <2>0, <2>2, <3>4, <3>5 DEF SendInv
    <2> QED BY <2>5, <2>6
  <1>3. CASE SendPartFails /\ UNCHANGED accepted
    <2>1. part' = part /\ stage' = "failed" /\ accepted' = accepted
      BY <1>3 DEF SendPartFails
    <2>2. SendTyped' /\ AtMostOnce' /\ OkMeansSent'
      BY <1>0, <1>1, <2>1, Zenon DEF SendInv, SendTyped, AtMostOnce, OkMeansSent
    <2>3. Books'
      BY <1>0, <2>1 DEF SendInv, Books, Whole, Taken
    <2> QED BY <2>2, <2>3 DEF SendInv
  <1> QED BY <1>2, <1>3, Zenon DEF SendPart, SendPartFails

\* a new request id is recorded before its first part goes out; a known one is only answered
LEMMA BeginInv ==
    ASSUME SendInv, BeginSend
    PROVE  SendInv'
  <1> DEFINE c == Head(queue)
  <1>0. c \in Calls /\ queue' \in Seq(Calls) /\ stage = "idle" /\ calls' = calls
        /\ accepted' = accepted
    <2>1. queue \in Seq(Calls) /\ queue # <<>> /\ queue' = Tail(queue)
      BY Zenon DEF SendInv, SendTyped, BeginSend
    <2> QED BY <2>1, HeadTailProperties DEF BeginSend
  <1>1. CASE /\ \E row \in Known(c) : Reply(c, ReplayResult(c, row))
             /\ UNCHANGED smsd
    <2>1. PICK row \in managed : row.request = c.request /\ Reply(c, ReplayResult(c, row))
      BY <1>1, Zenon DEF Known, RowOf
    <2>2. ASSUME ReplayResult(c, row) = "success" PROVE Whole(c.request, c.payload)
      <3>1. row.payload = c.payload /\ row.state = "success"
        BY <2>2, Zenon DEF ReplayResult
      <3> QED BY <2>1, <3>1, Zenon DEF SendInv, Books
    <2> HIDE DEF c
    <2>3. OkMeansSent'
      BY <1>0, <2>1, <2>2, ReplyOk, Zenon DEF SendInv
    <2>4. calls' \in Nat
      BY <1>0 DEF SendInv, SendTyped
    <2> QED BY <1>0, <1>1, <2>3, <2>4, SameBooks
  <1>2. CASE /\ Known(c) = {} /\ managed' = Record(c)
             /\ stage' = "sending" /\ call' = c /\ part' = 0
             /\ UNCHANGED <<sent, waiting, answers>>
    <2>1. managed' = managed \cup {RowFor(c)}
      BY <1>2, Zenon DEF Record, RowFor
    <2>2. /\ RowFor(c) \in Rows /\ RowFor(c).request = c.request
          /\ RowFor(c).state = "sending"
      BY <1>0, Zenon DEF RowFor, Rows, Calls
    <2>3. \A row \in managed : row.request # c.request
      BY <1>2 DEF Known, RowOf
    <2>4. Parts[c.payload] \in Nat
      BY <1>0, PartsAssumption DEF Calls
    <2>5. call' = c /\ part' = 0 /\ stage' = "sending" /\ answers' = answers
      BY <1>2
    <2> HIDE DEF c
    <2>6. SendTyped'
      BY <1>0, <2>1, <2>2, <2>4, <2>5 DEF SendInv, SendTyped
    <2>7. \A a \in accepted : a[1] # c.request
      BY <2>3 DEF SendInv, Books
    <2>8. RowFor(call)' = RowFor(c)
      BY <2>5 DEF RowFor
    <2>9. Books'
      BY <1>0, <2>1, <2>2, <2>3, <2>5, <2>7, <2>8 DEF SendInv, Books, Whole, Taken
    <2> QED BY <1>0, <2>5, <2>6, <2>9, Zenon DEF SendInv, AtMostOnce, OkMeansSent
  <1> QED BY <1>1, <1>2, Zenon DEF BeginSend

\* the history row and the end of the loop
LEMMA HistoryInv ==
    ASSUME SendInv, WriteHistory
    PROVE  SendInv'
  <1>1. /\ stage \in {"sending", "failed"} /\ stage' \in {"sent", "not sent"}
        /\ stage' = "sent" => part = Parts[call.payload]
        /\ UNCHANGED <<managed, call, part, queue, calls, accepted, answers>>
    BY Zenon DEF WriteHistory, AllSent
  <1>2. SendTyped' /\ AtMostOnce' /\ OkMeansSent'
    BY <1>1, Zenon DEF SendInv, SendTyped, AtMostOnce, OkMeansSent
  <1>3. Books'
    <2>1. RowFor(call) \in managed /\ RowFor(call)' = RowFor(call)
      BY <1>1, Zenon DEF SendInv, Books, RowFor
    <2>2. \A k \in 1..part : Taken(call.request, call.payload, k)'
      BY <1>1, Zenon DEF SendInv, Books, Taken
    <2>3. \A row \in managed : row.state = "success" => Whole(row.request, row.payload)'
      BY <1>1, Zenon DEF SendInv, Books, Whole, Taken
    <2> QED BY <1>1, <2>1, <2>2, <2>3, Zenon DEF SendInv, Books
  <1> QED BY <1>2, <1>3 DEF SendInv

\* smsd dies: the rows stay, and with them the knowledge of what was begun
LEMMA CrashInv ==
    ASSUME SendInv, SmsdCrash
    PROVE  SendInv'
  <1>1. /\ stage' = "idle" /\ queue' = <<>>
        /\ UNCHANGED <<managed, calls, accepted, answers>>
    BY DEF SmsdCrash
  <1>2. <<>> \in Seq(Calls)
    OBVIOUS
  <1>3. SendTyped' /\ AtMostOnce' /\ OkMeansSent'
    BY <1>1, <1>2, Zenon DEF SendInv, SendTyped, AtMostOnce, OkMeansSent
  <1>4. Books'
    BY <1>1 DEF SendInv, Books, Whole, Taken
  <1> QED BY <1>3, <1>4 DEF SendInv

\* nothing is recorded, taken or answered at start
LEMMA InitSend == SendInit => SendInv
  BY DEF SendInit, SendInv, SendTyped, Books, AtMostOnce, OkMeansSent

\* the invariant is inductive
LEMMA NextSend == SendInv /\ [SendNext]_sendVars => SendInv'
  <1> SUFFICES ASSUME SendInv, [SendNext]_sendVars PROVE SendInv'
    OBVIOUS
  <1>0. calls \in Nat /\ queue \in Seq(Calls) /\ OkMeansSent
    BY Zenon DEF SendInv, SendTyped
  <1>1. CASE MessageToSms
    <2>1. PICK r \in Requests, p \in Payloads :
             queue' = Append(queue, [serial |-> calls + 1, request |-> r, payload |-> p])
      BY <1>1, Zenon DEF MessageToSms
    <2>2. [serial |-> calls + 1, request |-> r, payload |-> p] \in Calls
      BY <1>0 DEF Calls
    <2>3. queue' \in Seq(Calls)
      BY <1>0, <2>1, <2>2, AppendProperties, Zenon
    <2>4. calls' \in Nat /\ UNCHANGED <<smsd, accepted, answers>>
      BY <1>0, <1>1 DEF MessageToSms
    <2> QED BY <1>0, <2>3, <2>4, SameBooks, Zenon DEF OkMeansSent
  <1>2. CASE InvokeTimeout
    BY <1>0, <1>2, SameBooks, Zenon DEF InvokeTimeout, OkMeansSent
  <1>3. CASE EndSend
    <2>1. stage = "sent" => Whole(call.request, call.payload)
      BY Zenon DEF SendInv, Books, Whole
    <2>2. CASE stage = "sent" /\ Finish("success")
      BY <1>3, <2>1, <2>2, FinishInv DEF EndSend
    <2>3. CASE stage = "not sent" /\ Finish("error")
      BY <1>3, <2>3, FinishInv, Zenon DEF EndSend
    <2> QED BY <1>3, <2>2, <2>3, Zenon DEF EndSend
  <1>4. CASE InternalFailure
    <2>1. /\ stage # "idle" /\ UNCHANGED <<queue, calls, accepted>>
          /\ Finish("error") \/ (UNCHANGED managed /\ Return("error"))
      BY <1>4, Zenon DEF InternalFailure
    <2> QED BY <2>1, FinishInv, ReturnInv
  <1>5. CASE UNCHANGED sendVars
    BY <1>0, <1>5, SameBooks, Zenon DEF sendVars, OkMeansSent
  <1> QED BY <1>1, <1>2, <1>3, <1>4, <1>5, BeginInv, PartInv, HistoryInv, CrashInv DEF SendNext

\* However often a SIP peer repeats a request, and whatever times out, fails or crashes,
\* send_managed hands no part of it to the modem twice: for any number of requests,
\* parts, calls and sendFaults.
THEOREM SentAtMostOnce == SendSpec => []AtMostOnce
  <1>1. SendInv => AtMostOnce
    BY DEF SendInv
  <1> QED BY <1>1, InitSend, NextSend, PTL DEF SendSpec

\* A success that reaches the SIP peer, from the call that sent the message or from a
\* replay, is for the peer's own message, and the modem took every part of it.
THEOREM SuccessMeansSent == SendSpec => []OkMeansSent
  <1>1. SendInv => OkMeansSent
    BY DEF SendInv
  <1> QED BY <1>1, InitSend, NextSend, PTL DEF SendSpec
===============================================================================
