--------------------------- MODULE ScanCommandProofs --------------------------
(***************************************************************************)
(* Proofs that modem_scand serializes the work on a slot and that the last *)
(* queued request wins (ScanScheduler), and about the commands on a port of*)
(* ubus-at-daemon: which lines the caller gets, and which line ends its    *)
(* command (AtCommand).  The two components share no variable.             *)
(***************************************************************************)
EXTENDS ScanScheduler, AtCommand, SequenceTheorems, FiniteSetTheorems, TLAPS

Resting == {"looking", "waiting", "timedwait", "exited"}

\* What makes serialization inductive: a busy worker's section is registered in
\* active_resources until that worker finishes, and workers keep to themselves.
Inv ==
    /\ DOMAIN pc = Workers /\ DOMAIN job = Workers
    /\ SlotSerialized
    /\ \A w \in Workers : Busy(w) => job[w].section \in active_resources

\* A step that registers nothing and makes no resting worker busy keeps Inv.
LEMMA NobodyStarts ==
    ASSUME Inv, UNCHANGED <<job, active_resources>>, DOMAIN pc' = Workers,
           \A w \in Workers : Busy(w)' => Busy(w)
    PROVE  Inv'
  BY Zenon DEF Inv, SlotSerialized, Busy

\* A worker that was busy may go anywhere.
LEMMA StepOfOne ==
    ASSUME Inv, NEW w \in Workers, Busy(w), NEW label, Goto(w, label),
           UNCHANGED <<job, active_resources>>
    PROVE  Inv'
  <1>1. DOMAIN pc' = Workers
    BY DEF Inv, Goto
  <1>2. \A v \in Workers : Busy(v)' => Busy(v)
    BY DEF Inv, Goto, Busy
  <1> QED BY <1>1, <1>2, NobodyStarts

\* Waking sleepers makes nobody busy.
LEMMA WakeRests ==
    ASSUME Inv, NEW ws \in SUBSET Sleeping
    PROVE  /\ DOMAIN Wake(ws) = Workers
           /\ \A v \in Workers : Wake(ws)[v] \in Resting <=> ~Busy(v)
  BY DEF Inv, Wake, Sleeping, Resting, Busy

\* enqueue_event_ex changes nothing but the queue, and where its caller goes on.
LEMMA EnqueueKeeps ==
    ASSUME Inv, NEW type, NEW s, NEW delay, NEW attempts, NEW current,
           NEW callers \in SUBSET {w \in Workers : Busy(w)}, NEW label,
           EnqueueEventEx(type, s, delay, attempts, current, callers, label),
           UNCHANGED <<job, active_resources>>
    PROVE  Inv'
  <1> DEFINE Pc(ws) == [w \in Workers |-> IF w \in callers THEN label
                                                           ELSE Wake(ws)[w]]
  <1>1. PICK ws \in SUBSET Sleeping : pc' = Pc(ws)
    BY DEF EnqueueEventEx, Signalled
  <1>2. DOMAIN pc' = Workers
    BY <1>1, WakeRests
  <1>3. \A v \in Workers : Busy(v)' => Busy(v)
    BY <1>1, WakeRests DEF Busy, Resting
  <1> QED BY <1>2, <1>3, NobodyStarts

\* no worker is busy at start
LEMMA InitInv == Init => Inv
  BY DEF Init, Inv, SlotSerialized, Busy

\* the invariant is inductive
LEMMA NextInv == Inv /\ [Next]_vars => Inv'
  <1> SUFFICES ASSUME Inv, [Next]_vars PROVE Inv'
    OBVIOUS
  <1> USE DEF queueVars, activeVars, workerVars, confVars, mainVars, history
  <1>1. CASE HandleClient
    <2>1. {} \in SUBSET {w \in Workers : Busy(w)}
      OBVIOUS
    <2> QED BY <1>1, <2>1, EnqueueKeeps, Zenon DEF HandleClient
  <1>2. CASE SigHandler
    <2>1. PICK ws \in SUBSET Sleeping : pc' = Wake(ws)
      BY <1>2 DEF SigHandler
    <2> QED BY <1>2, <2>1, WakeRests, NobodyStarts DEF SigHandler, Busy, Resting
  <1>3. CASE LeaveLoop
    <2>1. Workers \cap Sleeping \in SUBSET Sleeping
      OBVIOUS
    <2> QED BY <1>3, <2>1, WakeRests, NobodyStarts DEF LeaveLoop, Busy, Resting
  <1>4. CASE Tick \/ SetFixed
    BY <1>4, NobodyStarts DEF Tick, SetFixed, Inv, Busy
  <1>5. ASSUME NEW w \in Workers, Take(w) PROVE Inv'
    <2>1. PICK i \in DOMAIN queue :
             /\ queue[i].section \notin active_resources
             /\ job' = [job EXCEPT ![w] = queue[i]]
             /\ active_resources' = active_resources \cup {queue[i].section}
      BY <1>5, Zenon DEF Take, Eligible
    <2>2. DOMAIN pc' = Workers /\ DOMAIN job' = Workers
      BY <1>5, <2>1 DEF Take, Inv
    <2>3. \A v \in Workers \ {w} : (Busy(v)' <=> Busy(v)) /\ job'[v] = job[v]
      BY <1>5, <2>1 DEF Take, Inv, Busy
    <2>4. job'[w] = queue[i]
      BY <2>1 DEF Inv
    <2> QED BY <2>1, <2>2, <2>3, <2>4 DEF Inv, SlotSerialized
  <1>6. ASSUME NEW w \in Workers, Sleep(w) \/ Exit(w) \/ TimeOut(w) PROVE Inv'
    <2>1. \A v \in Workers : Busy(v)' => Busy(v)
      BY <1>6 DEF Sleep, Exit, TimeOut, Inv, Busy
    <2>2. DOMAIN pc' = Workers
      BY <1>6 DEF Sleep, Exit, TimeOut, Inv
    <2> QED BY <1>6, <2>1, <2>2, NobodyStarts DEF Sleep, Exit, TimeOut
  <1>7. ASSUME NEW w \in Workers, CheckCurrent(w) PROVE Inv'
    <2>1. CASE ~Current(w)
      BY <1>7, <2>1, StepOfOne DEF CheckCurrent, Busy
    <2>2. CASE Current(w)
      <3>1. \A v \in Workers : Busy(v)' => Busy(v)
        BY <1>7, <2>2, Zenon DEF CheckCurrent, Goto, Inv, Busy
      <3> QED BY <1>7, <2>2, <3>1, NobodyStarts DEF CheckCurrent, Goto, Inv
    <2> QED BY <2>1, <2>2
  <1>8. ASSUME NEW w \in Workers, Probe(w) \/ CommitAdd(w) \/ StopDialer(w)
                  \/ DeleteSection(w) \/ DisableSlot(w) \/ Enumerate(w)
                  \/ AllFoundAdded(w)
        PROVE Inv'
    <2>1. Busy(w) /\ UNCHANGED <<job, active_resources>>
      BY <1>8, Zenon DEF Probe, CommitAdd, StopDialer, DeleteSection, DisableSlot,
                  Enumerate, AllFoundAdded, Busy
    <2>2. PICK label : Goto(w, label)
      BY <1>8, Zenon DEF Probe, CommitAdd, StopDialer, DeleteSection, DisableSlot,
                  Enumerate, AllFoundAdded
    <2> QED BY <2>1, <2>2, StepOfOne
  <1>9. ASSUME NEW w \in Workers, Retry(w) \/ AddFound(w) PROVE Inv'
    <2>1. /\ Busy(w) /\ {w} \in SUBSET {v \in Workers : Busy(v)}
          /\ UNCHANGED <<job, active_resources>>
      BY <1>9 DEF Retry, AddFound, Busy
    <2> QED BY <1>9, <2>1, EnqueueKeeps, StepOfOne, Zenon DEF Retry, AddFound
  <1>10. ASSUME NEW w \in Workers, Finish(w) PROVE Inv'
    <2>1. Sleeping \in SUBSET Sleeping
      OBVIOUS
    <2>2. pc' = [Wake(Sleeping) EXCEPT ![w] = "looking"]
      BY <1>10 DEF Finish
    <2>3. DOMAIN pc' = Workers /\ DOMAIN job' = Workers
      BY <1>10, <2>1, <2>2, WakeRests DEF Finish, Inv
    <2>4. ~Busy(w)' /\ Busy(w)
      BY <1>10, <2>1, <2>2, WakeRests DEF Finish, Busy
    <2>5. \A v \in Workers \ {w} : (Busy(v)' <=> Busy(v)) /\ job'[v] = job[v]
      BY <1>10, <2>1, <2>2, WakeRests DEF Finish, Busy, Resting, Inv
    <2> QED BY <1>10, <2>3, <2>4, <2>5 DEF Finish, Inv, SlotSerialized
  <1>11. CASE UNCHANGED vars
    BY <1>11, NobodyStarts DEF vars, Inv, Busy
  <1> QED BY <1>1, <1>2, <1>3, <1>4, <1>5, <1>6, <1>7, <1>8, <1>9, <1>10, <1>11
          DEF Next, Look, Process

\* No two worker threads are ever busy with the same section: dequeue_event skips
\* sections in active_resources, and only finish_event_key takes one out.  The section of
\* an add or a disable is that of the owning slot, whatever slots own others; the remove
\* of an owned slot has its own section and is not held up by work on its owner.
THEOREM Serialized == Spec => []SlotSerialized
  <1>1. Inv => SlotSerialized
    BY DEF Inv
  <1> QED BY <1>1, InitInv, NextInv, PTL DEF Spec
-------------------------------------------------------------------------------
(* Which request runs last                                                 *)

\* A PCIe slot that owns a USB slot has no owner: associated_usb names USB slots.
OwnersUnowned == \A s \in Slots : Owner[Owner[s]] = Owner[s]

Events(q) == {q[i] : i \in DOMAIN q}

\* an event is no newer than the generation of its section
Proper(e) ==
    /\ e \in Event /\ e.generation <= generation[e.section]
    /\ e.type = "add" => e.section \in Slots /\ Owner[e.section] = e.section

\* e is the newest event of slot s
Newest(e, s) == e.section = s /\ e.generation = generation[s]

\* the waiting and the running events are proper, and only adds are probed
Sound ==
    /\ queue \in Seq(Event) /\ generation \in [Sections -> Nat]
    /\ accepted \in [Slots -> SlotTypes \cup {"none"}]
    /\ DOMAIN handled = Slots /\ DOMAIN conf = Slots
    /\ \A e \in Events(queue) : Proper(e)
    /\ \A w \in Workers : Busy(w) => Proper(job[w])
    /\ \A w \in Workers : pc[w] \in {"add", "commit", "retry"} => job[w].type = "add"

\* Queued and running events of the newest generation are of the accepted type, and
\* the accepted request waits in the queue, is about to be checked, or was handled.
Wins(s) ==
    accepted[s] # "none" =>
        /\ \A e \in Events(queue) : Newest(e, s) => e.type = accepted[s]
        /\ \A w \in Workers : Busy(w) /\ Newest(job[w], s) => job[w].type = accepted[s]
        /\ \/ \E e \in Events(queue) : Newest(e, s)
           \/ \E w \in Workers : pc[w] = "taken" /\ Newest(job[w], s)
           \/ handled[s] = accepted[s]

Fresh == Sound /\ \A s \in Slots : Wins(s)

\* the events at some positions of the queue, in their order
LEMMA KeepEvents ==
    ASSUME NEW E, NEW q \in Seq(E), NEW I \in SUBSET DOMAIN q
    PROVE  Keep(q, I) \in Seq(E) /\ Events(Keep(q, I)) = {q[i] : i \in I}
  <1> DEFINE upto(i) == {k \in I : k <= i}
             rank == [i \in I |-> Cardinality(upto(i))]
             n == Cardinality(I)
             N == 1..n
  <1>1. I \subseteq 1..Len(q) /\ Len(q) \in Nat /\ \A i \in I : i \in Int /\ q[i] \in E
    OBVIOUS
  <1>2. IsFiniteSet(I) /\ n \in Nat
    <2>1. IsFiniteSet(1..Len(q))
      BY <1>1, FS_Interval
    <2>2. IsFiniteSet(I)
      BY <1>1, <2>1, FS_Subset
    <2> QED BY <2>2, FS_CardinalityType
  <1>3. \A i \in I : /\ upto(i) \in SUBSET I /\ i \in upto(i) /\ IsFiniteSet(upto(i))
                     /\ Cardinality(upto(i)) \in Nat
    <2>1. \A i \in I : upto(i) \in SUBSET I /\ i \in upto(i)
      BY <1>1
    <2> HIDE DEF upto
    <2> QED BY <1>2, <2>1, FS_Subset, FS_CardinalityType
  <1>4. \A i \in I : rank[i] \in N
    <2>1. \A i \in I : Cardinality(upto(i)) <= n /\ Cardinality(upto(i)) # 0
      <3> HIDE DEF upto
      <3> QED BY <1>2, <1>3, FS_Subset, FS_EmptySet
    <2> HIDE DEF upto, n
    <2> QED BY <1>2, <1>3, <2>1
  <1>5. \A i, k \in I : rank[i] = rank[k] => i = k
    <2>1. ASSUME NEW i \in I, NEW k \in I, i < k PROVE rank[i] # rank[k]
      <3>1. upto(i) \in SUBSET upto(k) /\ k \notin upto(i)
        BY <1>1, <2>1
      <3>2. upto(i) # upto(k)
        BY <1>3, <3>1
      <3> HIDE DEF upto
      <3>3. Cardinality(upto(k)) # Cardinality(upto(i))
        BY <1>3, <3>1, <3>2, FS_Subset
      <3> QED BY <3>3
    <2> HIDE DEF rank
    <2> QED BY <1>1, <2>1
  <1>6. rank \in Injection(I, N)
    <2>1. rank \in [I -> N]
      <3>1. rank = [i \in I |-> rank[i]]
        OBVIOUS
      <3> HIDE DEF rank, N
      <3> QED BY <1>4, <3>1
    <2> HIDE DEF rank, N
    <2> QED BY <1>5, <2>1 DEF Injection, IsInjective
  <1>7. rank \in Surjection(I, N)
    <2>1. IsFiniteSet(N) /\ Cardinality(N) = n
      <3> HIDE DEF n
      <3> QED BY <1>2, FS_Interval
    <2>2. Cardinality(I) = Cardinality(N)
      BY <2>1
    <2> HIDE DEF rank, N
    <2> QED BY <1>6, <2>1, <2>2, FS_Injection
  <1>8. \A j \in N : \E i \in I : rank[i] = j
    <2> HIDE DEF rank, N
    <2> QED BY <1>7 DEF Surjection
  <1>9. \A i \in I : Nth(I, rank[i]) = i
    <2> SUFFICES ASSUME NEW i \in I PROVE Nth(I, rank[i]) = i
      OBVIOUS
    <2>1. Nth(I, rank[i]) = CHOOSE k \in I : rank[k] = rank[i]
      BY Zenon DEF Nth
    <2> HIDE DEF rank
    <2> QED BY <1>5, <2>1
  <1> HIDE DEF rank
  <1>10. \A j \in N : Nth(I, j) \in I
    BY <1>8, <1>9
  <1>11. \A i \in I : rank[i] \in N /\ Nth(I, rank[i]) = i
    BY <1>4, <1>9
  <1>12. Keep(q, I) = [j \in N |-> q[Nth(I, j)]]
    BY DEF Keep
  <1>13. Keep(q, I) \in Seq(E)
    <2> HIDE DEF n
    <2> QED BY <1>1, <1>2, <1>10, <1>12
  <1>14. Events(Keep(q, I)) = {Keep(q, I)[j] : j \in N}
    <2> HIDE DEF N
    <2> QED BY <1>12 DEF Events
  <1> HIDE DEF N
  <1>15. \A j \in N : Keep(q, I)[j] = q[Nth(I, j)]
    BY <1>12
  <1>16. Events(Keep(q, I)) = {q[i] : i \in I}
    BY <1>10, <1>11, <1>14, <1>15
  <1> QED BY <1>13, <1>16

LEMMA WithoutAddsEvents ==
    ASSUME NEW q \in Seq(Event), NEW s
    PROVE  /\ WithoutAdds(q, s) \in Seq(Event) /\ Events(WithoutAdds(q, s)) \subseteq Events(q)
           /\ \A e \in Events(q) : e.section # s => e \in Events(WithoutAdds(q, s))
  <1> DEFINE I == {i \in DOMAIN q : Key(q[i]) # <<"add", s>>}
  <1>1. I \in SUBSET DOMAIN q
    OBVIOUS
  <1>2. WithoutAdds(q, s) = Keep(q, I)
    BY DEF WithoutAdds
  <1>3. \A i \in DOMAIN q : q[i].section # s => i \in I
    <2>1. \A i \in DOMAIN q : Key(q[i])[2] = q[i].section
      BY DEF Key
    <2> QED BY <2>1
  <1> HIDE DEF I
  <1>4. Keep(q, I) \in Seq(Event) /\ Events(Keep(q, I)) = {q[i] : i \in I}
    BY <1>1, KeepEvents
  <1>5. Events(Keep(q, I)) \subseteq Events(q)
    BY <1>1, <1>4, Zenon DEF Events
  <1>6. \A e \in Events(q) : e.section # s => e \in Events(Keep(q, I))
    BY <1>3, <1>4, Zenon DEF Events
  <1> QED BY <1>2, <1>4, <1>5, <1>6

LEMMA InsertEvents ==
    ASSUME NEW q \in Seq(Event), NEW e \in Event
    PROVE  Insert(q, e) \in Seq(Event) /\ Events(Insert(q, e)) = Events(q) \cup {e}
  <1> DEFINE n == Cardinality(Ahead(q, e))
  <1>1. n \in 0..Len(q)
    <2>1. Ahead(q, e) \in SUBSET (1..Len(q)) /\ Len(q) \in Nat
      BY DEF Ahead
    <2>2. IsFiniteSet(1..Len(q)) /\ Cardinality(1..Len(q)) = Len(q)
      <3>1. Cardinality(1..Len(q)) = IF 1 > Len(q) THEN 0 ELSE Len(q) - 1 + 1
        BY <2>1, FS_Interval
      <3>2. IsFiniteSet(1..Len(q))
        BY <2>1, FS_Interval
      <3> QED BY <2>1, <3>1, <3>2
    <2>3. IsFiniteSet(Ahead(q, e)) /\ n <= Len(q)
      BY <2>1, <2>2, FS_Subset
    <2>4. n \in Nat
      BY <2>3, FS_CardinalityType
    <2> QED BY <2>1, <2>3, <2>4
  <1> DEFINE a == SubSeq(q, 1, n)
             b == SubSeq(q, n + 1, Len(q))
             c == Append(a, e)
             r == c \o b
  <1>2. Insert(q, e) = r
    BY DEF Insert
  <1> HIDE DEF n
  <1>3. /\ a \in Seq(Event) /\ Len(a) = n /\ \A i \in 1..n : a[i] = q[i]
        /\ b \in Seq(Event) /\ Len(b) = Len(q) - n /\ \A i \in 1..(Len(q) - n) : b[i] = q[n + i]
    BY <1>1
  <1> HIDE DEF a, b
  <1>c. /\ c \in Seq(Event) /\ Len(c) = n + 1 /\ c[n + 1] = e
        /\ \A i \in 1..n : c[i] = q[i]
    BY <1>1, <1>3
  <1> HIDE DEF c
  <1>4. r \in Seq(Event) /\ Len(r) = Len(q) + 1
    <2>1. r \in Seq(Event) /\ Len(r) = Len(c) + Len(b) /\ Len(q) \in Nat
      BY <1>3, <1>c
    <2> QED BY <1>1, <1>3, <1>c, <2>1
  <1>5. \A i \in 1..(Len(q) + 1) :
           r[i] = IF i <= n THEN q[i] ELSE IF i = n + 1 THEN e ELSE q[i - 1]
    <2>1. \A i \in 1..(Len(q) + 1) : r[i] = IF i <= n + 1 THEN c[i] ELSE b[i - (n + 1)]
      BY <1>1, <1>3, <1>c
    <2>2. \A i \in 1..(Len(q) + 1) : i > n + 1 => b[i - (n + 1)] = q[n + (i - (n + 1))]
      BY <1>1, <1>3
    <2>3. \A i \in 1..(Len(q) + 1) : n + (i - (n + 1)) = i - 1
      BY <1>1
    <2> HIDE DEF r
    <2> SUFFICES ASSUME NEW i \in 1..(Len(q) + 1)
                 PROVE  r[i] = IF i <= n THEN q[i] ELSE IF i = n + 1 THEN e ELSE q[i - 1]
      OBVIOUS
    <2>4. CASE i <= n
      <3>1. r[i] = c[i] /\ i \in 1..n
        BY <1>1, <2>1, <2>4
      <3> QED BY <1>c, <2>4, <3>1
    <2>5. CASE i = n + 1
      <3>1. r[i] = c[n + 1] /\ ~(i <= n)
        BY <1>1, <2>1, <2>5
      <3> QED BY <1>c, <2>5, <3>1
    <2>6. CASE i > n + 1
      <3>1. r[i] = b[i - (n + 1)] /\ ~(i <= n) /\ i # n + 1
        BY <1>1, <2>1, <2>6
      <3>2. b[i - (n + 1)] = q[i - 1]
        BY <2>2, <2>3, <2>6
      <3> QED BY <3>1, <3>2
    <2> QED BY <1>1, <2>4, <2>5, <2>6
  <1> HIDE DEF r
  <1>6. \A x \in Events(r) : x \in Events(q) \/ x = e
    <2> SUFFICES ASSUME NEW i \in 1..(Len(q) + 1) PROVE r[i] \in Events(q) \/ r[i] = e
      BY <1>4 DEF Events
    <2>1. CASE i <= n
      BY <1>1, <1>5, <2>1 DEF Events
    <2>2. CASE i = n + 1
      BY <1>1, <1>5, <2>2
    <2>3. CASE i > n + 1
      <3>1. i - 1 \in 1..Len(q) /\ ~(i <= n) /\ i # n + 1
        BY <1>1, <2>3
      <3> QED BY <1>5, <3>1 DEF Events
    <2> QED BY <1>1, <2>1, <2>2, <2>3
  <1>7. e \in Events(r)
    <2>1. n + 1 \in DOMAIN r /\ r[n + 1] = e
      BY <1>1, <1>4, <1>5
    <2> QED BY <2>1 DEF Events
  <1>8. \A j \in 1..Len(q) : q[j] \in Events(r)
    <2> SUFFICES ASSUME NEW j \in 1..Len(q) PROVE q[j] \in Events(r)
      OBVIOUS
    <2>1. CASE j <= n
      <3>1. j \in DOMAIN r /\ r[j] = q[j]
        BY <1>1, <1>4, <1>5, <2>1
      <3> QED BY <3>1 DEF Events
    <2>2. CASE j > n
      <3>1. j + 1 \in DOMAIN r /\ r[j + 1] = q[j]
        BY <1>1, <1>4, <1>5, <2>2
      <3> QED BY <3>1 DEF Events
    <2> QED BY <1>1, <2>1, <2>2
  <1>9. Events(q) \subseteq Events(r)
    BY <1>8 DEF Events
  <1> QED BY <1>2, <1>4, <1>6, <1>7, <1>9

LEMMA UnlinkEvents ==
    ASSUME NEW q \in Seq(Event), NEW i \in DOMAIN q
    PROVE  /\ Unlink(q, i) \in Seq(Event) /\ Events(Unlink(q, i)) \subseteq Events(q)
           /\ \A e \in Events(q) : e \in Events(Unlink(q, i)) \/ e = q[i]
  <1> DEFINE a == SubSeq(q, 1, i - 1)
             b == SubSeq(q, i + 1, Len(q))
             r == a \o b
  <1>1. Unlink(q, i) = r
    BY DEF Unlink
  <1>2. i \in 1..Len(q)
    OBVIOUS
  <1>3. /\ a \in Seq(Event) /\ Len(a) = i - 1 /\ \A j \in 1..(i - 1) : a[j] = q[j]
        /\ b \in Seq(Event) /\ Len(b) = Len(q) - i /\ \A j \in 1..(Len(q) - i) : b[j] = q[i + j]
    BY <1>2
  <1> HIDE DEF a, b
  <1>4. r \in Seq(Event) /\ Len(r) = Len(q) - 1
    BY <1>2, <1>3
  <1>5. \A j \in 1..(Len(q) - 1) : r[j] = IF j < i THEN q[j] ELSE q[j + 1]
    BY <1>2, <1>3
  <1> HIDE DEF r
  <1>6. Events(r) \subseteq Events(q)
    <2> SUFFICES ASSUME NEW j \in 1..(Len(q) - 1) PROVE r[j] \in Events(q)
      BY <1>4 DEF Events
    <2> QED BY <1>2, <1>5 DEF Events
  <1>7. \A j \in 1..Len(q) : q[j] \in Events(r) \/ j = i
    <2> SUFFICES ASSUME NEW j \in 1..Len(q), j # i PROVE q[j] \in Events(r)
      OBVIOUS
    <2>1. CASE j < i
      <3>1. j \in DOMAIN r /\ r[j] = q[j]
        BY <1>2, <1>4, <1>5, <2>1
      <3> QED BY <3>1 DEF Events
    <2>2. CASE j > i
      <3>1. j - 1 \in DOMAIN r /\ r[j - 1] = q[j]
        BY <1>2, <1>4, <1>5, <2>2
      <3> QED BY <3>1 DEF Events
    <2> QED BY <1>2, <2>1, <2>2
  <1>8. \A e \in Events(q) : e \in Events(r) \/ e = q[i]
    BY <1>7 DEF Events
  <1> QED BY <1>1, <1>4, <1>6, <1>8

\* A step in which no worker takes an event, is told to run one, or leaves a check.
Quiet ==
    /\ UNCHANGED <<generation, accepted, handled>> /\ DOMAIN conf' = Slots
    /\ \A v \in Workers :
          /\ Busy(v)' => Busy(v) /\ job'[v] = job[v]
          /\ pc[v] = "taken" => pc'[v] = "taken" /\ job'[v] = job[v]
          /\ pc'[v] \in {"add", "commit", "retry"} => job[v].type = "add"

LEMMA QuietFresh ==
    ASSUME Fresh, Quiet, UNCHANGED queue
    PROVE  Fresh'
  <1>1. Sound'
    <2>1. Events(queue)' = Events(queue) /\ \A e : Proper(e)' <=> Proper(e)
      BY Zenon DEF Quiet, Proper, Events
    <2>2. \A w \in Workers : Busy(w)' => Proper(job[w])'
      BY Zenon DEF Fresh, Sound, Quiet, Proper
    <2>3. \A w \in Workers : pc'[w] \in {"add", "commit", "retry"} => job'[w].type = "add"
      BY Zenon DEF Quiet, Busy
    <2> QED BY <2>1, <2>2, <2>3, Zenon DEF Fresh, Sound, Quiet
  <1>2. ASSUME NEW s \in Slots PROVE Wins(s)'
    <2>1. Wins(s)
      BY DEF Fresh
    <2> QED BY <2>1, ZenonT(30) DEF Wins, Quiet, Newest, Events
  <1> QED BY <1>1, <1>2 DEF Fresh

\* a request as handle_client, process_event and the scans make it
Request(type, s, delay, attempts, current) ==
    /\ type \in SlotTypes \cup {"scan"} /\ s \in Sections /\ delay \in Nat
    /\ attempts \in 0..RetryMax
    /\ type = "scan" <=> s = ScanSection
    /\ type = "add" => Owner[s] = s
    /\ attempts # 0 =>
          /\ type = "add" /\ current.type = "add" /\ current.section = s
          /\ \E w \in Workers : Busy(w) /\ job[w] = current

\* where the callers of enqueue_event_ex are, and where they go on
Calling(callers, label) ==
    /\ callers \in SUBSET {w \in Workers : Busy(w) /\ pc[w] # "taken"}
    /\ label \notin {"taken", "add", "commit", "retry"}

LEMMA EnqueueWorkers ==
    ASSUME Inv, Sound, NEW type, NEW s, NEW delay, NEW attempts, NEW current,
           NEW callers, NEW label, Calling(callers, label),
           EnqueueEventEx(type, s, delay, attempts, current, callers, label),
           UNCHANGED job
    PROVE  \A v \in Workers :
              /\ Busy(v)' => Busy(v) /\ job'[v] = job[v]
              /\ pc[v] = "taken" => pc'[v] = "taken" /\ job'[v] = job[v]
              /\ pc'[v] \in {"add", "commit", "retry"} => job[v].type = "add"
  <1>1. PICK ws \in SUBSET Sleeping :
           pc' = [w \in Workers |-> IF w \in callers THEN label ELSE Wake(ws)[w]]
    BY Zenon DEF EnqueueEventEx, Signalled
  <1>2. \A v \in Workers :
           pc'[v] = IF v \in callers THEN label ELSE IF v \in ws THEN "looking" ELSE pc[v]
    BY <1>1 DEF Wake
  <1>3. \A v \in Workers : v \in ws => pc[v] \in {"waiting", "timedwait"}
    BY DEF Sleeping
  <1>4. \A v \in Workers : v \in callers => Busy(v) /\ pc[v] # "taken"
    BY DEF Calling
  <1> QED BY <1>2, <1>3, <1>4, Zenon DEF Calling, Busy, Sound

\* enqueue_event_ex: a refused request leaves the newest event alone or has cancelled
\* it, an accepted one is the newest of its slot from now on.
LEMMA EnqueueFresh ==
    ASSUME Inv, Fresh, NEW type, NEW s, NEW delay, NEW attempts, NEW current,
           NEW callers, NEW label, Calling(callers, label),
           Request(type, s, delay, attempts, current),
           EnqueueEventEx(type, s, delay, attempts, current, callers, label),
           UNCHANGED <<job, handled, conf>>
    PROVE  Fresh'
  <1> DEFINE refused == Duplicate(type, s, attempts) \/ Outdated(s, attempts, current)
             g == IF attempts = 0 THEN generation[s] + 1 ELSE generation[s]
             q == AfterCancel(type, s)
  <1>0. PICK e : e = [type |-> type, section |-> s, wait |-> delay,
                      attempts |-> attempts, generation |-> g]
    BY Zenon
  <1>1. /\ queue' = IF refused THEN q ELSE Insert(q, e)
        /\ generation' = IF refused THEN generation ELSE [generation EXCEPT ![s] = g]
        /\ IF s \in Slots /\ attempts = 0
           THEN accepted' = [accepted EXCEPT ![s] =
                               IF ~refused THEN type ELSE IF q # queue THEN "none" ELSE @]
           ELSE accepted' = accepted
    BY <1>0, Zenon DEF EnqueueEventEx
  <1>2. \A v \in Workers :
           /\ Busy(v)' => Busy(v) /\ job'[v] = job[v]
           /\ pc[v] = "taken" => pc'[v] = "taken" /\ job'[v] = job[v]
           /\ pc'[v] \in {"add", "commit", "retry"} => job[v].type = "add"
    BY EnqueueWorkers, Zenon DEF Fresh
  <1>3. /\ Sound /\ queue \in Seq(Event) /\ generation \in [Sections -> Nat]
        /\ accepted \in [Slots -> SlotTypes \cup {"none"}]
        /\ s \in Sections /\ generation[s] \in Nat
        /\ s \in Slots <=> type \in SlotTypes
    BY SlotAssumption, Zenon DEF SlotTypes, Sections, Fresh, Sound, Request
  <1>4. /\ q \in Seq(Event) /\ Events(q) \subseteq Events(queue)
        /\ \A x \in Events(queue) : x.section # s => x \in Events(q)
        /\ q # queue => type = "disable"
    <2>1. CASE type = "disable"
      <3>1. q = WithoutAdds(queue, s)
        BY <2>1 DEF AfterCancel
      <3> HIDE DEF q
      <3> QED BY <1>3, <2>1, <3>1, WithoutAddsEvents, Zenon
    <2>2. CASE type # "disable"
      BY <1>3, <2>2, Zenon DEF AfterCancel
    <2> QED BY <2>1, <2>2
  <1>5. e \in Event /\ e.type = type /\ e.section = s /\ e.generation = g /\ g \in Nat
    <2>1. g \in Nat
      BY <1>3
    <2> HIDE DEF g
    <2> QED BY <1>0, <2>1, Zenon DEF Request, Event
  <1> HIDE DEF refused, q
  <1>6. CASE refused /\ q = queue
    <2>1. UNCHANGED <<queue, generation>>
      BY <1>1, <1>6, Zenon
    <2>2. UNCHANGED accepted
      <3>1. CASE s \in Slots /\ attempts = 0
        BY <1>1, <1>3, <1>6, <3>1, Zenon
      <3> QED BY <1>1, <3>1, Zenon
    <2> QED BY <1>2, <1>3, <2>1, <2>2, QuietFresh, Zenon DEF Quiet, Sound
  <1>7. CASE refused /\ q # queue
    <2>1. /\ queue' = q /\ UNCHANGED generation
          /\ accepted' = [accepted EXCEPT ![s] = "none"]
      <3>1. s \in Slots /\ attempts = 0
        BY <1>3, <1>4, <1>7, Zenon DEF Request, SlotTypes
      <3> QED BY <1>1, <1>7, <3>1, Zenon
    <2>2. \A x : Proper(x)' <=> Proper(x)
      BY <2>1, Zenon DEF Proper
    <2>3. Sound'
      BY <1>2, <1>3, <1>4, <2>1, <2>2, Zenon DEF Sound, Busy
    <2>4. ASSUME NEW t \in Slots PROVE Wins(t)'
      <3>1. CASE t = s
        BY <1>3, <2>1, <3>1, Zenon DEF Wins, Sound
      <3>2. CASE t # s
        <4>1. Wins(t) /\ accepted'[t] = accepted[t]
          BY <1>3, <2>1, <3>2, Zenon DEF Fresh, Sound
        <4>2. \A x : Newest(x, t)' <=> Newest(x, t)
          BY <2>1, Zenon DEF Newest
        <4>3. \A x \in Events(queue) : Newest(x, t) => x \in Events(queue')
          BY <1>4, <2>1, <3>2, Zenon DEF Newest
        <4> QED BY <1>2, <1>4, <2>1, <4>1, <4>2, <4>3, ZenonT(30) DEF Wins, Events
      <3> QED BY <3>1, <3>2
    <2> QED BY <2>3, <2>4 DEF Fresh
  <1>8. CASE ~refused
    <2>1. /\ queue' \in Seq(Event) /\ Events(queue)' = Events(q) \cup {e}
          /\ generation' = [generation EXCEPT ![s] = g]
      <3>1. queue' = Insert(q, e) /\ generation' = [generation EXCEPT ![s] = g]
        BY <1>1, <1>8
      <3>2. Events(queue') = Events(q) \cup {e} /\ queue' \in Seq(Event)
        BY <1>4, <1>5, <3>1, InsertEvents, Zenon
      <3> QED BY <3>1, <3>2, Zenon DEF Events
    <2>2. /\ generation' \in [Sections -> Nat] /\ generation'[s] = g
          /\ \A t \in Sections : generation[t] <= generation'[t]
          /\ \A t \in Sections : t # s => generation'[t] = generation[t]
      BY <1>3, <1>5, <2>1
    <2>3. /\ accepted' \in [Slots -> SlotTypes \cup {"none"}]
          /\ \A t \in Slots : t # s => accepted'[t] = accepted[t]
          /\ s \in Slots /\ attempts = 0 => accepted'[s] = type
          /\ attempts # 0 => accepted' = accepted
      BY <1>1, <1>3, <1>8, Zenon
    <2>4. \A x : Proper(x) => Proper(x)'
      <3> SUFFICES ASSUME NEW x, Proper(x) PROVE Proper(x)'
        OBVIOUS
      <3>1. x.section \in Sections /\ x.generation \in Nat
        BY Zenon DEF Proper, Event
      <3>2. x.generation <= generation'[x.section]
        BY <1>3, <2>2, <3>1 DEF Proper
      <3> QED BY <3>2, Zenon DEF Proper
    <2>5. Proper(e)'
      <3>1. e.generation <= generation'[e.section]
        BY <1>5, <2>2
      <3>2. type = "add" => s \in Slots /\ Owner[s] = s
        BY <1>3, Zenon DEF Request, SlotTypes
      <3> QED BY <1>5, <3>1, <3>2, Zenon DEF Proper
    <2>6. Sound'
      <3>1. \A x \in Events(queue)' : Proper(x)'
        BY <1>3, <1>4, <2>1, <2>4, <2>5, Zenon DEF Sound
      <3>2. \A w \in Workers : Busy(w)' => Proper(job[w])'
        <4> SUFFICES ASSUME NEW w \in Workers, Busy(w)' PROVE Proper(job[w])'
          BY Zenon
        <4>1. Busy(w) /\ job'[w] = job[w]
          BY <1>2, Zenon
        <4>2. Proper(job[w])
          BY <1>3, <4>1, Zenon DEF Sound
        <4> QED BY <2>4, <4>1, <4>2, Zenon DEF Proper
      <3>3. DOMAIN handled' = Slots /\ DOMAIN conf' = Slots
        BY <1>3, Zenon DEF Sound
      <3>4. \A w \in Workers : pc'[w] \in {"add", "commit", "retry"} => job'[w].type = "add"
        BY <1>2, Zenon
      <3> QED BY <2>1, <2>2, <2>3, <3>1, <3>2, <3>3, <3>4, Zenon DEF Sound
    <2>7. ASSUME NEW t \in Slots, t # s PROVE Wins(t)'
      <3>1. Wins(t) /\ accepted'[t] = accepted[t] /\ t \in Sections
        BY <2>3, <2>7, Zenon DEF Fresh, Sections
      <3>2. \A x : Newest(x, t)' <=> Newest(x, t)
        BY <2>2, <2>7, <3>1, Zenon DEF Newest
      <3>3. \A x : Newest(x, t) => (x \in Events(queue)' <=> x \in Events(queue))
        BY <1>4, <1>5, <2>1, <2>7, Zenon DEF Newest
      <3> QED BY <1>2, <3>1, <3>2, <3>3, Zenon DEF Wins
    <2>8. ASSUME s \in Slots PROVE Wins(s)'
      <3>1. Newest(e, s)' /\ e \in Events(queue)'
        BY <1>5, <2>1, <2>2, Zenon DEF Newest
      <3>2. CASE attempts = 0
        <4>1. g = generation[s] + 1
          BY <3>2
        <4> HIDE DEF g
        <4>2. \A x : Proper(x) => ~Newest(x, s)'
          <5> SUFFICES ASSUME NEW x, Proper(x), x.section = s PROVE x.generation # g
            BY <2>2, Zenon DEF Newest
          <5>1. x.generation \in Nat /\ x.generation <= generation[s]
            BY Zenon DEF Proper, Event
          <5> QED BY <1>3, <4>1, <5>1
        <4>3. \A x \in Events(queue)' : Newest(x, s)' => x = e
          BY <1>3, <1>4, <2>1, <4>2, Zenon DEF Sound
        <4>4. \A w \in Workers : Busy(w)' => ~Newest(job[w], s)'
          <5> SUFFICES ASSUME NEW w \in Workers, Busy(w)' PROVE ~Newest(job[w], s)'
            BY Zenon
          <5>1. Proper(job[w]) /\ job'[w] = job[w]
            BY <1>2, <1>3, Zenon DEF Sound
          <5>2. ~Newest(job[w], s)' 
            BY <4>2, <5>1, Zenon DEF Newest
          <5> QED BY <5>2
        <4>5. accepted'[s] = type
          BY <2>3, <2>8, <3>2, Zenon
        <4> QED BY <1>5, <3>1, <4>3, <4>4, <4>5, Zenon DEF Wins
      <3>3. CASE attempts # 0
        <4>1. UNCHANGED <<generation, accepted>> /\ type = "add" /\ q = queue
          <5>1. g = generation[s]
            BY <3>3
          <5>2. generation' = generation
            BY <1>3, <2>1, <5>1, Zenon
          <5> QED BY <1>4, <2>3, <3>3, <5>2, Zenon DEF Request
        <4>2. PICK w \in Workers : Busy(w) /\ Newest(job[w], s) /\ job[w].type = "add"
          BY <1>8, <3>3, Zenon DEF refused, Request, Outdated, Newest
        <4>3. Wins(s) /\ (accepted[s] # "none" => accepted[s] = "add")
          BY <2>8, <4>2, Zenon DEF Fresh, Wins
        <4>4. \A x : Newest(x, s)' <=> Newest(x, s)
          BY <4>1, Zenon DEF Newest
        <4> QED BY <1>2, <1>5, <2>1, <3>1, <4>1, <4>3, <4>4, Zenon DEF Wins
      <3> QED BY <3>2, <3>3, Zenon
    <2> QED BY <2>6, <2>7, <2>8 DEF Fresh
  <1> QED BY <1>6, <1>7, <1>8

\* dequeue_event: the newest event of its slot is about to be checked
LEMMA TakeFresh ==
    ASSUME Inv, Fresh, NEW w \in Workers, Take(w)
    PROVE  Fresh'
  <1>1. PICK i \in DOMAIN queue :
           job' = [job EXCEPT ![w] = queue[i]] /\ queue' = Unlink(queue, i)
    BY Zenon DEF Take
  <1>2. PICK e : e = queue[i]
    OBVIOUS
  <1>3. /\ e \in Events(queue) /\ Events(queue)' \subseteq Events(queue)
        /\ \A x \in Events(queue) : x \in Events(queue)' \/ x = e
        /\ queue' \in Seq(Event)
    <2>1. queue \in Seq(Event)
      BY Zenon DEF Fresh, Sound
    <2>2. /\ Unlink(queue, i) \in Seq(Event) /\ Events(Unlink(queue, i)) \subseteq Events(queue)
          /\ \A x \in Events(queue) : x \in Events(Unlink(queue, i)) \/ x = queue[i]
      BY <2>1, UnlinkEvents, Zenon
    <2>3. e \in Events(queue)
      BY <1>2, Zenon DEF Events
    <2>4. Events(queue)' = Events(Unlink(queue, i))
      BY <1>1, Zenon DEF Events
    <2> QED BY <1>1, <1>2, <2>2, <2>3, <2>4, Zenon
  <1>4. UNCHANGED <<generation, accepted, handled, conf>>
    BY Zenon DEF Take, confVars, history
  <1>5. pc'[w] = "taken" /\ job'[w] = e /\ pc[w] = "looking"
    BY <1>1, <1>2, Zenon DEF Take, Inv
  <1>6. \A v \in Workers \ {w} : pc'[v] = pc[v] /\ job'[v] = job[v]
    BY <1>1, Zenon DEF Take, Inv
  <1>7. \A x : Proper(x)' <=> Proper(x)
    BY <1>4, Zenon DEF Proper
  <1>8. Sound'
    <2>1. Proper(e)
      BY <1>3, Zenon DEF Fresh, Sound
    <2>2. \A v \in Workers : Busy(v)' => Proper(job[v])'
      <3> SUFFICES ASSUME NEW v \in Workers, Busy(v)' PROVE Proper(job[v])'
        BY Zenon
      <3>1. CASE v = w
        BY <1>4, <1>5, <2>1, <3>1, Zenon DEF Proper
      <3>2. CASE v # w
        <4>1. Busy(v) /\ job'[v] = job[v]
          BY <1>6, <3>2, Zenon DEF Busy
        <4>2. Proper(job[v])
          BY <4>1, Zenon DEF Fresh, Sound
        <4> QED BY <1>4, <4>1, <4>2, Zenon DEF Proper
      <3> QED BY <3>1, <3>2, Zenon
    <2>3. \A x \in Events(queue)' : Proper(x)'
      BY <1>3, <1>7, Zenon DEF Fresh, Sound
    <2>4. \A v \in Workers : pc'[v] \in {"add", "commit", "retry"} => job'[v].type = "add"
      BY <1>5, <1>6, Zenon DEF Fresh, Sound
    <2> QED BY <1>3, <1>4, <2>2, <2>3, <2>4, Zenon DEF Fresh, Sound
  <1>9. ASSUME NEW s \in Slots PROVE Wins(s)'
    <2>1. Wins(s)
      BY DEF Fresh
    <2>2. \A x : Newest(x, s)' <=> Newest(x, s)
      BY <1>4, Zenon DEF Newest
    <2> SUFFICES ASSUME accepted[s] # "none" PROVE Wins(s)'
      BY <1>4, Zenon DEF Wins
    <2>3. \A x \in Events(queue)' : Newest(x, s)' => x.type = accepted'[s]
      BY <1>3, <1>4, <2>1, <2>2, Zenon DEF Wins
    <2>4. \A v \in Workers : Busy(v)' /\ Newest(job[v], s)' => job'[v].type = accepted'[s]
      <3> SUFFICES ASSUME NEW v \in Workers, Busy(v)', Newest(job[v], s)'
                   PROVE  job'[v].type = accepted'[s]
        BY Zenon
      <3>1. CASE v = w
        BY <1>3, <1>4, <1>5, <2>1, <3>1, Zenon DEF Wins, Newest
      <3>2. CASE v # w
        <4>1. Busy(v) /\ Newest(job[v], s) /\ job'[v] = job[v]
          BY <1>4, <1>6, <3>2, Zenon DEF Busy, Newest
        <4> QED BY <1>4, <2>1, <4>1, Zenon DEF Wins
      <3> QED BY <3>1, <3>2, Zenon
    <2>5. \/ \E x \in Events(queue)' : Newest(x, s)'
          \/ \E v \in Workers : pc'[v] = "taken" /\ Newest(job[v], s)'
          \/ handled'[s] = accepted'[s]
      <3>1. CASE \E x \in Events(queue) : Newest(x, s)
        <4>1. PICK x \in Events(queue) : Newest(x, s)
          BY <3>1
        <4>2. CASE x = e
          <5>1. Newest(job[w], s)'
            BY <1>4, <1>5, <4>1, <4>2, Zenon DEF Newest
          <5> QED BY <1>5, <5>1, Zenon
        <4>3. CASE x # e
          BY <1>3, <2>2, <4>1, <4>3, Zenon
        <4> QED BY <4>2, <4>3, Zenon
      <3>2. CASE \E v \in Workers : pc[v] = "taken" /\ Newest(job[v], s)
        <4>1. PICK v \in Workers : pc[v] = "taken" /\ Newest(job[v], s)
          BY <3>2, Zenon
        <4>2. pc'[v] = "taken" /\ Newest(job[v], s)'
          BY <1>4, <1>5, <1>6, <4>1, Zenon DEF Newest
        <4> QED BY <4>2, Zenon
      <3>3. CASE handled[s] = accepted[s]
        BY <1>4, <3>3, Zenon
      <3> QED BY <2>1, <3>1, <3>2, <3>3, Zenon DEF Wins
    <2> QED BY <2>3, <2>4, <2>5, Zenon DEF Wins
  <1> QED BY <1>8, <1>9 DEF Fresh

\* the check before process_event: only the newest event of a slot gets through
LEMMA CheckFresh ==
    ASSUME Inv, Fresh, NEW w \in Workers, CheckCurrent(w)
    PROVE  Fresh'
  <1>1. /\ UNCHANGED <<queue, generation, accepted, conf, job>> /\ pc[w] = "taken"
        /\ pc' = [pc EXCEPT ![w] = IF Current(w) THEN job[w].type ELSE "finishing"]
        /\ handled' = IF Current(w) /\ job[w].section \in Slots
                      THEN [handled EXCEPT ![job[w].section] = job[w].type] ELSE handled
    BY Zenon DEF CheckCurrent, Goto, queueVars, confVars
  <1>2. pc'[w] = (IF Current(w) THEN job[w].type ELSE "finishing") /\ Busy(w)
    BY <1>1, Zenon DEF Inv, Busy
  <1>3. \A v \in Workers \ {w} : pc'[v] = pc[v]
    BY <1>1, Zenon DEF Inv
  <1>4. Proper(job[w]) /\ job[w].type \in SlotTypes \cup {"scan"}
    BY <1>2, Zenon DEF Fresh, Sound, Proper, Event
  <1>5. \A v \in Workers : Busy(v)' => Busy(v)
    BY <1>2, <1>3, Zenon DEF Busy
  <1>6. Sound'
    <2>1. \A v \in Workers : pc'[v] \in {"add", "commit", "retry"} => job'[v].type = "add"
      <3>1. \A v \in Workers : pc[v] \in {"add", "commit", "retry"} => job[v].type = "add"
        BY Zenon DEF Fresh, Sound
      <3>2. pc'[w] \in {"add", "commit", "retry"} => job[w].type = "add"
        BY <1>2, <1>4, Zenon DEF SlotTypes
      <3> QED BY <1>1, <1>3, <3>1, <3>2, Zenon
    <2>2. DOMAIN handled' = Slots
      BY <1>1, Zenon DEF Fresh, Sound
    <2>3. Events(queue)' = Events(queue) /\ \A e : Proper(e)' <=> Proper(e)
      BY <1>1, Zenon DEF Proper, Events
    <2>4. \A v \in Workers : Busy(v)' => Proper(job[v])'
      BY <1>1, <1>5, Zenon DEF Fresh, Sound, Proper
    <2> QED BY <1>1, <2>1, <2>2, <2>3, <2>4, Zenon DEF Fresh, Sound
  <1>7. ASSUME NEW s \in Slots, accepted[s] # "none" PROVE Wins(s)'
    <2>2. Wins(s)
      BY DEF Fresh
    <2>3. \A x : Newest(x, s)' <=> Newest(x, s)
      BY <1>1, Zenon DEF Newest
    <2>4. \/ \E e \in Events(queue) : Newest(e, s)
          \/ \E v \in Workers : pc'[v] = "taken" /\ Newest(job[v], s)
          \/ handled'[s] = accepted[s]
      <3>1. CASE Current(w) /\ job[w].section = s
        <4>1. Newest(job[w], s)
          BY <3>1, Zenon DEF Current, Newest
        <4>2. job[w].type = accepted[s]
          BY <1>2, <1>7, <2>2, <4>1, Zenon DEF Wins
        <4>3. handled'[s] = job[w].type
          BY <1>1, <3>1, Zenon DEF Fresh, Sound
        <4> QED BY <4>2, <4>3, Zenon
      <3>2. CASE ~(Current(w) /\ job[w].section = s)
        <4>1. handled'[s] = handled[s] /\ ~Newest(job[w], s)
          BY <1>1, <3>2, Zenon DEF Current, Newest, Fresh, Sound
        <4> QED BY <1>3, <1>7, <2>2, <4>1, Zenon DEF Wins
      <3> QED BY <3>1, <3>2, Zenon
    <2> QED BY <1>1, <1>5, <2>2, <2>3, <2>4, Zenon DEF Wins, Events, Newest
  <1> QED BY <1>1, <1>6, <1>7, Zenon DEF Fresh, Wins

\* a passing second changes how long events wait, nothing else about them
LEMMA TickFresh ==
    ASSUME Inv, Fresh, Tick
    PROVE  Fresh'
  <1> DEFINE aged(e) == [e EXCEPT !.wait = IF @ > 0 THEN @ - 1 ELSE 0]
  <1>1. /\ queue' = [i \in DOMAIN queue |-> aged(queue[i])]
        /\ UNCHANGED <<generation, accepted, handled, conf, pc, job>>
    BY DEF Tick, workerVars, confVars, history
  <1>2. \A e \in Event : /\ aged(e) \in Event /\ aged(e).type = e.type
                         /\ aged(e).section = e.section /\ aged(e).generation = e.generation
    BY DEF Event
  <1>3. queue \in Seq(Event)
    BY Zenon DEF Fresh, Sound
  <1> HIDE DEF aged
  <1>4. queue' \in Seq(Event) /\ DOMAIN queue' = DOMAIN queue
    BY <1>1, <1>2, <1>3
  <1>5. \A x \in Events(queue)' : \E e \in Events(queue) : x = aged(e) /\ e \in Event
    BY <1>1, <1>3, <1>4 DEF Events
  <1>6. \A e \in Events(queue) : aged(e) \in Events(queue)' /\ e \in Event
    <2> SUFFICES ASSUME NEW i \in DOMAIN queue
                 PROVE  aged(queue[i]) \in Events(queue)' /\ queue[i] \in Event
      BY Zenon DEF Events
    <2>1. queue'[i] = aged(queue[i]) /\ i \in DOMAIN queue'
      BY <1>1, <1>4, Zenon
    <2> QED BY <1>3, <2>1 DEF Events
  <1>7. Sound'
    <2>1. \A x \in Events(queue)' : Proper(x)'
      <3> SUFFICES ASSUME NEW x \in Events(queue)' PROVE Proper(x)'
        OBVIOUS
      <3>1. PICK e \in Events(queue) : x = aged(e) /\ e \in Event
        BY <1>5
      <3>2. Proper(e)
        BY Zenon DEF Fresh, Sound
      <3> QED BY <1>1, <1>2, <3>1, <3>2, Zenon DEF Proper
    <2> QED BY <1>1, <1>4, <2>1, Zenon DEF Fresh, Sound, Proper, Busy
  <1>8. ASSUME NEW s \in Slots, accepted[s] # "none" PROVE Wins(s)'
    <2>1. Wins(s)
      BY DEF Fresh
    <2>2. \A x \in Events(queue)' : Newest(x, s)' => x.type = accepted'[s]
      <3> SUFFICES ASSUME NEW x \in Events(queue)', Newest(x, s)' PROVE x.type = accepted'[s]
        BY Zenon
      <3>1. PICK e \in Events(queue) : x = aged(e) /\ e \in Event
        BY <1>5, Zenon
      <3>2. Newest(e, s)
        BY <1>1, <1>2, <3>1, Zenon DEF Newest
      <3>3. e.type = accepted[s]
        BY <1>8, <2>1, <3>2, Zenon DEF Wins
      <3> QED BY <1>1, <1>2, <3>1, <3>3, Zenon
    <2>3. (\E e \in Events(queue) : Newest(e, s)) => \E x \in Events(queue)' : Newest(x, s)'
      <3> SUFFICES ASSUME NEW e \in Events(queue), Newest(e, s)
                   PROVE  \E x \in Events(queue)' : Newest(x, s)'
        BY Zenon
      <3>1. PICK x : x = aged(e)
        OBVIOUS
      <3>2. x \in Events(queue)' /\ x.section = s /\ x.generation = generation[s]
        BY <1>2, <1>6, <3>1, Zenon DEF Newest
      <3> QED BY <1>1, <3>2, Zenon DEF Newest
    <2> QED BY <1>1, <1>8, <2>1, <2>2, <2>3, Zenon DEF Wins, Newest, Busy
  <1> QED BY <1>1, <1>7, <1>8, Zenon DEF Fresh, Wins

LEMMA InitFresh == Init => Fresh
  <1> SUFFICES ASSUME Init PROVE Fresh
    OBVIOUS
  <1>1. Events(queue) = {} /\ queue \in Seq(Event)
    BY DEF Init, Events
  <1>2. \A w \in Workers : pc[w] = "looking"
    BY Zenon DEF Init
  <1>3. generation \in [Sections -> Nat] /\ accepted \in [Slots -> SlotTypes \cup {"none"}]
    BY Zenon DEF Init
  <1>4. Sound
    BY <1>1, <1>2, <1>3, Zenon DEF Init, Sound, Busy
  <1>5. \A s \in Slots : accepted[s] = "none"
    BY Zenon DEF Init
  <1> QED BY <1>4, <1>5, Zenon DEF Fresh, Wins

\* a worker that was busy goes on, to a label that runs no event afresh
LEMMA GoOnFresh ==
    ASSUME Inv, Fresh, NEW w \in Workers, NEW label, Goto(w, label),
           Busy(w), pc[w] # "taken",
           label \in {"add", "commit", "retry"} => job[w].type = "add",
           UNCHANGED <<queue, generation, accepted, handled, job>>, DOMAIN conf' = Slots
    PROVE  Fresh'
  <1>1. pc'[w] = label /\ \A v \in Workers \ {w} : pc'[v] = pc[v]
    BY Zenon DEF Goto, Inv
  <1>2. \A v \in Workers : Busy(v)' => Busy(v)
    BY <1>1, Zenon DEF Busy
  <1>3. \A v \in Workers : pc[v] = "taken" => pc'[v] = "taken"
    BY <1>1, Zenon
  <1>4. \A v \in Workers : pc'[v] \in {"add", "commit", "retry"} => job[v].type = "add"
    BY <1>1, Zenon DEF Fresh, Sound
  <1>5. Quiet
    BY <1>2, <1>3, <1>4, Zenon DEF Quiet
  <1> QED BY <1>5, QuietFresh, Zenon

\* waking sleepers takes no event
LEMMA WakeFresh ==
    ASSUME Inv, Fresh, NEW ws \in SUBSET Sleeping, pc' = Wake(ws),
           UNCHANGED <<queue, generation, accepted, handled, job, conf>>
    PROVE  Fresh'
  <1>1. \A v \in Workers : pc'[v] = pc[v] \/ (pc[v] \in Resting /\ pc'[v] = "looking")
    BY Zenon DEF Wake, Sleeping, Resting
  <1>2. \A v \in Workers : Busy(v)' => Busy(v)
    BY <1>1, Zenon DEF Busy
  <1>3. \A v \in Workers : pc[v] = "taken" => pc'[v] = "taken"
    BY <1>1, Zenon DEF Resting
  <1>4. \A v \in Workers : pc'[v] \in {"add", "commit", "retry"} => job[v].type = "add"
    BY <1>1, Zenon DEF Fresh, Sound
  <1>5. Quiet
    BY <1>2, <1>3, <1>4, Zenon DEF Quiet, Fresh, Sound
  <1> QED BY <1>5, QuietFresh

LEMMA ClientFresh ==
    ASSUME OwnersUnowned, Inv, Fresh, HandleClient
    PROVE  Fresh'
  <1>1. UNCHANGED <<job, handled, conf>>
    BY Zenon DEF HandleClient, confVars
  <1>2. Calling({}, "")
    BY DEF Calling
  <1>3. \A d \in Delays : d \in Nat
    BY TimeAssumption
  <1>4. 0 \in 0..RetryMax
    BY TimeAssumption
  <1>5. ASSUME NEW type \in {"add", "disable"}, NEW s \in Slots, NEW d \in Delays
        PROVE  Request(type, Owner[s], d, 0, NoJob)
    BY <1>3, <1>4, SlotAssumption, Zenon DEF OwnersUnowned, Request, SlotTypes, Sections
  <1>6. ASSUME NEW s \in Slots, NEW d \in Delays PROVE Request("remove", s, d, 0, NoJob)
    BY <1>3, <1>4, SlotAssumption, Zenon DEF Request, SlotTypes, Sections
  <1>7. ASSUME NEW d \in Delays PROVE Request("scan", ScanSection, d, 0, NoJob)
    BY <1>3, <1>4, SlotAssumption, Zenon DEF Request, SlotTypes, Sections
  <1>8. \E type, s, d : /\ Request(type, s, d, 0, NoJob)
                        /\ EnqueueEventEx(type, s, d, 0, NoJob, {}, "")
    BY <1>5, <1>6, <1>7, Zenon DEF HandleClient
  <1> QED BY <1>1, <1>2, <1>8, EnqueueFresh, Zenon

LEMMA RetryFresh ==
    ASSUME Inv, Fresh, NEW w \in Workers, Retry(w)
    PROVE  Fresh'
  <1>1. UNCHANGED <<job, handled, conf>> /\ Busy(w) /\ pc[w] = "retry"
    BY Zenon DEF Retry, confVars, Busy
  <1>2. Proper(job[w]) /\ job[w].type = "add"
    BY <1>1, Zenon DEF Fresh, Sound
  <1>3. CASE job[w].attempts < RetryMax
    <2> DEFINE s == job[w].section
               a == job[w].attempts + 1
    <2>1. s \in Slots /\ s \in Sections /\ Owner[s] = s /\ s # ScanSection
      BY <1>2, SlotAssumption, ZenonT(30) DEF Proper, Sections
    <2>2. a \in 0..RetryMax /\ RetryDelay \in Nat
      BY <1>2, <1>3, TimeAssumption DEF Proper, Event
    <2>3. EnqueueEventEx("add", s, RetryDelay, a, job[w], {w}, "finishing")
      BY <1>3, <2>1, Zenon DEF Retry
    <2>4. Request("add", s, RetryDelay, a, job[w])
      BY <1>1, <1>2, <2>1, <2>2, Zenon DEF Request, SlotTypes
    <2>5. Calling({w}, "finishing")
      BY <1>1 DEF Calling
    <2>6. PICK t, b, c : t = s /\ b = a /\ c = job[w]
      BY Zenon
    <2> HIDE DEF s, a
    <2>7. /\ Request("add", t, RetryDelay, b, c)
          /\ EnqueueEventEx("add", t, RetryDelay, b, c, {w}, "finishing")
      BY <2>3, <2>4, <2>6, Zenon
    <2> QED BY <1>1, <2>5, <2>7, EnqueueFresh, Zenon
  <1>4. CASE ~(job[w].attempts < RetryMax)
    <2>1. Goto(w, "finishing") /\ UNCHANGED <<queue, generation, accepted>>
      BY <1>4, Zenon DEF Retry, queueVars
    <2>2. DOMAIN conf' = Slots
      BY <1>1, Zenon DEF Fresh, Sound
    <2> QED BY <1>1, <2>1, <2>2, GoOnFresh, Zenon
  <1> QED BY <1>3, <1>4, Zenon

LEMMA AddFoundFresh ==
    ASSUME OwnersUnowned, Inv, Fresh, found \in [Workers -> SUBSET Slots],
           NEW w \in Workers, AddFound(w)
    PROVE  Fresh'
  <1>1. UNCHANGED <<job, handled, conf>> /\ Calling({w}, "adding")
    BY ZenonT(30) DEF AddFound, confVars, Calling, Busy
  <1>2. PICK s \in found[w] : EnqueueEventEx("add", Owner[s], 0, 0, job[w], {w}, "adding")
    BY Zenon DEF AddFound
  <1>3. Request("add", Owner[s], 0, 0, job[w])
    BY TimeAssumption, SlotAssumption DEF OwnersUnowned, Request, SlotTypes, Sections
  <1>4. PICK c : c = job[w]
    OBVIOUS
  <1>5. /\ Request("add", Owner[s], 0, 0, c)
        /\ EnqueueEventEx("add", Owner[s], 0, 0, c, {w}, "adding")
    BY <1>2, <1>3, <1>4, Zenon
  <1> QED BY <1>1, <1>5, EnqueueFresh, Zenon

\* scans find slots
FoundSlots == found \in [Workers -> SUBSET Slots]

LEMMA NextFound == FoundSlots /\ [Next]_vars => FoundSlots'
  <1> SUFFICES ASSUME FoundSlots, [Next]_vars PROVE FoundSlots'
    OBVIOUS
  <1>1. \/ UNCHANGED found
        \/ \E w \in Workers : Enumerate(w) \/ AddFound(w)
    BY Zenon DEF Next, Look, Process, HandleClient, SigHandler, LeaveLoop, Tick, SetFixed, Take,
           Sleep, Exit, TimeOut, CheckCurrent, Probe, CommitAdd, Retry, StopDialer,
           DeleteSection, DisableSlot, AllFoundAdded, Finish, vars, workerVars
  <1>2. ASSUME NEW w \in Workers, Enumerate(w) \/ AddFound(w)
        PROVE  \E ss \in SUBSET Slots : found' = [found EXCEPT ![w] = ss]
    BY <1>2, Zenon DEF Enumerate, AddFound, FoundSlots
  <1> QED BY <1>1, <1>2, Zenon DEF FoundSlots

LEMMA NextFresh == OwnersUnowned /\ Inv /\ FoundSlots /\ Fresh /\ [Next]_vars => Fresh'
  <1> SUFFICES ASSUME OwnersUnowned, Inv, FoundSlots, Fresh, [Next]_vars PROVE Fresh'
    OBVIOUS
  <1> USE DEF queueVars, activeVars, workerVars, confVars, mainVars, history
  <1>0. DOMAIN conf = Slots
    BY Zenon DEF Fresh, Sound
  <1>1. CASE HandleClient
    BY <1>1, ClientFresh, Zenon
  <1>2. CASE SigHandler \/ LeaveLoop
    <2>1. PICK ws \in SUBSET Sleeping : pc' = Wake(ws)
      BY <1>2, Zenon DEF SigHandler, LeaveLoop
    <2> QED BY <1>2, <2>1, WakeFresh, Zenon DEF SigHandler, LeaveLoop
  <1>3. CASE Tick
    BY <1>3, TickFresh
  <1>4. CASE SetFixed \/ UNCHANGED vars
    <2>1. UNCHANGED <<queue, generation, accepted, handled, conf, pc, job>>
      BY <1>4, Zenon DEF SetFixed, vars
    <2>2. Quiet
      BY <1>0, <2>1, Zenon DEF Quiet, Busy, Fresh, Sound
    <2> QED BY <2>1, <2>2, QuietFresh, Zenon
  <1>5. ASSUME NEW w \in Workers, Take(w) PROVE Fresh'
    BY <1>5, TakeFresh, Zenon
  <1>6. ASSUME NEW w \in Workers, Sleep(w) \/ Exit(w) \/ TimeOut(w) PROVE Fresh'
    <2>1. UNCHANGED <<queue, generation, accepted, handled, conf, job>>
      BY <1>6, Zenon DEF Sleep, Exit, TimeOut
    <2>2. pc[w] \in Resting /\ \E label \in Resting : pc' = [pc EXCEPT ![w] = label]
      BY <1>6, Zenon DEF Sleep, Exit, TimeOut, Resting
    <2>3. pc'[w] \in Resting /\ \A v \in Workers \ {w} : pc'[v] = pc[v]
      BY <2>2, Zenon DEF Inv
    <2>4. Quiet
      BY <1>0, <2>1, <2>2, <2>3, Zenon DEF Quiet, Busy, Resting, Fresh, Sound
    <2> QED BY <2>1, <2>4, QuietFresh
  <1>7. ASSUME NEW w \in Workers, CheckCurrent(w) PROVE Fresh'
    BY <1>7, CheckFresh
  <1>8. ASSUME NEW w \in Workers, Probe(w) PROVE Fresh'
    <2>1. /\ UNCHANGED <<queue, generation, accepted, handled, conf, job>>
          /\ pc[w] = "add" /\ Busy(w) /\ \E label : Goto(w, label)
      BY <1>8, Zenon DEF Probe, Busy
    <2>2. job[w].type = "add"
      BY <2>1, Zenon DEF Fresh, Sound
    <2> QED BY <1>0, <2>1, <2>2, GoOnFresh, Zenon
  <1>9. ASSUME NEW w \in Workers, CommitAdd(w) \/ StopDialer(w) \/ DeleteSection(w)
                  \/ DisableSlot(w) \/ Enumerate(w) \/ AllFoundAdded(w)
        PROVE Fresh'
    <2>1. /\ UNCHANGED <<queue, generation, accepted, handled, job>> /\ DOMAIN conf' = Slots
          /\ Busy(w) /\ pc[w] # "taken"
      BY <1>0, <1>9, Zenon DEF CommitAdd, StopDialer, DeleteSection, DisableSlot, Enumerate,
                        AllFoundAdded, Busy
    <2>2. PICK label \in {"finishing", "delete", "adding"} : Goto(w, label)
      BY <1>9, Zenon DEF CommitAdd, StopDialer, DeleteSection, DisableSlot, Enumerate,
                  AllFoundAdded
    <2> QED BY <2>1, <2>2, GoOnFresh, Zenon
  <1>10. ASSUME NEW w \in Workers, Retry(w) PROVE Fresh'
    BY <1>10, RetryFresh
  <1>11. ASSUME NEW w \in Workers, AddFound(w) PROVE Fresh'
    BY <1>11, AddFoundFresh, Zenon DEF FoundSlots
  <1>12. ASSUME NEW w \in Workers, Finish(w) PROVE Fresh'
    <2>1. /\ UNCHANGED <<queue, generation, accepted, handled, conf>>
          /\ pc[w] = "finishing" /\ pc' = [Wake(Sleeping) EXCEPT ![w] = "looking"]
          /\ job' = [job EXCEPT ![w] = NoJob]
      BY <1>12, Zenon DEF Finish
    <2>2. /\ pc'[w] = "looking"
          /\ \A v \in Workers \ {w} :
                /\ pc'[v] = pc[v] \/ (pc[v] \in Resting /\ pc'[v] = "looking")
                /\ job'[v] = job[v]
      BY <2>1, Zenon DEF Wake, Sleeping, Resting, Inv
    <2>3. \A v \in Workers : Busy(v)' => Busy(v) /\ job'[v] = job[v]
      BY <2>2, Zenon DEF Busy
    <2>4. \A v \in Workers : pc[v] = "taken" => pc'[v] = "taken" /\ job'[v] = job[v]
      BY <2>1, <2>2, Zenon DEF Resting
    <2>5. \A v \in Workers : pc'[v] \in {"add", "commit", "retry"} => job[v].type = "add"
      BY <2>2, Zenon DEF Fresh, Sound
    <2>6. Quiet
      BY <1>0, <2>1, <2>3, <2>4, <2>5, Zenon DEF Quiet
    <2> QED BY <2>1, <2>6, QuietFresh, Zenon
  <1> QED BY <1>1, <1>2, <1>3, <1>4, <1>5, <1>6, <1>7, <1>8, <1>9, <1>10, <1>11, <1>12, Zenon
          DEF Next, Look, Process

\* When a slot has come to rest, the event that ran last is the last one queued for
\* it: an add that a newer request overtook is neither committed nor retried, and
\* the newer request is not taken for a stale one.
THEOREM LastQueuedRuns == OwnersUnowned => (Spec => []QueuedRequestWins)
  <1> SUFFICES ASSUME OwnersUnowned PROVE Spec => []QueuedRequestWins
    OBVIOUS
  <1>1. Inv /\ Fresh => QueuedRequestWins
    <2> SUFFICES ASSUME Fresh, NEW s \in Slots, Idle(s), accepted[s] # "none"
                 PROVE  handled[s] = accepted[s]
      BY Zenon DEF QueuedRequestWins
    <2>1. ~\E e \in Events(queue) : Newest(e, s)
      BY Zenon DEF Idle, Events, Newest
    <2>2. ~\E w \in Workers : pc[w] = "taken" /\ Newest(job[w], s)
      BY Zenon DEF Idle, Newest, Busy
    <2> QED BY <2>1, <2>2, Zenon DEF Fresh, Wins
  <1>2. Init => FoundSlots
    BY Zenon DEF Init, FoundSlots
  <1>3. Inv /\ FoundSlots /\ Fresh /\ [Next]_vars => Fresh'
    BY NextFresh
  <1> QED BY <1>1, <1>2, <1>3, InitInv, NextInv, NextFound, InitFresh, PTL DEF Spec

\* add_modem writes a section as enabled only while no disable or remove is the last
\* request queued for it: the generation is compared under queue_lock.
THEOREM CommitsAreCurrent == OwnersUnowned => (Spec => NoStaleCommit)
  <1> SUFFICES ASSUME OwnersUnowned PROVE Spec => NoStaleCommit
    OBVIOUS
  <1> DEFINE Kept == \A s \in Slots : conf[s] # "enabled" /\ conf'[s] = "enabled"
                        => accepted[s] # "disable" /\ accepted[s] # "remove"
  <1>1. Fresh /\ [Next]_vars => [Kept]_vars
    <2> SUFFICES ASSUME Fresh, Next, NEW s \in Slots, conf[s] # "enabled",
                        conf'[s] = "enabled"
                 PROVE  accepted[s] # "disable" /\ accepted[s] # "remove"
      BY Zenon
    <2>1. \/ UNCHANGED conf
          \/ \E w \in Workers : CommitAdd(w) \/ DeleteSection(w) \/ DisableSlot(w)
      BY Zenon DEF Next, Look, Process, HandleClient, SigHandler, LeaveLoop, Tick, SetFixed,
             Take, Sleep, Exit, TimeOut, CheckCurrent, Probe, Retry, StopDialer,
             Enumerate, AddFound, AllFoundAdded, Finish, confVars
    <2>2. PICK w \in Workers : CommitAdd(w)
      <3>1. \A v \in Workers : ~DeleteSection(v) /\ ~DisableSlot(v)
        BY Zenon DEF DeleteSection, DisableSlot, Fresh, Sound
      <3> QED BY <2>1, <3>1
    <2>3. pc[w] = "commit" /\ Current(w) /\ job[w].section = s
      BY <2>2, Zenon DEF CommitAdd, Fresh, Sound
    <2>4. Busy(w) /\ Newest(job[w], s) /\ job[w].type = "add"
      BY <2>3, Zenon DEF Busy, Newest, Current, Fresh, Sound
    <2> QED BY <2>4, Zenon DEF Fresh, Wins
  <1>2. Init => FoundSlots
    BY DEF Init, FoundSlots
  <1>3. Inv /\ FoundSlots /\ Fresh /\ [Next]_vars => Fresh'
    BY NextFresh
  <1> QED BY <1>1, <1>2, <1>3, InitInv, NextInv, NextFound, InitFresh, PTL
          DEF Spec, NoStaleCommit
-------------------------------------------------------------------------------
(* Commands and answers (AtCommand): what holds as long as no line reads   *)
(* like the answer to another command                                      *)

\* no line of s belongs to an answer
Urcs(s) == \A k \in 1..Len(s) : s[k].cmd = 0

\* no unsolicited line of s is one that an end flag matches
Unlike(s) == \A k \in 1..Len(s) : s[k].cmd = 0 => \A t \in CommandTypes : s[k].kind \notin t.flags

\* what the reader still holds of what it read before a command was waiting: unsolicited
\* lines, after the line that ended the command before
Leftover ==
    \/ Urcs(chunk)
    \/ rpc = "enqueue" /\ is_terminal = TRUE /\ Urcs(Tail(chunk))

\* c is the end of s
Suffix(c, s) ==
    /\ Len(c) <= Len(s)
    /\ \A i \in 1..Len(c) : c[i] = s[Len(s) - Len(c) + i]

\* all that the modem has said since the command was prepared and all it will say
Collected == said \o (IF rpc = "collect" THEN chunk ELSE <<>>)
Stream == (Collected \o wire) \o pending

\* line l ended command c
EndedBy(c, l) ==
    \/ /\ upc = "wait" /\ waiting = FALSE
       /\ c = active_command_id /\ l = ended_by
    \/ \E r \in results : r.id = c /\ r.ended_by = l

Asking == upc = "wait" /\ waiting = TRUE

\* the lines on their way
Lines ==
    /\ Unlike(chunk) /\ Unlike(wire)
    /\ \A k \in 1..Len(pending) : pending[k].cmd # 0

\* the command of the ubus thread
Command ==
    /\ upc # "idle" => \E t \in CommandTypes : flags = t.flags /\ answer = t.answer
    /\ flags = {} \/ \E t \in CommandTypes : flags = t.flags
    /\ upc = "prepared" => waiting = TRUE /\ Urcs(said)

\* nobody waits: there is nothing but unsolicited lines
Silent == ~Asking => pending = <<>> /\ Urcs(wire) /\ Leftover

Answered ==
    upc = "wait" /\ waiting = FALSE =>
        ended_by.cmd = active_command_id /\ Answers(said, answer, active_command_id)

Arriving ==
    Asking => /\ Answers(Stream, answer, active_command_id)
              /\ rpc \in {"lines", "check", "match", "enqueue"} =>
                     Leftover \/ Suffix(chunk, said)

Matching ==
    /\ rpc = "match" => /\ Head(chunk).cmd # 0 /\ Head(chunk).kind \in flags
                        /\ is_terminal = TRUE
    /\ rpc \in {"check", "match"} /\ Head(chunk).cmd # 0 => command_id = active_command_id
    /\ rpc = "enqueue" /\ is_terminal = TRUE => EndedBy(command_id, Head(chunk))

Told ==
    /\ \A e \in events : e.correlation = "terminal" => EndedBy(e.command_id, e.line)
    /\ \A r \in results : r.status = "done" =>
           /\ r.ended_by.cmd = r.id
           /\ \E t \in CommandTypes : Answers(r.said, t.answer, r.id)

CommandInv == Lines /\ Command /\ Silent /\ Answered /\ Arriving /\ Matching /\ Told
NoStray == Strays = 0 => CommandInv

-------------------------------------------------------------------------------
(* The lines of an answer in a stream of lines                             *)

\* at says where the lines of answer a to command n are among the lines of s
Places(at, s, a, n) ==
    /\ \A i, j \in 1..Len(a) : i < j => at[i] < at[j]
    /\ \A i \in 1..Len(a) : s[at[i]] = [kind |-> a[i], cmd |-> n]
    /\ \A k \in 1..Len(s) : s[k].cmd # 0 => \E i \in 1..Len(a) : at[i] = k

LEMMA PlacesOf ==
    ASSUME NEW s, NEW a, NEW n
    PROVE  Answers(s, a, n) <=> \E at \in [1..Len(a) -> 1..Len(s)] : Places(at, s, a, n)
BY Zenon DEF Answers, Places

\* an unsolicited line in between does not disturb an answer
LEMMA UrcInserted ==
    ASSUME NEW s \in Seq(Line), NEW t \in Seq(Line), NEW l \in Line, l.cmd = 0,
           NEW a \in Seq(Kinds), NEW n \in Nat, Answers(s \o t, a, n)
    PROVE  Answers(Append(s, l) \o t, a, n)
<1> DEFINE w == s \o t
           u == Append(s, l) \o t
           p == Len(s)
           q == Len(t)
<1>1. p \in Nat /\ q \in Nat /\ Len(w) = p + q /\ Len(u) = p + q + 1
    OBVIOUS
<1>2. /\ \A k \in 1..p : u[k] = w[k]
      /\ u[p + 1] = l
      /\ \A k \in p + 1 .. p + q : u[k + 1] = w[k]
    OBVIOUS
<1>3. PICK at \in [1..Len(a) -> 1..Len(w)] : Places(at, w, a, n)
    BY PlacesOf, Zenon
<1> DEFINE to == [i \in 1..Len(a) |-> IF at[i] <= p THEN at[i] ELSE at[i] + 1]
<1> HIDE DEF u, w, p, q
<1>4. ASSUME NEW i \in 1..Len(a)
      PROVE  /\ at[i] \in 1 .. p + q
             /\ to[i] = IF at[i] <= p THEN at[i] ELSE at[i] + 1
    BY <1>1, Zenon
<1>5. to \in [1..Len(a) -> 1..Len(u)]
    BY <1>1, <1>4
<1> HIDE DEF to
<1>6. ASSUME NEW i \in 1..Len(a), NEW j \in 1..Len(a), i < j PROVE to[i] < to[j]
    <2>1. at[i] < at[j]
        BY <1>3, <1>6, Zenon DEF Places
    <2> QED BY <1>1, <1>4, <2>1
<1>7. ASSUME NEW i \in 1..Len(a) PROVE u[to[i]] = [kind |-> a[i], cmd |-> n]
    <2>1. w[at[i]] = [kind |-> a[i], cmd |-> n]
        BY <1>3, Zenon DEF Places
    <2>2. CASE at[i] \in 1..p
        BY <1>1, <1>2, <1>4, <2>1, <2>2
    <2>3. CASE at[i] \in p + 1 .. p + q
        <3>1. to[i] = at[i] + 1
            BY <1>1, <1>4, <2>3
        <3> QED BY <1>2, <2>1, <2>3, <3>1, Zenon
    <2> QED BY <1>1, <1>4, <2>2, <2>3
<1>8. ASSUME NEW k \in 1..Len(u), u[k].cmd # 0 PROVE \E i \in 1..Len(a) : to[i] = k
    <2>1. CASE k <= p
        <3>1. k \in 1..Len(w) /\ w[k].cmd # 0
            BY <1>1, <1>2, <1>8, <2>1
        <3>2. PICK i \in 1..Len(a) : at[i] = k
            BY <1>3, <3>1, Zenon DEF Places
        <3> QED BY <1>4, <2>1, <3>2, Zenon
    <2>2. CASE k = p + 1
        BY <1>2, <1>8, <2>2, Zenon
    <2>3. CASE k >= p + 2
        <3>1. k - 1 \in p + 1 .. p + q /\ k = (k - 1) + 1
            BY <1>1, <2>3
        <3>2. k - 1 \in 1..Len(w) /\ w[k - 1].cmd # 0
            BY <1>1, <1>2, <1>8, <3>1
        <3>3. PICK i \in 1..Len(a) : at[i] = k - 1
            BY <1>3, <3>2, Zenon DEF Places
        <3>4. ~(at[i] <= p) /\ at[i] + 1 = k
            BY <1>1, <3>1, <3>3
        <3> QED BY <1>4, <3>4, Zenon
    <2> QED BY <1>1, <2>1, <2>2, <2>3
<1>9. Places(to, u, a, n)
    BY <1>6, <1>7, <1>8, Zenon DEF Places
<1> QED BY <1>5, <1>9, PlacesOf, Zenon DEF u

\* unsolicited lines at the end do not belong to an answer
LEMMA UrcsDropped ==
    ASSUME NEW s \in Seq(Line), NEW t \in Seq(Line), Urcs(t),
           NEW a \in Seq(Kinds), NEW n \in Nat \ {0}, Answers(s \o t, a, n)
    PROVE  Answers(s, a, n)
<1> DEFINE w == s \o t
           p == Len(s)
           q == Len(t)
<1>1. p \in Nat /\ q \in Nat /\ Len(w) = p + q
    OBVIOUS
<1>2. /\ \A k \in 1..p : w[k] = s[k]
      /\ \A k \in p + 1 .. p + q : w[k] = t[k - p]
    OBVIOUS
<1>3. PICK at \in [1..Len(a) -> 1..Len(w)] : Places(at, w, a, n)
    BY PlacesOf, Zenon
<1> HIDE DEF w
<1>4. ASSUME NEW i \in 1..Len(a) PROVE at[i] \in 1..p
    <2>1. at[i] \in 1 .. p + q
        BY <1>1, Zenon
    <2>2. SUFFICES ASSUME at[i] \in p + 1 .. p + q PROVE FALSE
        BY <1>1, <2>1
    <2>3. at[i] - p \in 1..q /\ w[at[i]] = t[at[i] - p]
        BY <1>1, <1>2, <2>2
    <2>4. w[at[i]] = [kind |-> a[i], cmd |-> n]
        BY <1>3, Zenon DEF Places
    <2>5. t[at[i] - p].cmd = 0
        BY <2>3, Zenon DEF Urcs
    <2> QED BY <2>3, <2>4, <2>5
<1>5. at \in [1..Len(a) -> 1..Len(s)]
    BY <1>4
<1>6. Places(at, s, a, n)
    <2>1. ASSUME NEW i \in 1..Len(a) PROVE s[at[i]] = [kind |-> a[i], cmd |-> n]
        BY <1>2, <1>3, <1>4, Zenon DEF Places
    <2>2. ASSUME NEW k \in 1..Len(s), s[k].cmd # 0 PROVE \E i \in 1..Len(a) : at[i] = k
        <3>1. k \in 1..Len(w) /\ w[k].cmd # 0
            BY <1>1, <1>2, <2>2
        <3> QED BY <1>3, <3>1, Zenon DEF Places
    <2> QED BY <1>3, <2>1, <2>2, Zenon DEF Places
<1> QED BY <1>5, <1>6, PlacesOf, Zenon

\* an answer that follows unsolicited lines
LEMMA AnswerAppended ==
    ASSUME NEW s \in Seq(Line), Urcs(s), NEW a \in Seq(Kinds), NEW n \in Nat
    PROVE  LET b == [i \in DOMAIN a |-> [kind |-> a[i], cmd |-> n]]
           IN  b \in Seq(Line) /\ Answers(s \o b, a, n)
<1> DEFINE b == [i \in DOMAIN a |-> [kind |-> a[i], cmd |-> n]]
           u == s \o b
           p == Len(s)
           at == [i \in 1..Len(a) |-> p + i]
<1>1. DOMAIN a = 1..Len(a) /\ Len(a) \in Nat /\ p \in Nat
    OBVIOUS
<1>2. ASSUME NEW i \in 1..Len(a) PROVE b[i] = [kind |-> a[i], cmd |-> n] /\ b[i] \in Line
    <2>1. a[i] \in Kinds
        OBVIOUS
    <2> QED BY <1>1, <2>1, Zenon DEF Line
<1>3. b \in [1..Len(a) -> Line]
    <2>1. b = [i \in 1..Len(a) |-> [kind |-> a[i], cmd |-> n]]
        BY <1>1, Zenon
    <2> QED BY <1>2, <2>1, Zenon
<1> HIDE DEF b
<1>4. b \in Seq(Line) /\ Len(b) = Len(a)
    BY <1>1, <1>3
<1>5. /\ Len(u) = p + Len(a)
      /\ \A k \in 1..p : u[k] = s[k]
      /\ \A k \in 1..Len(a) : u[p + k] = b[k]
    BY <1>4
<1> HIDE DEF u
<1>6. ASSUME NEW i \in 1..Len(a) PROVE at[i] = p + i
    OBVIOUS
<1>7. at \in [1..Len(a) -> 1..Len(u)]
    BY <1>1, <1>5
<1> HIDE DEF at
<1>8. ASSUME NEW k \in 1..Len(u), u[k].cmd # 0 PROVE \E i \in 1..Len(a) : at[i] = k
    <2>1. k > p
        BY <1>1, <1>5, <1>8 DEF Urcs
    <2>2. k - p \in 1..Len(a) /\ p + (k - p) = k
        BY <1>1, <1>5, <2>1
    <2> HIDE DEF p
    <2> QED BY <1>6, <2>2
<1>9. ASSUME NEW i \in 1..Len(a) PROVE u[at[i]] = [kind |-> a[i], cmd |-> n]
    BY <1>2, <1>5, <1>6, Zenon
<1>10. ASSUME NEW i \in 1..Len(a), NEW j \in 1..Len(a), i < j PROVE at[i] < at[j]
    BY <1>1, <1>6, <1>10
<1>11. Places(at, u, a, n)
    BY <1>8, <1>9, <1>10, Zenon DEF Places
<1> QED BY <1>4, <1>7, <1>11, PlacesOf, Zenon DEF u, b

\* after the line that an end flag of the command matches come unsolicited lines only
LEMMA EndIsLast ==
    ASSUME NEW s \in Seq(Line), NEW t \in CommandTypes, NEW n \in Nat,
           Answers(s, t.answer, n),
           NEW k \in 1..Len(s), s[k].cmd # 0, s[k].kind \in t.flags
    PROVE  s[k].cmd = n /\ \A j \in k + 1 .. Len(s) : s[j].cmd = 0
<1> DEFINE a == t.answer
<1>1. a \in Seq(Kinds) /\ \A i \in 1..Len(a) : a[i] \in t.flags <=> i = Len(a)
    BY CommandAssumption
<1>2. PICK at \in [1..Len(a) -> 1..Len(s)] : Places(at, s, a, n)
    BY PlacesOf, Zenon
<1> HIDE DEF a
<1>3. PICK i \in 1..Len(a) : at[i] = k
    BY <1>2, Zenon DEF Places
<1>4. s[k] = [kind |-> a[i], cmd |-> n]
    BY <1>2, <1>3, Zenon DEF Places
<1>5. i = Len(a)
    BY <1>1, <1>4
<1>6. ASSUME NEW j \in k + 1 .. Len(s), s[j].cmd # 0 PROVE FALSE
    <2>1. j \in 1..Len(s) /\ k < j
        OBVIOUS
    <2>2. PICK m \in 1..Len(a) : at[m] = j
        BY <1>2, <1>6, <2>1, Zenon DEF Places
    <2>3. m = i \/ m < i
        BY <1>1, <1>5
    <2>4. m < i => at[m] < at[i]
        BY <1>2, Zenon DEF Places
    <2> QED BY <1>3, <2>1, <2>2, <2>3, <2>4
<1> QED BY <1>4, <1>6

-------------------------------------------------------------------------------
(* Types                                                                   *)

\* a command is numbered when it is prepared, and keeps its number until it returns
CommandTyped ==
    /\ CommandTypeOK
    /\ upc = "parsed" => next_command_id < MaxCommands
    /\ upc \in {"prepared", "wait"} => active_command_id \in 1..MaxCommands
    /\ chunk = <<>> <=> rpc = "read"

LEMMA AnswerTyped ==
    ASSUME NEW t \in CommandTypes, NEW n \in Nat
    PROVE  /\ t.flags \subseteq Kinds /\ t.answer \in Seq(Kinds)
           /\ [i \in DOMAIN t.answer |-> [kind |-> t.answer[i], cmd |-> n]] \in Seq(Line)
<1>1. t.flags \subseteq Kinds /\ t.answer \in Seq(Kinds)
    BY CommandAssumption, Zenon
<1>2. <<>> \in Seq(Line) /\ Urcs(<<>>)
    BY DEF Urcs
<1> QED BY <1>1, <1>2, AnswerAppended, Zenon

\* what is left of the lines read when the first is handled
LEMMA NextLine ==
    ASSUME NEW c \in Seq(Line), c # <<>>
    PROVE  /\ Head(c) \in Line /\ Head(c) = c[1] /\ Len(c) \in Nat \ {0}
           /\ Tail(c) \in Seq(Line) /\ Len(Tail(c)) = Len(c) - 1
           /\ \A k \in 1 .. Len(c) - 1 : Tail(c)[k] = c[k + 1]
           /\ Tail(c) = <<>> <=> ~(Len(c) > 1)
<1>1. Len(c) \in Nat \ {0} /\ Head(c) = c[1] /\ c[1] \in Line
    OBVIOUS
<1>2. /\ Tail(c) \in Seq(Line) /\ Len(Tail(c)) = Len(c) - 1
      /\ \A k \in 1 .. Len(c) - 1 : Tail(c)[k] = c[k + 1]
    OBVIOUS
<1>3. Tail(c) = <<>> <=> Len(Tail(c)) = 0
    BY <1>2, EmptySeq, Zenon
<1> QED BY <1>1, <1>2, <1>3

LEMMA CommandTypedInit == CommandInit => CommandTyped
<1> SUFFICES ASSUME CommandInit PROVE CommandTyped
    OBVIOUS
<1>1. <<>> \in Seq(Line) /\ <<>> \in Seq(Kinds)
    OBVIOUS
<1>2. 0 \in 0..MaxCommands /\ 0 \in Nat /\ Len(<<>>) <= MaxResponse
    BY CommandBounds
<1>3. CommandTypeOK
    BY <1>1, <1>2, Zenon DEF CommandInit, CommandTypeOK
<1> QED BY <1>3, Zenon DEF CommandInit, CommandTyped

LEMMA StoreTyped ==
    ASSUME CommandTyped, Store
    PROVE  said' \in Seq(Line) /\ response' \in Seq(Line) /\ Len(response') <= MaxResponse
<1>1. /\ waiting \in BOOLEAN /\ said \in Seq(Line) /\ response \in Seq(Line)
      /\ chunk \in Seq(Line) /\ Len(response) <= MaxResponse
    BY Zenon DEF CommandTyped, CommandTypeOK
<1>2. /\ said \o chunk \in Seq(Line) /\ response \o chunk \in Seq(Line)
      /\ Len(response \o chunk) = Len(response) + Len(chunk)
    BY <1>1, ConcatProperties, Zenon
<1> QED BY <1>1, <1>2, Zenon DEF Store

LEMMA CommandTypedNext == CommandTyped /\ [CommandNext]_commandVars => CommandTyped'
<1> SUFFICES ASSUME CommandTyped, [CommandNext]_commandVars PROVE CommandTyped'
    OBVIOUS
<1> USE CommandBounds
<1>1. CASE ModemAnswers
    BY <1>1 DEF ModemAnswers, CommandTyped, CommandTypeOK, port, calling, reading
<1>2. CASE ModemUrc
    <2>1. PICK k \in UrcKinds : wire' = Append(wire, [kind |-> k, cmd |-> 0])
        BY <1>2, Zenon DEF ModemUrc
    <2>2. [kind |-> k, cmd |-> 0] \in Line
        <3>1. k \in Kinds
            BY Zenon DEF Kinds
        <3> QED BY <3>1, Zenon DEF Line
    <2>3. wire' \in Seq(Line)
        BY <2>1, <2>2 DEF CommandTyped, CommandTypeOK
    <2>4. urcs' \in Nat /\ alike' \in Nat
        <3>1. alike' = alike + 1 \/ alike' = alike
            BY <1>2, Zenon DEF ModemUrc
        <3> QED BY <1>2, <3>1 DEF ModemUrc, CommandTyped, CommandTypeOK
    <2>5. UNCHANGED <<port, calling, reading, pending>>
        BY <1>2, Zenon DEF ModemUrc
    <2> QED BY <2>3, <2>4, <2>5, ZenonT(30) DEF CommandTyped, CommandTypeOK, port, calling, reading
<1>3. CASE ParseEndFlags
    <2>1. PICK t \in CommandTypes : flags' = t.flags /\ answer' = t.answer
        BY <1>3, Zenon DEF ParseEndFlags
    <2>2. flags' \subseteq Kinds /\ answer' \in Seq(Kinds)
        BY <2>1, AnswerTyped, Zenon
    <2> QED BY <1>3, <2>2, Zenon DEF ParseEndFlags, CommandTyped, CommandTypeOK, reading, modem
<1>4. CASE Prepare
    <2>1. <<>> \in Seq(Line)
        OBVIOUS
    <2> QED BY <1>4, <2>1 DEF Prepare, CommandTyped, CommandTypeOK, reading, modem
<1>5. CASE Write
    <2>1. [i \in DOMAIN answer |-> [kind |-> answer[i], cmd |-> active_command_id]] \in Seq(Line)
        <3>1. <<>> \in Seq(Line) /\ Urcs(<<>>)
            BY DEF Urcs
        <3>2. answer \in Seq(Kinds) /\ active_command_id \in Nat
            BY DEF CommandTyped, CommandTypeOK
        <3> QED BY <3>1, <3>2, AnswerAppended, Zenon
    <2>2. pending' \in Seq(Line)
        BY <1>5, <2>1, ConcatProperties, Zenon DEF Write, Accept, CommandTyped, CommandTypeOK
    <2> QED BY <1>5, <2>2, Zenon DEF Write, CommandTyped, CommandTypeOK, port, reading
<1>6. CASE WriteFails
    <2>1. \A r \in results' : r.id \in 1..MaxCommands
        BY <1>6, Zenon DEF WriteFails, Result, CommandTyped, CommandTypeOK
    <2> QED BY <1>6, <2>1, Zenon DEF WriteFails, CommandTyped, CommandTypeOK, reading, modem
<1>7. CASE Wakeup
    <2>1. \A r \in results' : r.id \in 1..MaxCommands
        BY <1>7 DEF Wakeup, Result, CommandTyped, CommandTypeOK
    <2> QED BY <1>7, <2>1 DEF Wakeup, CommandTyped, CommandTypeOK, reading, modem
<1>8. CASE Timeout
    <2>1. \A r \in results' : r.id \in 1..MaxCommands
        BY <1>8 DEF Timeout, Result, CommandTyped, CommandTypeOK
    <2>2. timeouts' \in Nat
        BY <1>8 DEF Timeout, CommandTyped, CommandTypeOK
    <2>3. active_command_id' \in 0..MaxCommands
        BY <1>8 DEF Timeout
    <2>4. /\ waiting' = FALSE /\ upc' = "idle"
          /\ UNCHANGED <<next_command_id, flags, response, said, status, ended_by, answer,
                         sendonly, rpc, chunk, was_waiting, command_id, is_terminal, lost, events,
                         pending, wire, urcs, alike>>
        BY <1>8, Zenon DEF Timeout, reading, modem
    <2> QED BY <2>1, <2>2, <2>3, <2>4, Zenon DEF CommandTyped, CommandTypeOK
<1>9. CASE SendOnly
    <2>1. PICK t \in CommandTypes : Accept(MaxCommands + sendonly + 1, t.answer)
        BY <1>9, Zenon DEF SendOnly
    <2>2. MaxCommands + sendonly + 1 \in Nat
        BY DEF CommandTyped, CommandTypeOK
    <2>3. pending' \in Seq(Line)
        BY <2>1, <2>2, AnswerTyped, ConcatProperties, Zenon DEF Accept, CommandTyped, CommandTypeOK
    <2> QED BY <1>9, <2>3 DEF SendOnly, CommandTyped, CommandTypeOK, port, reading
<1>10. CASE ReadLines
    <2>1. PICK n \in 1..Len(wire) : /\ chunk' = SubSeq(wire, 1, n)
                                    /\ wire' = SubSeq(wire, n + 1, Len(wire))
        BY <1>10, Zenon DEF ReadLines
    <2>2. chunk' \in Seq(Line) /\ wire' \in Seq(Line) /\ chunk' # <<>>
        <3>1. wire \in Seq(Line)
            BY Zenon DEF CommandTyped, CommandTypeOK
        <3>2. /\ SubSeq(wire, 1, n) \in Seq(Line) /\ Len(SubSeq(wire, 1, n)) = n
              /\ SubSeq(wire, n + 1, Len(wire)) \in Seq(Line)
            BY <3>1, SubSeqProperties
        <3>3. SubSeq(wire, 1, n) # <<>>
            BY <3>1, <3>2
        <3> QED BY <2>1, <3>2, <3>3, Zenon
    <2> QED BY <1>10, <2>2, Zenon DEF ReadLines, CommandTyped, CommandTypeOK, port, calling
<1>11. CASE Collect
    <2>1. said' \in Seq(Line) /\ response' \in Seq(Line) /\ Len(response') <= MaxResponse
        BY <1>11, StoreTyped, Zenon DEF Collect
    <2> QED BY <1>11, <2>1, Zenon DEF Collect, CommandTyped, CommandTypeOK, calling, modem
<1>12. CASE Peek
    <2>1. /\ was_waiting' \in BOOLEAN /\ command_id' \in 0..MaxCommands
          /\ is_terminal' = FALSE /\ rpc' \in {"check", "enqueue"}
        BY <1>12 DEF Peek, CommandTyped, CommandTypeOK
    <2> QED BY <1>12, <2>1, Zenon DEF Peek, CommandTyped, CommandTypeOK, port, calling, modem
<1>13. CASE CheckEndFlags
    BY <1>13 DEF CheckEndFlags, CommandTyped, CommandTypeOK, port, calling, modem
<1>14. CASE Match
    <2>1. chunk # <<>> => Head(chunk) \in Line
        BY DEF CommandTyped, CommandTypeOK
    <2> QED BY <1>14, <2>1, Zenon
            DEF Match, Complete, CommandTyped, CommandTypeOK, port, calling, modem
<1>15. CASE Enqueue
    <2>1. /\ chunk' \in Seq(Line) /\ rpc' \in {"lines", "read"}
          /\ chunk' = <<>> <=> rpc' = "read"
        BY <1>15, NextLine, Zenon DEF Enqueue, CommandTyped, CommandTypeOK
    <2> QED BY <1>15, <2>1 DEF Enqueue, CommandTyped, CommandTypeOK, port, calling, modem
<1>16. CASE Prompt
    <2>1. /\ chunk' \in Seq(Line) /\ rpc' \in {"lines", "read"}
          /\ chunk' = <<>> <=> rpc' = "read"
        BY <1>16, NextLine, Zenon DEF Prompt, CommandTyped, CommandTypeOK
    <2>2. Head(chunk) \in Line
        BY <1>16, NextLine, Zenon DEF Prompt, CommandTyped, CommandTypeOK
    <2> QED BY <1>16, <2>1, <2>2, Zenon
            DEF Prompt, Complete, CommandTyped, CommandTypeOK, port, calling, modem
<1>17. CASE UNCHANGED commandVars
    BY <1>17 DEF commandVars, port, calling, reading, modem, CommandTyped, CommandTypeOK
<1>18. CASE Overflow
    <2>1. said' \in Seq(Line) /\ response' \in Seq(Line) /\ Len(response') <= MaxResponse
        BY <1>18, StoreTyped, Zenon DEF Overflow
    <2>2. <<>> \in Seq(Line) /\ lost' \in Nat
        BY <1>18 DEF Overflow, CommandTyped, CommandTypeOK
    <2> QED BY <1>18, <2>1, <2>2, Zenon DEF Overflow, CommandTyped, CommandTypeOK, calling, modem
<1> QED BY <1>1, <1>2, <1>3, <1>4, <1>5, <1>6, <1>7, <1>8, <1>9, <1>10, <1>11, <1>12,
           <1>13, <1>14, <1>15, <1>16, <1>17, <1>18, Zenon DEF CommandNext, UbusStep, ReaderStep

-------------------------------------------------------------------------------
(* The state in which a line ends a command                                *)

LEMMA LinesJoin ==
    ASSUME NEW s \in Seq(Line), NEW t \in Seq(Line), NEW u \in Seq(Line)
    PROVE  (s \o t) \o u = s \o (t \o u)
BY ConcatAssociative

LEMMA StreamTyped ==
    ASSUME CommandTyped
    PROVE  /\ said \in Seq(Line) /\ chunk \in Seq(Line) /\ wire \in Seq(Line)
           /\ pending \in Seq(Line) /\ Collected \in Seq(Line) /\ Stream \in Seq(Line)
           /\ rpc # "collect" => Collected = said
<1>1. /\ said \in Seq(Line) /\ chunk \in Seq(Line) /\ wire \in Seq(Line)
      /\ pending \in Seq(Line)
    BY Zenon DEF CommandTyped, CommandTypeOK
<1>2. said \o <<>> = said
    BY <1>1, ConcatEmptySeq, Zenon
<1>3. Collected \in Seq(Line) /\ (rpc # "collect" => Collected = said)
    BY <1>1, <1>2 DEF Collected
<1> HIDE DEF Collected
<1> QED BY <1>1, <1>3 DEF Stream

\* a line of an answer is handled only while its command waits for it
LEMMA Asked ==
    ASSUME CommandTyped, CommandInv, rpc \in {"lines", "check", "match"},
           Head(chunk).cmd # 0
    PROVE  Asking /\ Suffix(chunk, said)
<1>1. chunk \in Seq(Line) /\ chunk # <<>>
    BY Zenon DEF CommandTyped, CommandTypeOK
<1>2. ~Urcs(chunk)
    BY <1>1, NextLine DEF Urcs
<1>3. ~Leftover
    BY <1>2, Zenon DEF Leftover
<1>4. Asking
    BY <1>3 DEF CommandInv, Silent
<1> QED BY <1>3, <1>4 DEF CommandInv, Arriving

\* a line that the end flags match is the last one of the answer, and the answer has
\* been collected when it is handled
LEMMA LineEnds ==
    ASSUME CommandTyped, CommandInv, rpc \in {"lines", "check", "match"},
           Head(chunk).kind \in flags
    PROVE  /\ Asking /\ Head(chunk).cmd = active_command_id /\ active_command_id # 0
           /\ pending = <<>> /\ Urcs(wire) /\ Urcs(Tail(chunk))
           /\ Answers(said, answer, active_command_id)
<1> DEFINE p == Len(said)
           q == Len(chunk)
           rest == wire \o pending
<1>1. PICK t \in CommandTypes : flags = t.flags
    BY Zenon DEF CommandInv, Command
<1>2. chunk \in Seq(Line) /\ chunk # <<>>
    BY Zenon DEF CommandTyped, CommandTypeOK
<1>3. Head(chunk).cmd # 0
    <2>1. q \in Nat \ {0} /\ Head(chunk) = chunk[1]
        BY <1>2, NextLine, Zenon
    <2>2. Unlike(chunk)
        BY Zenon DEF CommandInv, Lines
    <2> QED BY <1>1, <2>1, <2>2 DEF Unlike
<1>4. Asking /\ Suffix(chunk, said)
    BY <1>3, Asked, Zenon
<1>5. /\ Answers(Stream, answer, active_command_id)
      /\ active_command_id \in Nat \ {0} /\ answer \in Seq(Kinds)
    BY <1>4 DEF CommandInv, Arriving, Asking, CommandTyped, CommandTypeOK
<1>6. /\ Stream = said \o rest /\ Stream \in Seq(Line)
      /\ said \in Seq(Line) /\ rest \in Seq(Line)
      /\ wire \in Seq(Line) /\ pending \in Seq(Line)
    <2>1. Stream = (said \o wire) \o pending
        BY StreamTyped, Zenon DEF Stream
    <2>2. (said \o wire) \o pending = said \o (wire \o pending)
        <3>1. said \in Seq(Line) /\ wire \in Seq(Line) /\ pending \in Seq(Line)
            BY StreamTyped, Zenon
        <3> QED BY <3>1, LinesJoin, Zenon
    <2>3. wire \o pending \in Seq(Line)
        BY StreamTyped, ConcatProperties, Zenon
    <2> QED BY <2>1, <2>2, <2>3, StreamTyped, Zenon
<1>7. PICK u \in CommandTypes : flags = u.flags /\ answer = u.answer
    BY <1>4, Zenon DEF Asking, CommandInv, Command
<1>8. /\ p \in Nat /\ q \in Nat \ {0} /\ q <= p /\ Len(rest) \in Nat
      /\ Len(Stream) = p + Len(rest)
      /\ \A i \in 1..p : Stream[i] = said[i]
      /\ \A i \in 1..Len(rest) : Stream[p + i] = rest[i]
    <2>1. q \in Nat \ {0} /\ q <= p
        BY <1>2, <1>4 DEF Suffix
    <2> HIDE DEF rest
    <2>2. Len(rest) \in Nat /\ p \in Nat /\ Len(Stream) = p + Len(rest)
        BY <1>6
    <2>3. \A i \in 1..p : Stream[i] = said[i]
        BY <1>6
    <2>4. \A i \in 1..Len(rest) : Stream[p + i] = rest[i]
        BY <1>6
    <2> QED BY <2>1, <2>2, <2>3, <2>4, Zenon
<1> DEFINE k == p - q + 1
<1> HIDE DEF p, q, rest, k
<1>9. k \in 1..p /\ k \in 1..Len(Stream) /\ Stream[k] = Head(chunk)
    <2>1. k \in 1..p /\ 1 \in 1..q
        BY <1>8 DEF k
    <2>2. said[k] = chunk[1]
        BY <1>4, <1>8, <2>1, Zenon DEF Suffix, k, p, q
    <2>3. Head(chunk) = chunk[1]
        BY <1>2, NextLine, Zenon
    <2> QED BY <1>8, <2>1, <2>2, <2>3
<1>10. /\ Head(chunk).cmd = active_command_id
       /\ \A j \in k + 1 .. Len(Stream) : Stream[j].cmd = 0
    <2>1. Stream[k].cmd # 0 /\ Stream[k].kind \in u.flags
        BY <1>3, <1>7, <1>9, Zenon
    <2>2. Answers(Stream, u.answer, active_command_id)
        BY <1>5, <1>7, Zenon
    <2> HIDE DEF Stream
    <2>3. /\ Stream[k].cmd = active_command_id
          /\ \A j \in k + 1 .. Len(Stream) : Stream[j].cmd = 0
        <3>1. active_command_id \in Nat
            BY <1>5
        <3>2. Stream \in Seq(Line)
            BY <1>6, Zenon
        <3>3. k \in 1..Len(Stream)
            BY <1>9
        <3> QED BY <2>1, <2>2, <3>1, <3>2, <3>3, EndIsLast, Zenon
    <2> QED BY <1>9, <2>3, Zenon
<1>11. Urcs(rest)
    <2>1. ASSUME NEW i \in 1..Len(rest) PROVE rest[i].cmd = 0
        <3>1. p + i \in k + 1 .. Len(Stream) /\ Stream[p + i] = rest[i]
            BY <1>8, <1>9
        <3> QED BY <1>10, <3>1, Zenon
    <2> QED BY <2>1, Zenon DEF Urcs
<1>12. Urcs(wire) /\ pending = <<>>
    <2>1. /\ Len(rest) = Len(wire) + Len(pending)
          /\ \A i \in 1..Len(wire) : rest[i] = wire[i]
          /\ \A i \in 1..Len(pending) : rest[Len(wire) + i] = pending[i]
        BY <1>6 DEF rest
    <2>2. Len(wire) \in Nat /\ Len(pending) \in Nat
        BY <1>6
    <2>3. Urcs(wire)
        BY <1>11, <2>1, <2>2 DEF Urcs
    <2>4. ASSUME Len(pending) > 0 PROVE FALSE
        <3>1. 1 \in 1..Len(pending) /\ Len(wire) + 1 \in 1..Len(rest)
            BY <2>1, <2>2, <2>4
        <3>2. pending[1].cmd = 0
            BY <1>11, <2>1, <3>1, Zenon DEF Urcs
        <3> QED BY <3>1, <3>2, Zenon DEF CommandInv, Lines
    <2> QED BY <1>6, <2>2, <2>3, <2>4, EmptySeq
<1>13. Urcs(Tail(chunk))
    <2>1. ASSUME NEW i \in 1 .. Len(Tail(chunk)) PROVE Tail(chunk)[i].cmd = 0
        <3>1. i \in 1 .. q - 1 /\ Tail(chunk)[i] = chunk[i + 1]
            BY <1>2, NextLine, Zenon DEF q
        <3>2. i + 1 \in 1..q /\ p - q + (i + 1) = k + i
            BY <1>8, <3>1 DEF k
        <3>3. chunk[i + 1] = said[k + i]
            BY <1>4, <3>2, Zenon DEF Suffix, p, q
        <3>4. k + i \in 1..p /\ k + i \in k + 1 .. Len(Stream)
            BY <1>8, <1>9, <3>1 DEF k
        <3> QED BY <1>8, <1>10, <3>1, <3>3, <3>4
    <2> QED BY <2>1, Zenon DEF Urcs
<1>14. Answers(said, answer, active_command_id)
    BY <1>5, <1>6, <1>11, UrcsDropped, Zenon
<1> QED BY <1>4, <1>5, <1>10, <1>12, <1>13, <1>14, Zenon

-------------------------------------------------------------------------------
(* The steps as long as no line can be taken for an answer it is not       *)

\* an unsolicited line that no end flag matches
PlainUrc ==
    /\ \E k \in UrcKinds : /\ \A t \in CommandTypes : k \notin t.flags
                           /\ wire' = Append(wire, [kind |-> k, cmd |-> 0])
    /\ UNCHANGED <<port, calling, reading, pending>>

CalmStep ==
    \/ ModemAnswers \/ PlainUrc \/ ParseEndFlags \/ WriteFails \/ Overflow
    \/ UbusStep \/ ReaderStep \/ UNCHANGED commandVars

LEMMA NoStrayYet ==
    ASSUME CommandTyped, CommandTyped', [CommandNext]_commandVars, Strays' = 0
    PROVE  Strays = 0 /\ CalmStep
<1>1. /\ timeouts \in Nat /\ sendonly \in Nat /\ alike \in Nat
      /\ timeouts' \in Nat /\ sendonly' \in Nat /\ alike' \in Nat
    BY Zenon DEF CommandTyped, CommandTypeOK
<1>2. timeouts' = 0 /\ sendonly' = 0 /\ alike' = 0
    <2>1. \A a, b, c \in Nat : a + b + c = 0 => a = 0 /\ b = 0 /\ c = 0
        OBVIOUS
    <2>2. timeouts' + sendonly' + alike' = 0
        BY DEF Strays
    <2> QED BY <1>1, <2>1, <2>2, Zenon
<1>3. ~Timeout /\ ~SendOnly
    BY <1>1, <1>2 DEF Timeout, SendOnly
<1>4. CASE ModemUrc
    <2>1. PICK k \in UrcKinds :
              /\ wire' = Append(wire, [kind |-> k, cmd |-> 0])
              /\ IF \E t \in CommandTypes : k \in t.flags
                 THEN Strays < MaxStrays /\ alike' = alike + 1
                 ELSE UNCHANGED alike
        BY <1>4, Zenon DEF ModemUrc
    <2>2. alike' # alike + 1
        BY <1>1, <1>2
    <2>3. (\A t \in CommandTypes : k \notin t.flags) /\ alike' = alike
        BY <2>1, <2>2, Zenon
    <2>4. PlainUrc
        BY <1>4, <2>1, <2>3, Zenon DEF ModemUrc, PlainUrc
    <2> QED BY <1>2, <1>4, <2>3, <2>4, Zenon DEF ModemUrc, CalmStep, calling, Strays
<1>5. CASE CommandNext /\ ~ModemUrc
    <2>1. CalmStep
        BY <1>3, <1>5 DEF CommandNext, CalmStep
    <2>2. UNCHANGED <<timeouts, sendonly, alike>>
        BY <1>3, <1>5, Zenon DEF CommandNext, ModemAnswers, ParseEndFlags, WriteFails, UbusStep, Prepare,
           Write, Wakeup, ReaderStep, ReadLines, Collect, Overflow, Peek, CheckEndFlags, Match, Enqueue,
           Prompt, calling, modem
    <2> QED BY <1>2, <2>1, <2>2, Zenon DEF Strays
<1>6. CASE UNCHANGED commandVars
    BY <1>2, <1>6, Zenon DEF commandVars, calling, modem, CalmStep, Strays
<1> QED BY <1>4, <1>5, <1>6

LEMMA CommandInvInit == CommandInit => CommandInv
<1> SUFFICES ASSUME CommandInit PROVE CommandInv
    OBVIOUS
<1>1. Len(<<>>) = 0
    OBVIOUS
<1>2. Urcs(<<>>) /\ Unlike(<<>>)
    BY <1>1 DEF Urcs, Unlike
<1>3. Lines /\ Command /\ Silent
    BY <1>1, <1>2 DEF CommandInit, Lines, Command, Silent, Leftover
<1>4. Answered /\ Arriving /\ Matching /\ Told
    BY Zenon DEF CommandInit, Answered, Arriving, Asking, Matching, Told
<1> QED BY <1>3, <1>4 DEF CommandInv

\* what ended a command stays what ended it
LEMMA EndedKept ==
    ASSUME CommandTyped, CommandInv, CalmStep, NEW c, NEW l, EndedBy(c, l)
    PROVE  EndedBy(c, l)'
<1>1. CASE UNCHANGED <<upc, waiting, active_command_id, ended_by, results>>
    BY <1>1, Zenon DEF EndedBy
<1>2. CASE ~(upc = "wait" /\ waiting = FALSE) /\ results \subseteq results'
    BY <1>2, Zenon DEF EndedBy
<1>3. CASE ModemAnswers \/ PlainUrc \/ ReadLines \/ Collect \/ Overflow \/ Peek \/ CheckEndFlags
           \/ Enqueue
    BY <1>1, <1>3, Zenon DEF ModemAnswers, PlainUrc, ReadLines, Collect, Overflow, Peek,
       CheckEndFlags, Enqueue, port, calling
<1>4. CASE ParseEndFlags \/ Prepare \/ Write \/ WriteFails
    BY <1>2, <1>4, Zenon DEF ParseEndFlags, Prepare, Write, WriteFails
<1>5. CASE Wakeup
    <2>1. CASE upc = "wait" /\ waiting = FALSE /\ c = active_command_id /\ l = ended_by
        <3>1. Result(status) \in results' /\ Result(status).id = c
              /\ Result(status).ended_by = l
            BY <1>5, <2>1, Zenon DEF Wakeup, Result
        <3> QED BY <3>1, Zenon DEF EndedBy
    <2>2. CASE \E r \in results : r.id = c /\ r.ended_by = l
        BY <1>5, <2>2, Zenon DEF Wakeup, EndedBy
    <2> QED BY <2>1, <2>2, Zenon DEF EndedBy
<1>6. CASE Match \/ Prompt
    <2>1. waiting \in BOOLEAN /\ UNCHANGED <<upc, results>>
        BY <1>6, Zenon DEF Match, Prompt, calling, CommandTyped, CommandTypeOK
    <2>2. CASE waiting = TRUE
        BY <1>2, <2>1, <2>2, Zenon
    <2>3. CASE waiting = FALSE
        BY <1>1, <1>6, <2>1, <2>3, Zenon DEF Match, Prompt, port
    <2> QED BY <2>1, <2>2, <2>3, Zenon
<1>7. CASE UNCHANGED commandVars
    BY <1>1, <1>7, Zenon DEF commandVars, port, calling
<1> QED BY <1>3, <1>4, <1>5, <1>6, <1>7, Zenon DEF CalmStep, UbusStep, ReaderStep

LEMMA ToldKept ==
    ASSUME CommandTyped, CommandInv, CalmStep
    PROVE  Told'
<1>1. ASSUME NEW e \in events', e.correlation = "terminal" PROVE EndedBy(e.command_id, e.line)'
    <2>1. CASE e \in events
        <3>1. EndedBy(e.command_id, e.line)
            BY <1>1, <2>1, Zenon DEF CommandInv, Told
        <3> QED BY <3>1, EndedKept, Zenon
    <2>2. CASE e \notin events
        <3>1. Enqueue
            BY <2>2, Zenon DEF CalmStep, UbusStep, ReaderStep, ModemAnswers, PlainUrc, ParseEndFlags,
               WriteFails, Prepare, Write, Wakeup, ReadLines, Collect, Overflow, Peek,
               CheckEndFlags, Match, Prompt, reading, commandVars
        <3>2. e = [line |-> Head(chunk), command_id |-> command_id, correlation |-> Correlation]
            BY <2>2, <3>1, Zenon DEF Enqueue
        <3>3. Correlation = "terminal"
            BY <1>1, <3>2, Zenon
        <3>4. is_terminal = TRUE
            BY <3>3, Zenon DEF Correlation, CommandTyped, CommandTypeOK
        <3>5. EndedBy(command_id, Head(chunk))
            BY <3>1, <3>4, Zenon DEF Enqueue, CommandInv, Matching
        <3>6. EndedBy(e.command_id, e.line)
            BY <3>2, <3>5, Zenon
        <3> QED BY <3>6, EndedKept
    <2> QED BY <2>1, <2>2, Zenon
<1>2. ASSUME NEW r \in results', r.status = "done"
      PROVE  /\ r.ended_by.cmd = r.id
             /\ \E t \in CommandTypes : Answers(r.said, t.answer, r.id)
    <2>1. CASE r \in results
        BY <1>2, <2>1, Zenon DEF CommandInv, Told
    <2>2. CASE r \notin results
        <3>1. WriteFails \/ Wakeup
            BY <2>2, Zenon DEF CalmStep, UbusStep, ReaderStep, ModemAnswers, PlainUrc, ParseEndFlags,
               Prepare, Write, ReadLines, Collect, Overflow, Peek, CheckEndFlags, Match, Enqueue,
               Prompt, calling, commandVars
        <3>2. CASE WriteFails
            BY <1>2, <2>2, <3>2 DEF WriteFails, Result
        <3>3. CASE Wakeup
            <4>1. /\ r.id = active_command_id /\ r.said = said
                  /\ r.ended_by = ended_by
                BY <2>2, <3>3 DEF Wakeup, Result
            <4>2. upc = "wait" /\ waiting = FALSE
                BY <3>3, Zenon DEF Wakeup, CommandTyped, CommandTypeOK
            <4>3. /\ ended_by.cmd = active_command_id
                  /\ Answers(said, answer, active_command_id)
                BY <4>2, Zenon DEF CommandInv, Answered
            <4>4. PICK t \in CommandTypes : answer = t.answer
                BY <4>2, Zenon DEF CommandInv, Command
            <4> QED BY <4>1, <4>3, <4>4, Zenon
        <3> QED BY <3>1, <3>2, <3>3, Zenon
    <2> QED BY <2>1, <2>2, Zenon
<1> QED BY <1>1, <1>2, Zenon DEF Told

LEMMA UrcsOf ==
    ASSUME NEW s \in Seq(Line)
    PROVE  /\ \A t \in Seq(Line) : Urcs(s) /\ Urcs(t) => Urcs(s \o t)
           /\ \A l \in Line : Urcs(s) /\ l.cmd = 0 => Urcs(Append(s, l))
           /\ \A m \in 1 .. Len(s) + 1, n \in 0..Len(s) : Urcs(s) => Urcs(SubSeq(s, m, n))
           /\ s # <<>> /\ Urcs(s) => Urcs(Tail(s)) /\ Head(s).cmd = 0
<1>1. ASSUME NEW t \in Seq(Line), Urcs(s), Urcs(t), NEW k \in 1..Len(s \o t)
      PROVE  (s \o t)[k].cmd = 0
    <2>1. (s \o t)[k] = IF k <= Len(s) THEN s[k] ELSE t[k - Len(s)]
        OBVIOUS
    <2>2. CASE k <= Len(s)
        BY <1>1, <2>1, <2>2 DEF Urcs
    <2>3. CASE k > Len(s)
        <3>1. k - Len(s) \in 1..Len(t)
            BY <2>3
        <3> QED BY <1>1, <2>1, <2>3, <3>1 DEF Urcs
    <2> QED BY <2>2, <2>3
<1>2. ASSUME NEW l \in Line, Urcs(s), l.cmd = 0 PROVE Urcs(Append(s, l))
    BY <1>2 DEF Urcs
<1>3. ASSUME NEW m \in 1 .. Len(s) + 1, NEW n \in 0..Len(s), Urcs(s),
             NEW k \in 1..Len(SubSeq(s, m, n))
      PROVE  SubSeq(s, m, n)[k].cmd = 0
    <2>1. m + k - 1 \in 1..Len(s) /\ SubSeq(s, m, n)[k] = s[m + k - 1]
        BY SubSeqProperties
    <2> QED BY <1>3, <2>1, Zenon DEF Urcs
<1>4. ASSUME s # <<>>, Urcs(s) PROVE Urcs(Tail(s)) /\ Head(s).cmd = 0
    BY <1>4, NextLine DEF Urcs
<1> QED BY <1>1, <1>2, <1>3, <1>4, Zenon DEF Urcs

LEMMA UnlikeOf ==
    ASSUME NEW s \in Seq(Line), Unlike(s)
    PROVE  /\ \A l \in Line : (l.cmd = 0 => \A t \in CommandTypes : l.kind \notin t.flags)
                                  => Unlike(Append(s, l))
           /\ \A m \in 1 .. Len(s) + 1, n \in 0..Len(s) : Unlike(SubSeq(s, m, n))
           /\ s # <<>> => Unlike(Tail(s))
<1>1. ASSUME NEW l \in Line, l.cmd = 0 => \A t \in CommandTypes : l.kind \notin t.flags,
             NEW k \in 1..Len(Append(s, l)), Append(s, l)[k].cmd = 0
      PROVE  \A t \in CommandTypes : Append(s, l)[k].kind \notin t.flags
    <2>1. Append(s, l)[k] = IF k <= Len(s) THEN s[k] ELSE l
        OBVIOUS
    <2>2. CASE k <= Len(s)
        BY <1>1, <2>1, <2>2 DEF Unlike
    <2>3. CASE k > Len(s)
        BY <1>1, <2>1, <2>3
    <2> QED BY <2>2, <2>3
<1>2. ASSUME NEW m \in 1 .. Len(s) + 1, NEW n \in 0..Len(s),
             NEW k \in 1..Len(SubSeq(s, m, n)), SubSeq(s, m, n)[k].cmd = 0
      PROVE  \A t \in CommandTypes : SubSeq(s, m, n)[k].kind \notin t.flags
    <2>1. m + k - 1 \in 1..Len(s) /\ SubSeq(s, m, n)[k] = s[m + k - 1]
        BY SubSeqProperties
    <2> QED BY <1>2, <2>1, Zenon DEF Unlike
<1>3. ASSUME s # <<>> PROVE Unlike(Tail(s))
    BY <1>3, NextLine DEF Unlike
<1> QED BY <1>1, <1>2, <1>3, Zenon DEF Unlike

\* the reader moves on to the next line, and the line ended a command or left the port alone
LEMMA MatchStep ==
    ASSUME CommandTyped, CommandInv, Match \/ Prompt
    PROVE  \/ UNCHANGED port /\ Prompt
           \/ /\ Complete /\ rpc \in {"lines", "match"} /\ Head(chunk).kind \in flags
              /\ Asking
<1>1. CASE Match
    <2>1. rpc = "match" /\ Head(chunk).cmd # 0 /\ Head(chunk).kind \in flags
        BY <1>1, Zenon DEF Match, CommandInv, Matching
    <2>2. Asking
        BY <2>1, Asked, Zenon
    <2> QED BY <1>1, <2>1, <2>2, Zenon DEF Match, Asking
<1>2. CASE Prompt
    <2>1. rpc = "lines" /\ Head(chunk).kind = "prompt"
        BY <1>2, Zenon DEF Prompt
    <2>2. CASE waiting /\ "prompt" \in flags
        <3>1. Complete /\ Head(chunk).kind \in flags
            BY <1>2, <2>1, <2>2, Zenon DEF Prompt
        <3> QED BY <2>1, <3>1, LineEnds, Zenon
    <2>3. CASE ~(waiting /\ "prompt" \in flags)
        BY <1>2, <2>3, Zenon DEF Prompt
    <2> QED BY <2>2, <2>3, Zenon
<1> QED BY <1>1, <1>2, Zenon

LEMMA LinesKept ==
    ASSUME CommandTyped, CommandInv, CalmStep
    PROVE  Lines'
<1>1. /\ chunk \in Seq(Line) /\ wire \in Seq(Line) /\ pending \in Seq(Line)
      /\ Unlike(chunk) /\ Unlike(wire) /\ \A k \in 1..Len(pending) : pending[k].cmd # 0
    BY Zenon DEF CommandTyped, CommandTypeOK, CommandInv, Lines
<1>2. CASE ModemAnswers
    <2>1. /\ pending # <<>> /\ wire' = Append(wire, Head(pending))
          /\ pending' = Tail(pending) /\ chunk' = chunk
        BY <1>2, Zenon DEF ModemAnswers, reading
    <2>2. Head(pending) \in Line /\ Head(pending).cmd # 0
        BY <1>1, <2>1, NextLine
    <2>3. Unlike(wire')
        BY <1>1, <2>1, <2>2, UnlikeOf, Zenon
    <2>4. \A k \in 1..Len(pending') : pending'[k].cmd # 0
        BY <1>1, <2>1, NextLine
    <2> QED BY <1>1, <2>1, <2>3, <2>4, Zenon DEF Lines, Unlike
<1>3. CASE PlainUrc
    <2>1. PICK k \in UrcKinds : /\ \A t \in CommandTypes : k \notin t.flags
                                /\ wire' = Append(wire, [kind |-> k, cmd |-> 0])
        BY <1>3, Zenon DEF PlainUrc
    <2>2. k \in Kinds
        BY Zenon DEF Kinds
    <2>3. Unlike(wire')
        BY <1>1, <2>1, <2>2, UnlikeOf, Zenon DEF Line
    <2>4. chunk' = chunk /\ pending' = pending
        BY <1>3, Zenon DEF PlainUrc, reading
    <2> QED BY <1>1, <2>3, <2>4, Zenon DEF Lines, Unlike
<1>4. CASE Write
    <2> DEFINE b == [i \in DOMAIN answer |-> [kind |-> answer[i], cmd |-> active_command_id]]
    <2>1. pending' = pending \o b /\ chunk' = chunk /\ wire' = wire
        BY <1>4, Zenon DEF Write, Accept, reading
    <2>2. active_command_id # 0 /\ active_command_id \in Nat /\ answer \in Seq(Kinds)
        BY <1>4 DEF Write, CommandTyped, CommandTypeOK
    <2>3. <<>> \in Seq(Line) /\ Urcs(<<>>)
        BY DEF Urcs
    <2>4. b \in Seq(Line)
        BY <2>2, <2>3, AnswerAppended, Zenon
    <2>5. DOMAIN b = 1..Len(b) /\ \A i \in DOMAIN b : b[i].cmd = active_command_id
        BY <2>4
    <2> HIDE DEF b
    <2>6. \A k \in 1..Len(pending \o b) : (pending \o b)[k].cmd # 0
        BY <1>1, <2>2, <2>4, <2>5
    <2> QED BY <1>1, <2>1, <2>6, Zenon DEF Lines, Unlike
<1>5. CASE ReadLines
    <2>1. PICK n \in 1..Len(wire) : /\ chunk' = SubSeq(wire, 1, n)
                                    /\ wire' = SubSeq(wire, n + 1, Len(wire))
        BY <1>5, Zenon DEF ReadLines
    <2>2. Unlike(chunk') /\ Unlike(wire')
        <3>1. /\ 1 \in 1 .. Len(wire) + 1 /\ n \in 0..Len(wire)
              /\ n + 1 \in 1 .. Len(wire) + 1 /\ Len(wire) \in 0..Len(wire)
            BY <1>1
        <3>2. Unlike(SubSeq(wire, 1, n)) /\ Unlike(SubSeq(wire, n + 1, Len(wire)))
            BY <1>1, <3>1, UnlikeOf, Zenon
        <3> QED BY <2>1, <3>2, Zenon
    <2>3. pending' = pending
        BY <1>5, Zenon DEF ReadLines
    <2> QED BY <1>1, <2>2, <2>3, Zenon DEF Lines, Unlike
<1>6. CASE Enqueue \/ Prompt
    <2>1. chunk # <<>> /\ chunk' = Tail(chunk) /\ UNCHANGED <<wire, pending>>
        BY <1>6, Zenon DEF Enqueue, Prompt, modem, CommandTyped
    <2>2. Unlike(chunk')
        BY <1>1, <2>1, UnlikeOf, Zenon
    <2> QED BY <1>1, <2>1, <2>2, Zenon DEF Lines, Unlike
<1>7. CASE ParseEndFlags \/ WriteFails \/ Prepare \/ Wakeup \/ Collect \/ Peek \/ CheckEndFlags
           \/ Match \/ UNCHANGED commandVars
    <2>1. UNCHANGED <<chunk, wire, pending>>
        BY <1>7, Zenon DEF ParseEndFlags, WriteFails, Prepare, Wakeup, Collect, Peek, CheckEndFlags, Match,
           commandVars, reading, modem
    <2> QED BY <1>1, <2>1, Zenon DEF Lines, Unlike
<1>8. CASE Overflow
    <2>1. chunk' = <<>> /\ UNCHANGED <<wire, pending>>
        BY <1>8, Zenon DEF Overflow, modem
    <2>2. Unlike(<<>>)
        BY DEF Unlike
    <2> QED BY <1>1, <2>1, <2>2, Zenon DEF Lines, Unlike
<1> QED BY <1>2, <1>3, <1>4, <1>5, <1>6, <1>7, <1>8, Zenon DEF CalmStep, UbusStep, ReaderStep

LEMMA CommandKept ==
    ASSUME CommandTyped, CommandInv, CalmStep
    PROVE  Command'
<1>1. Command /\ waiting \in BOOLEAN
    BY Zenon DEF CommandInv, CommandTyped, CommandTypeOK
<1>2. CASE ParseEndFlags
    BY <1>2, Zenon DEF ParseEndFlags, Command
<1>3. CASE WriteFails \/ Wakeup
    BY <1>1, <1>3 DEF WriteFails, Wakeup, Command
<1>4. CASE Prepare
    <2>1. Urcs(<<>>)
        BY DEF Urcs
    <2> QED BY <1>1, <1>4, <2>1, Zenon DEF Prepare, Command, Urcs
<1>5. CASE Write
    BY <1>1, <1>5, Zenon DEF Write, port, Command
<1>6. CASE Collect \/ Overflow
    <2>1. rpc = "collect" /\ Store /\ UNCHANGED <<upc, answer, flags, waiting>>
        BY <1>6, Zenon DEF Collect, Overflow, calling
    <2>2. ASSUME upc = "prepared" PROVE Urcs(said)'
        <3>1. Urcs(chunk)
            BY <2>1, <2>2, Zenon DEF CommandInv, Silent, Asking, Leftover
        <3>2. said' = said \o chunk
            BY <1>1, <2>1, <2>2, Zenon DEF Store, Command
        <3>3. Urcs(said \o chunk)
            BY <1>1, <2>2, <3>1, UrcsOf, Zenon DEF Command, CommandTyped, CommandTypeOK
        <3> QED BY <3>2, <3>3, Zenon DEF Urcs
    <2> QED BY <1>1, <2>1, <2>2, Zenon DEF Command
<1>7. CASE Match \/ Prompt
    <2>1. UNCHANGED <<upc, answer, flags, said>>
        BY <1>7, Zenon DEF Match, Prompt, Complete, port, calling
    <2>2. waiting' = waiting \/ upc = "wait"
        BY <1>7, MatchStep, Zenon DEF port, Asking
    <2> QED BY <1>1, <2>1, <2>2, Zenon DEF Command, Urcs
<1>8. CASE ModemAnswers \/ PlainUrc \/ ReadLines \/ Peek \/ CheckEndFlags \/ Enqueue
           \/ UNCHANGED commandVars
    <2>1. UNCHANGED <<upc, answer, flags, waiting, said>>
        BY <1>8, Zenon DEF ModemAnswers, PlainUrc, ReadLines, Peek, CheckEndFlags, Enqueue, commandVars,
           port, calling
    <2> QED BY <1>1, <2>1, Zenon DEF Command, Urcs
<1> QED BY <1>2, <1>3, <1>4, <1>5, <1>6, <1>7, <1>8, Zenon DEF CalmStep, UbusStep, ReaderStep

LEMMA SilentKept ==
    ASSUME CommandTyped, CommandInv, CalmStep
    PROVE  Silent'
<1>1. CASE Asking
    <2>1. SUFFICES ASSUME ~Asking' PROVE (pending = <<>> /\ Urcs(wire) /\ Leftover)'
        BY Zenon DEF Silent
    <2>2. Match \/ Prompt
        BY <1>1, <2>1, Zenon DEF CalmStep, UbusStep, ReaderStep, Asking, ModemAnswers, PlainUrc,
           ParseEndFlags, WriteFails, Prepare, Write, Wakeup, ReadLines, Collect, Overflow, Peek,
           CheckEndFlags, Enqueue, commandVars, port, calling
    <2>3. Head(chunk).kind \in flags /\ rpc \in {"lines", "match"}
        <3>1. ~UNCHANGED port
            BY <1>1, <2>1, <2>2, Zenon DEF Match, Prompt, Asking, port, calling
        <3> QED BY <2>2, <3>1, MatchStep, Zenon
    <2>4. pending = <<>> /\ Urcs(wire) /\ Urcs(Tail(chunk))
        BY <2>3, LineEnds, Zenon
    <2>5. UNCHANGED <<pending, wire>>
        BY <2>2, Zenon DEF Match, Prompt, modem
    <2>6. CASE Match
        <3>1. rpc' = "enqueue" /\ is_terminal' = TRUE /\ chunk' = chunk
            BY <2>6, Zenon DEF Match, CommandInv, Matching
        <3> QED BY <2>4, <2>5, <3>1, Zenon DEF Leftover, Urcs
    <2>7. CASE Prompt
        <3>1. chunk' = Tail(chunk)
            BY <2>7, Zenon DEF Prompt
        <3> QED BY <2>4, <2>5, <3>1, Zenon DEF Leftover, Urcs
    <2> QED BY <2>2, <2>6, <2>7, Zenon
<1>2. CASE ~Asking
    <2>1. /\ pending = <<>> /\ Urcs(wire) /\ Leftover
          /\ chunk \in Seq(Line) /\ wire \in Seq(Line)
        BY <1>2, Zenon DEF CommandInv, Silent, CommandTyped, CommandTypeOK
    <2>2. CASE Write
        BY <2>2, Zenon DEF Write, port, CommandInv, Command, Silent, Asking
    <2>3. CASE ModemAnswers
        BY <2>1, <2>3, Zenon DEF ModemAnswers
    <2>4. CASE PlainUrc
        <3>1. PICK k \in UrcKinds : wire' = Append(wire, [kind |-> k, cmd |-> 0])
            BY <2>4, Zenon DEF PlainUrc
        <3>2. k \in Kinds
            BY DEF Kinds
        <3>3. Urcs(Append(wire, [kind |-> k, cmd |-> 0]))
            BY <2>1, <3>2, UrcsOf, Zenon DEF Line
        <3>4. UNCHANGED <<pending, rpc, chunk, is_terminal>>
            BY <2>4, Zenon DEF PlainUrc, reading
        <3> QED BY <2>1, <3>1, <3>3, <3>4, Zenon DEF Silent, Leftover, Urcs
    <2>5. CASE ReadLines
        <3>1. PICK n \in 1..Len(wire) : /\ chunk' = SubSeq(wire, 1, n)
                                        /\ wire' = SubSeq(wire, n + 1, Len(wire))
            BY <2>5 DEF ReadLines
        <3>2. /\ 1 \in 1 .. Len(wire) + 1 /\ n \in 0..Len(wire)
              /\ n + 1 \in 1 .. Len(wire) + 1 /\ Len(wire) \in 0..Len(wire)
            BY <2>1
        <3>3. Urcs(SubSeq(wire, 1, n)) /\ Urcs(SubSeq(wire, n + 1, Len(wire)))
            BY <2>1, <3>2, UrcsOf, Zenon
        <3>4. pending' = pending
            BY <2>5 DEF ReadLines
        <3> QED BY <2>1, <3>1, <3>3, <3>4, Zenon DEF Silent, Leftover, Urcs
    <2>6. CASE Match \/ Prompt
        <3>1. Prompt /\ UNCHANGED port
            BY <1>2, <2>6, MatchStep, Zenon
        <3>2. chunk # <<>> /\ chunk' = Tail(chunk) /\ Urcs(chunk) /\ UNCHANGED <<pending, wire>>
            BY <2>1, <3>1, Zenon DEF Prompt, modem, Leftover
        <3>3. Urcs(Tail(chunk))
            BY <2>1, <3>2, UrcsOf, Zenon
        <3> QED BY <2>1, <3>2, <3>3, Zenon DEF Silent, Leftover, Urcs
    <2>7. CASE Enqueue
        <3>1. chunk # <<>> /\ chunk' = Tail(chunk) /\ UNCHANGED <<pending, wire>>
            BY <2>7, Zenon DEF Enqueue, modem, CommandTyped
        <3>2. Urcs(Tail(chunk))
            BY <2>1, <3>1, UrcsOf, Zenon DEF Leftover
        <3> QED BY <2>1, <3>1, <3>2, Zenon DEF Silent, Leftover, Urcs
    <2>8. CASE Collect \/ Peek \/ CheckEndFlags
        <3>1. Urcs(chunk) /\ UNCHANGED <<pending, wire, chunk>>
            BY <2>1, <2>8, Zenon DEF Collect, Peek, CheckEndFlags, modem, Leftover
        <3> QED BY <2>1, <3>1, Zenon DEF Silent, Leftover, Urcs
    <2>9. CASE ParseEndFlags \/ WriteFails \/ Prepare \/ Wakeup \/ UNCHANGED commandVars
        <3>1. UNCHANGED <<pending, wire, chunk, rpc, is_terminal>>
            BY <2>9, Zenon DEF ParseEndFlags, WriteFails, Prepare, Wakeup, commandVars, reading, modem
        <3> QED BY <2>1, <3>1, Zenon DEF Silent, Leftover, Urcs
    <2>10. CASE Overflow
        <3>1. chunk' = <<>> /\ UNCHANGED <<pending, wire>>
            BY <2>10, Zenon DEF Overflow, modem
        <3>2. Urcs(<<>>)
            BY DEF Urcs
        <3> QED BY <2>1, <3>1, <3>2, Zenon DEF Silent, Leftover, Urcs
    <2> QED BY <2>2, <2>3, <2>4, <2>5, <2>6, <2>7, <2>8, <2>9, <2>10, Zenon
            DEF CalmStep, UbusStep, ReaderStep
<1> QED BY <1>1, <1>2, Zenon

LEMMA AnsweredKept ==
    ASSUME CommandTyped, CommandInv, CalmStep
    PROVE  Answered'
<1>1. SUFFICES ASSUME upc' = "wait", waiting' = FALSE
               PROVE  /\ ended_by'.cmd = active_command_id'
                      /\ Answers(said', answer', active_command_id')
    BY Zenon DEF Answered, Answers
<1>2. CASE Match \/ Prompt
    <2>1. UNCHANGED <<upc, answer, active_command_id, said>>
        BY <1>2, Zenon DEF Match, Prompt, Complete, port, calling
    <2>2. CASE UNCHANGED port
        BY <1>1, <2>1, <2>2, Zenon DEF port, CommandInv, Answered
    <2>3. CASE Complete /\ rpc \in {"lines", "match"} /\ Head(chunk).kind \in flags
        <3>1. ended_by' = Head(chunk)
            BY <2>3, Zenon DEF Complete
        <3>2. /\ Head(chunk).cmd = active_command_id
              /\ Answers(said, answer, active_command_id)
            BY <2>3, LineEnds, Zenon
        <3> QED BY <2>1, <3>1, <3>2, Zenon
    <2> QED BY <1>2, <2>2, <2>3, MatchStep, Zenon
<1>3. CASE ~(Match \/ Prompt)
    <2>1. /\ upc = "wait" /\ waiting = FALSE
          /\ UNCHANGED <<ended_by, answer, active_command_id>>
        BY <1>1, <1>3, Zenon DEF CalmStep, UbusStep, ReaderStep, ModemAnswers, PlainUrc, ParseEndFlags,
           WriteFails, Prepare, Write, Wakeup, ReadLines, Collect, Overflow, Peek, CheckEndFlags,
           Enqueue, commandVars, port, calling, CommandInv, Command
    <2>2. said' = said
        BY <1>1, <1>3, <2>1, Zenon DEF CalmStep, UbusStep, ReaderStep, ModemAnswers, PlainUrc,
           ParseEndFlags, WriteFails, Prepare, Write, Wakeup, ReadLines, Collect, Overflow, Store,
           Peek, CheckEndFlags, Enqueue, commandVars, port
    <2> QED BY <2>1, <2>2, Zenon DEF CommandInv, Answered
<1> QED BY <1>2, <1>3, Zenon

\* lines move along without changing the stream
LEMMA AppendLine ==
    ASSUME NEW s \in Seq(Line), NEW t \in Seq(Line), NEW l \in Line
    PROVE  s \o Append(t, l) = Append(s \o t, l)
<1>1. /\ <<l>> \in Seq(Line) /\ s \o t \in Seq(Line)
      /\ Append(t, l) = t \o <<l>> /\ Append(s \o t, l) = (s \o t) \o <<l>>
    BY AppendIsConcat, ConcatProperties
<1> QED BY <1>1, LinesJoin

LEMMA MoveLine ==
    ASSUME NEW c \in Seq(Line), NEW w \in Seq(Line), NEW p \in Seq(Line), p # <<>>
    PROVE  (c \o Append(w, Head(p))) \o Tail(p) = (c \o w) \o p
<1>1. /\ Head(p) \in Line /\ Tail(p) \in Seq(Line) /\ <<Head(p)>> \in Seq(Line)
      /\ c \o w \in Seq(Line)
    BY NextLine, ConcatProperties
<1>2. c \o Append(w, Head(p)) = (c \o w) \o <<Head(p)>>
    BY <1>1, AppendLine, AppendIsConcat
<1>3. <<Head(p)>> \o Tail(p) = p
    OBVIOUS
<1> DEFINE x == c \o w
           h == <<Head(p)>>
           y == Tail(p)
<1> HIDE DEF x, h, y
<1>4. x \in Seq(Line) /\ h \in Seq(Line) /\ y \in Seq(Line)
    BY <1>1, Zenon DEF x, h, y
<1>5. (x \o h) \o y = x \o (h \o y)
    BY <1>4, LinesJoin, SMTT(30)
<1> QED BY <1>2, <1>3, <1>5, Zenon DEF x, h, y

LEMMA SplitLines ==
    ASSUME NEW c \in Seq(Line), NEW w \in Seq(Line), NEW n \in 1..Len(w)
    PROVE  (c \o SubSeq(w, 1, n)) \o SubSeq(w, n + 1, Len(w)) = c \o w
<1>1. SubSeq(w, 1, n) \in Seq(Line) /\ SubSeq(w, n + 1, Len(w)) \in Seq(Line)
    OBVIOUS
<1>2. SubSeq(w, 1, n) \o SubSeq(w, n + 1, Len(w)) = w
    OBVIOUS
<1> DEFINE x == SubSeq(w, 1, n)
           y == SubSeq(w, n + 1, Len(w))
<1> HIDE DEF x, y
<1>3. (c \o x) \o y = c \o (x \o y)
    BY <1>1, LinesJoin, Zenon DEF x, y
<1> QED BY <1>2, <1>3, Zenon DEF x, y

LEMMA SuffixTail ==
    ASSUME NEW c \in Seq(Line), NEW s \in Seq(Line), c # <<>>, Suffix(c, s)
    PROVE  Suffix(Tail(c), s)
<1>1. /\ Len(c) \in Nat \ {0} /\ Len(s) \in Nat /\ Len(Tail(c)) = Len(c) - 1
      /\ \A k \in 1 .. Len(c) - 1 : Tail(c)[k] = c[k + 1]
    BY NextLine
<1>2. ASSUME NEW i \in 1 .. Len(c) - 1 PROVE Tail(c)[i] = s[Len(s) - (Len(c) - 1) + i]
    <2>1. i + 1 \in 1..Len(c) /\ Len(s) - Len(c) + (i + 1) = Len(s) - (Len(c) - 1) + i
        BY <1>1
    <2>2. c[i + 1] = s[Len(s) - Len(c) + (i + 1)]
        BY <2>1, Zenon DEF Suffix
    <2> QED BY <1>1, <2>1, <2>2, Zenon
<1> QED BY <1>1, <1>2 DEF Suffix

LEMMA MatchingKept ==
    ASSUME CommandTyped, CommandInv, CalmStep
    PROVE  Matching'
<1>1. Matching /\ is_terminal \in BOOLEAN
    BY Zenon DEF CommandInv, CommandTyped, CommandTypeOK
<1>2. CASE UNCHANGED <<rpc, chunk, is_terminal, command_id>>
    <2>1. ASSUME rpc' = "enqueue", is_terminal' = TRUE
          PROVE  EndedBy(command_id, Head(chunk))'
        <3>1. EndedBy(command_id, Head(chunk))
            BY <1>1, <1>2, <2>1, Zenon DEF Matching
        <3>2. EndedBy(command_id, Head(chunk))' <=> \E c, l : /\ c = command_id /\ l = Head(chunk)
                                                              /\ EndedBy(c, l)'
            BY <1>2, Zenon DEF EndedBy
        <3> QED BY <3>1, <3>2, EndedKept, Zenon
    <2>2. ASSUME rpc \in {"check", "match"}, Head(chunk).cmd # 0
          PROVE  UNCHANGED <<active_command_id, flags>>
        <3>1. Asking
            BY <2>2, Asked, Zenon
        <3> QED BY <1>2, <3>1, Zenon DEF CalmStep, UbusStep, ReaderStep, ModemAnswers, PlainUrc,
               ParseEndFlags, WriteFails, Prepare, Write, Wakeup, ReadLines, Collect, Overflow,
               Peek, CheckEndFlags, Match, Complete, Enqueue, Prompt, commandVars, port, Asking
    <2> QED BY <1>1, <1>2, <2>1, <2>2, Zenon DEF Matching
<1>3. CASE ReadLines \/ Collect \/ Overflow \/ Enqueue \/ Prompt
    <2>1. rpc' \in {"read", "collect", "lines"}
        BY <1>3, Zenon DEF ReadLines, Collect, Overflow, Enqueue, Prompt
    <2> QED BY <2>1, Zenon DEF Matching
<1>4. CASE Peek
    <2>1. /\ is_terminal' = FALSE /\ rpc' \in {"check", "enqueue"}
          /\ rpc' = "check" => command_id' = active_command_id
          /\ UNCHANGED active_command_id
        BY <1>4, Zenon DEF Peek, port
    <2> QED BY <2>1, Zenon DEF Matching
<1>5. CASE CheckEndFlags
    <2>1. /\ rpc = "check" /\ UNCHANGED <<chunk, command_id, active_command_id, flags>>
          /\ is_terminal' = (Head(chunk).kind \in flags)
          /\ rpc' = IF is_terminal' THEN "match" ELSE "enqueue"
        BY <1>5, Zenon DEF CheckEndFlags, port
    <2>2. CASE Head(chunk).kind \in flags
        <3>1. Head(chunk).cmd # 0
            BY <2>1, <2>2, LineEnds, Zenon
        <3>2. is_terminal' = TRUE /\ rpc' = "match"
            BY <2>1, <2>2, Zenon
        <3> QED BY <1>1, <2>1, <2>2, <3>1, <3>2, Zenon DEF Matching
    <2>3. CASE Head(chunk).kind \notin flags
        <3>1. is_terminal' = FALSE /\ rpc' = "enqueue"
            <4>1. (Head(chunk).kind \in flags) = FALSE
                BY <2>3
            <4>2. is_terminal' = FALSE
                BY <2>1, <4>1, Zenon
            <4> QED BY <2>1, <4>2, Zenon
        <3> QED BY <3>1, Zenon DEF Matching
    <2> QED BY <2>2, <2>3, Zenon
<1>6. CASE Match
    <2>1. rpc = "match" /\ Head(chunk).cmd # 0
        BY <1>1, <1>6, Zenon DEF Match, Matching
    <2>2. upc = "wait" /\ waiting = TRUE /\ command_id = active_command_id
        BY <1>1, <2>1, Asked, Zenon DEF Matching, Asking
    <2>3. /\ rpc' = "enqueue" /\ waiting' = FALSE /\ ended_by' = Head(chunk)
          /\ UNCHANGED <<upc, chunk, command_id, active_command_id>>
        BY <1>6, <2>2, Zenon DEF Match, Complete, calling
    <2> QED BY <2>2, <2>3, Zenon DEF Matching, EndedBy
<1>7. CASE ModemAnswers \/ PlainUrc \/ ParseEndFlags \/ WriteFails \/ Prepare \/ Write \/ Wakeup
           \/ UNCHANGED commandVars
    BY <1>2, <1>7, Zenon DEF ModemAnswers, PlainUrc, ParseEndFlags, WriteFails, Prepare, Write, Wakeup,
       commandVars, reading
<1> QED BY <1>3, <1>4, <1>5, <1>6, <1>7, Zenon DEF CalmStep, UbusStep, ReaderStep

\* until an answer is complete, what was and will be said is it and unsolicited lines
LEMMA ArrivingKept ==
    ASSUME CommandTyped, CommandInv, CalmStep
    PROVE  Arriving'
<1>1. /\ said \in Seq(Line) /\ chunk \in Seq(Line) /\ wire \in Seq(Line)
      /\ pending \in Seq(Line) /\ Collected \in Seq(Line) /\ Stream \in Seq(Line)
      /\ rpc # "collect" => Collected = said
    BY StreamTyped, Zenon
<1>2. waiting \in BOOLEAN /\ active_command_id \in Nat /\ answer \in Seq(Kinds)
    BY DEF CommandTyped, CommandTypeOK
<1>3. SUFFICES ASSUME Asking'
               PROVE  /\ Answers(Stream', answer', active_command_id')
                      /\ rpc' \in {"lines", "check", "match", "enqueue"} =>
                             Leftover' \/ Suffix(chunk', said')
    BY Zenon DEF Arriving, Answers, Suffix
<1>4. ASSUME Asking, UNCHANGED <<answer, active_command_id>>, Stream' = Stream
      PROVE  Answers(Stream', answer', active_command_id')
    BY <1>4, Zenon DEF CommandInv, Arriving
<1>5. CASE Write
    <2> DEFINE b == [i \in DOMAIN answer |-> [kind |-> answer[i], cmd |-> active_command_id]]
    <2>1. /\ upc = "prepared" /\ pending' = pending \o b
          /\ UNCHANGED <<said, answer, active_command_id, rpc, chunk, is_terminal, wire>>
        BY <1>5, Zenon DEF Write, Accept, port, reading
    <2>2. pending = <<>> /\ Urcs(wire) /\ Leftover /\ Urcs(said)
        BY <2>1, Zenon DEF CommandInv, Silent, Command, Asking
    <2>3. Urcs(Collected)
        <3>1. rpc = "collect" => Urcs(chunk)
            BY <2>2, Zenon DEF Leftover
        <3>2. CASE rpc = "collect"
            <4>1. Urcs(said \o chunk)
                BY <1>1, <2>2, <3>1, <3>2, UrcsOf, Zenon
            <4> QED BY <3>2, <4>1, Zenon DEF Collected
        <3>3. CASE rpc # "collect"
            BY <1>1, <2>2, <3>3, Zenon
        <3> QED BY <3>2, <3>3, Zenon
    <2>4. Urcs(Collected \o wire) /\ Collected \o wire \in Seq(Line)
        BY <1>1, <2>2, <2>3, UrcsOf, ConcatProperties, Zenon
    <2>5. b \in Seq(Line) /\ Answers((Collected \o wire) \o b, answer, active_command_id)
        BY <1>2, <2>4, AnswerAppended, Zenon
    <2> HIDE DEF b
    <2>6. Stream' = (Collected \o wire) \o b
        <3>1. Collected' = Collected
            BY <2>1, Zenon DEF Collected
        <3>2. pending' = b
            BY <2>1, <2>2, <2>5, ConcatEmptySeq, Zenon
        <3> QED BY <2>1, <3>1, <3>2, Zenon DEF Stream
    <2>7. Leftover'
        BY <2>1, <2>2, Zenon DEF Leftover, Urcs
    <2> QED BY <2>1, <2>5, <2>6, <2>7, Zenon
<1>6. CASE ~Write
    <2>1. Asking /\ UNCHANGED <<answer, active_command_id>>
        BY <1>2, <1>3, <1>6, Zenon DEF CalmStep, UbusStep, ReaderStep, Asking, ModemAnswers, PlainUrc,
           ParseEndFlags, WriteFails, Prepare, Wakeup, ReadLines, Collect, Overflow, Peek,
           CheckEndFlags, Match, Complete, Enqueue, Prompt, commandVars, port, calling
    <2>2. /\ Answers(Stream, answer, active_command_id)
          /\ rpc \in {"lines", "check", "match", "enqueue"} => Leftover \/ Suffix(chunk, said)
        BY <2>1, Zenon DEF CommandInv, Arriving
    <2>3. ASSUME UNCHANGED <<said, chunk, rpc, is_terminal>>,
                 rpc' \in {"lines", "check", "match", "enqueue"}
          PROVE  Leftover' \/ Suffix(chunk', said')
        BY <2>2, <2>3, Zenon DEF Leftover, Urcs, Suffix
    <2>4. CASE ModemAnswers
        <3>1. /\ pending # <<>> /\ wire' = Append(wire, Head(pending)) /\ pending' = Tail(pending)
              /\ UNCHANGED <<said, chunk, rpc, is_terminal>>
            BY <2>4, Zenon DEF ModemAnswers, port, reading
        <3>2. (Collected \o Append(wire, Head(pending))) \o Tail(pending) = Stream
            BY <1>1, <3>1, MoveLine, ZenonT(30) DEF Stream
        <3>3. Stream' = Stream
            BY <3>1, <3>2, Zenon DEF Stream, Collected
        <3> QED BY <1>4, <2>1, <2>3, <3>1, <3>3, Zenon
    <2>5. CASE PlainUrc
        <3>1. PICK k \in UrcKinds : wire' = Append(wire, [kind |-> k, cmd |-> 0])
            BY <2>5, Zenon DEF PlainUrc
        <3> DEFINE l == [kind |-> k, cmd |-> 0]
        <3>2. l \in Line /\ l.cmd = 0
            <4>1. k \in Kinds
                BY DEF Kinds
            <4> QED BY <4>1, Zenon DEF Line
        <3>3. UNCHANGED <<said, chunk, rpc, is_terminal, pending>>
            BY <2>5, Zenon DEF PlainUrc, port, reading
        <3> HIDE DEF l
        <3>4. Collected \o Append(wire, l) = Append(Collected \o wire, l)
            BY <1>1, <3>2, AppendLine, Zenon
        <3>5. Stream' = Append(Collected \o wire, l) \o pending
            BY <3>1, <3>3, <3>4, Zenon DEF Stream, Collected, l
        <3>6. Answers(Append(Collected \o wire, l) \o pending, answer, active_command_id)
            <4>1. Collected \o wire \in Seq(Line)
                BY <1>1, ConcatProperties, Zenon
            <4>2. Answers((Collected \o wire) \o pending, answer, active_command_id)
                BY <2>2, Zenon DEF Stream
            <4> QED BY <1>1, <1>2, <3>2, <4>1, <4>2, UrcInserted, Zenon
        <3> QED BY <2>1, <2>3, <3>3, <3>5, <3>6, Zenon
    <2>6. CASE ReadLines
        <3>1. PICK n \in 1..Len(wire) : /\ chunk' = SubSeq(wire, 1, n)
                                        /\ wire' = SubSeq(wire, n + 1, Len(wire))
            BY <2>6 DEF ReadLines
        <3>2. /\ rpc = "read" /\ rpc' = "collect" /\ UNCHANGED <<said, pending>>
            BY <2>6, Zenon DEF ReadLines, port
        <3>3. (said \o SubSeq(wire, 1, n)) \o SubSeq(wire, n + 1, Len(wire)) = said \o wire
            BY <1>1, SplitLines, Zenon
        <3>4. Stream' = Stream
            BY <1>1, <3>1, <3>2, <3>3, Zenon DEF Stream, Collected
        <3> QED BY <1>4, <2>1, <3>2, <3>4, Zenon
    <2>7. CASE Collect \/ Overflow
        <3>1. /\ rpc = "collect" /\ rpc' # "collect" /\ said' = said \o chunk
              /\ UNCHANGED <<wire, pending>>
            BY <2>1, <2>7, Zenon DEF Collect, Overflow, Store, Asking, modem
        <3>2. said' \in Seq(Line) /\ said' \o <<>> = said'
            BY <1>1, <3>1, ConcatProperties, ConcatEmptySeq, Zenon
        <3>3. Stream' = Stream
            BY <3>1, <3>2, Zenon DEF Stream, Collected
        <3>4. rpc' = "read" \/ chunk' = chunk
            BY <2>7, Zenon DEF Collect, Overflow
        <3>5. chunk' = chunk => Suffix(chunk', said')
            BY <1>1, <3>1 DEF Suffix
        <3> QED BY <1>4, <2>1, <3>3, <3>4, <3>5, Zenon
    <2>8. CASE Peek \/ CheckEndFlags
        <3>1. /\ UNCHANGED <<said, chunk, wire, pending>> /\ rpc # "collect"
              /\ rpc' # "collect" /\ rpc \in {"lines", "check"}
            BY <2>8, Zenon DEF Peek, CheckEndFlags, port, modem
        <3>2. Stream' = Stream
            BY <3>1, Zenon DEF Stream, Collected
        <3>3. Leftover' \/ Suffix(chunk', said')
            BY <2>2, <3>1, Zenon DEF Leftover, Urcs, Suffix
        <3> QED BY <1>4, <2>1, <3>2, <3>3, Zenon
    <2>9. CASE Enqueue \/ (Prompt /\ UNCHANGED port)
        <3>1. /\ chunk # <<>> /\ chunk' = Tail(chunk) /\ UNCHANGED <<said, wire, pending>>
              /\ rpc \in {"lines", "enqueue"} /\ rpc' # "collect"
            BY <2>9, Zenon DEF Enqueue, Prompt, port, modem, CommandTyped
        <3>2. Stream' = Stream
            BY <3>1, Zenon DEF Stream, Collected
        <3>3. CASE Leftover
            <4>1. Urcs(Tail(chunk))
                BY <1>1, <3>1, <3>3, UrcsOf, Zenon DEF Leftover
            <4>2. Leftover'
                BY <3>1, <4>1, Zenon DEF Leftover, Urcs
            <4> QED BY <1>4, <2>1, <3>2, <4>2, Zenon
        <3>4. CASE Suffix(chunk, said)
            <4>1. Suffix(Tail(chunk), said)
                BY <1>1, <3>1, <3>4, SuffixTail, Zenon
            <4>2. Suffix(chunk', said')
                BY <3>1, <4>1, Zenon
            <4> QED BY <1>4, <2>1, <3>2, <4>2
        <3> QED BY <2>2, <3>1, <3>3, <3>4, Zenon
    <2>10. CASE Match \/ Prompt
        <3>1. waiting' # FALSE
            BY <1>3, Zenon DEF Asking
        <3> QED BY <2>9, <2>10, <3>1, MatchStep, Zenon DEF Complete
    <2>11. CASE ParseEndFlags \/ WriteFails \/ Prepare \/ Wakeup
        BY <2>1, <2>11, Zenon DEF ParseEndFlags, WriteFails, Prepare, Wakeup, Asking
    <2>12. CASE UNCHANGED commandVars
        <3>1. UNCHANGED <<said, chunk, rpc, is_terminal, wire, pending>>
            BY <2>12, Zenon DEF commandVars, port, reading, modem
        <3>2. Stream' = Stream
            BY <3>1, Zenon DEF Stream, Collected
        <3> QED BY <1>4, <2>1, <2>3, <3>1, <3>2, Zenon
    <2> QED BY <1>6, <2>4, <2>5, <2>6, <2>7, <2>8, <2>9, <2>10, <2>11, <2>12, Zenon
            DEF CalmStep, UbusStep, ReaderStep
<1> QED BY <1>5, <1>6, Zenon

-------------------------------------------------------------------------------
(* What the daemon tells                                                   *)

LEMMA CommandInvNext ==
    ASSUME CommandTyped, CommandTyped', CommandInv, [CommandNext]_commandVars, Strays' = 0
    PROVE  CommandInv'
<1>1. CalmStep
    BY NoStrayYet, Zenon
<1> QED BY <1>1, LinesKept, CommandKept, SilentKept, AnsweredKept, ArrivingKept, MatchingKept,
           ToldKept, Zenon DEF CommandInv

\* what response is of all the lines s that were read: all of them if they fit
Part(p, s) ==
    /\ Len(s) <= MaxResponse => p = s
    /\ \A k \in 1..Len(p) : \E j \in 1..Len(s) : p[k] = s[j]

Kept == /\ Part(response, said)
        /\ \A r \in results : r.status = "done" => Part(r.response, r.said)

LEMMA PartGrows ==
    ASSUME NEW p \in Seq(Line), NEW s \in Seq(Line), NEW c \in Seq(Line), Part(p, s)
    PROVE  Part(IF Len(p) + Len(c) <= MaxResponse THEN p \o c ELSE p, s \o c)
<1>1. /\ Len(p) \in Nat /\ Len(s) \in Nat /\ Len(c) \in Nat /\ MaxResponse \in Nat
      /\ Len(p \o c) = Len(p) + Len(c) /\ Len(s \o c) = Len(s) + Len(c)
    BY CommandBounds
<1>2. ASSUME NEW k \in 1..Len(p) PROVE \E j \in 1..Len(s \o c) : p[k] = (s \o c)[j]
    <2>1. PICK j \in 1..Len(s) : p[k] = s[j]
        BY Zenon DEF Part
    <2>2. j \in 1..Len(s \o c) /\ (s \o c)[j] = s[j]
        BY <1>1
    <2> QED BY <2>1, <2>2, Zenon
<1>3. CASE Len(p) + Len(c) <= MaxResponse
    <2>1. Len(s \o c) <= MaxResponse => p = s
        BY <1>1 DEF Part
    <2>2. ASSUME NEW k \in 1..Len(p \o c) PROVE \E j \in 1..Len(s \o c) : (p \o c)[k] = (s \o c)[j]
        <3>1. CASE k \in 1..Len(p)
            <4>1. (p \o c)[k] = p[k]
                BY <3>1
            <4> QED BY <1>2, <3>1, <4>1, Zenon
        <3>2. CASE k \notin 1..Len(p)
            <4>1. k - Len(p) \in 1..Len(c) /\ (p \o c)[k] = c[k - Len(p)]
                BY <1>1, <2>2, <3>2
            <4>2. \A i \in 1..Len(c) : Len(s) + i \in 1..Len(s \o c) /\ (s \o c)[Len(s) + i] = c[i]
                BY <1>1
            <4> QED BY <4>1, <4>2, Zenon
        <3> QED BY <3>1, <3>2, Zenon
    <2> QED BY <1>3, <2>1, <2>2, Zenon DEF Part
<1>4. CASE ~(Len(p) + Len(c) <= MaxResponse)
    <2>1. ~(Len(s \o c) <= MaxResponse)
        BY <1>1, <1>4 DEF Part
    <2> QED BY <1>2, <1>4, <2>1, Zenon DEF Part
<1> QED BY <1>3, <1>4, Zenon

LEMMA KeptNext ==
    ASSUME CommandTyped, Kept, [CommandNext]_commandVars
    PROVE  Kept'
<1>1. Part(response, said)'
    <2>1. CASE UNCHANGED <<response, said>>
        BY <2>1, Zenon DEF Kept, Part
    <2>2. CASE Prepare
        <3>1. response' = <<>> /\ said' = <<>>
            BY <2>2, Zenon DEF Prepare
        <3>2. Part(<<>>, <<>>)
            BY DEF Part
        <3> QED BY <3>1, <3>2, Zenon
    <2>3. CASE Collect \/ Overflow
        <3>1. /\ response \in Seq(Line) /\ said \in Seq(Line) /\ chunk \in Seq(Line)
              /\ Part(response, said)
            BY Zenon DEF CommandTyped, CommandTypeOK, Kept
        <3>2. Part(IF Len(response) + Len(chunk) <= MaxResponse THEN response \o chunk ELSE response,
                   said \o chunk)
            BY <3>1, PartGrows, Zenon
        <3>3. CASE waiting
            BY <2>3, <3>2, <3>3, Zenon DEF Collect, Overflow, Store
        <3>4. CASE ~waiting
            BY <2>1, <2>3, <3>4, Zenon DEF Collect, Overflow, Store
        <3> QED BY <3>3, <3>4, Zenon
    <2>4. CASE ~(Prepare \/ Collect \/ Overflow)
        <3>1. UNCHANGED <<response, said>>
            BY <2>4, Zenon DEF CommandNext, UbusStep, ReaderStep, ModemAnswers, ModemUrc,
               ParseEndFlags, WriteFails, Timeout, SendOnly, Write, Wakeup, ReadLines, Peek,
               CheckEndFlags, Match, Complete, Enqueue, Prompt, commandVars, port
        <3> QED BY <2>1, <3>1, Zenon
    <2> QED BY <2>2, <2>3, <2>4, Zenon
<1>2. ASSUME NEW r \in results', r.status = "done" PROVE Part(r.response, r.said)
    <2>1. CASE r \in results
        BY <1>2, <2>1, Zenon DEF Kept
    <2>2. CASE r \notin results
        <3>1. WriteFails \/ Wakeup \/ Timeout
            BY <2>2, Zenon DEF CommandNext, UbusStep, ReaderStep, ModemAnswers, ModemUrc,
               ParseEndFlags, SendOnly, Prepare, Write, ReadLines, Collect, Overflow, Peek,
               CheckEndFlags, Match, Enqueue, Prompt, commandVars, calling
        <3>2. r.status # "done" \/ \E x : r = Result(x)
            <4>1. CASE WriteFails
                BY <2>2, <4>1 DEF WriteFails, Result
            <4> QED BY <2>2, <3>1, <4>1, Zenon DEF Wakeup, Timeout
        <3>3. r.response = response /\ r.said = said
            BY <1>2, <3>2 DEF Result
        <3> QED BY <3>3, Zenon DEF Kept
    <2> QED BY <2>1, <2>2, Zenon
<1> QED BY <1>1, <1>2, Zenon DEF Kept, Part

LEMMA CommandInvariant == CommandSpec => [](CommandTyped /\ NoStray /\ Kept)
<1>1. CommandInit => CommandTyped /\ NoStray /\ Kept
    <2>1. Part(<<>>, <<>>)
        BY DEF Part
    <2>2. CommandInit => Kept
        BY <2>1, Zenon DEF CommandInit, Kept
    <2> QED BY <2>2, CommandTypedInit, CommandInvInit, Zenon DEF NoStray
<1>2. CommandTyped /\ NoStray /\ Kept /\ [CommandNext]_commandVars => (CommandTyped /\ NoStray /\ Kept)'
    <2> SUFFICES ASSUME CommandTyped, NoStray, Kept, [CommandNext]_commandVars
                 PROVE  CommandTyped' /\ NoStray' /\ Kept'
        BY Zenon
    <2>1. CommandTyped'
        BY CommandTypedNext, Zenon
    <2>2. ASSUME Strays' = 0 PROVE CommandInv'
        <3>1. CommandInv
            BY <2>1, <2>2, NoStrayYet, Zenon DEF NoStray
        <3> QED BY <2>1, <2>2, <3>1, CommandInvNext, Zenon
    <2>3. Kept'
        BY KeptNext, Zenon
    <2> QED BY <2>1, <2>2, <2>3, Zenon DEF NoStray
<1> QED BY <1>1, <1>2, PTL DEF CommandSpec

\* Every command that reader_thread_func completes is ended by the last line of its own
\* answer, when the modem has said that whole answer, in order, and no line of another; the
\* caller gets all of it that was read if it fits the response buffer, and otherwise only
\* lines of it, however the URCs, read() chunks and the two threads interleave; for any
\* number of commands and lines, any answers and any size of that buffer, as long as no
\* line reads like what it is not.
THEOREM CallersGetTheirAnswer == CommandSpec => []OwnAnswer
<1>1. CommandTyped /\ NoStray /\ Kept => OwnAnswer
    <2> SUFFICES ASSUME NoStray, Kept, Strays = 0, NEW r \in results, r.status = "done"
                 PROVE  /\ r.ended_by.cmd = r.id
                        /\ \E t \in CommandTypes : Answers(r.said, t.answer, r.id)
                        /\ \A k \in 1..Len(r.response) : r.response[k].cmd \in {0, r.id}
                        /\ Len(r.said) <= MaxResponse => r.response = r.said
        BY Zenon DEF OwnAnswer
    <2>1. r.ended_by.cmd = r.id
        BY Zenon DEF NoStray, CommandInv, Told
    <2>2. PICK t \in CommandTypes : Answers(r.said, t.answer, r.id)
        BY Zenon DEF NoStray, CommandInv, Told
    <2>3. Part(r.response, r.said)
        BY Zenon DEF Kept
    <2>4. ASSUME NEW j \in 1..Len(r.said) PROVE r.said[j].cmd \in {0, r.id}
        <3>1. PICK at \in [1..Len(t.answer) -> 1..Len(r.said)] :
                  /\ \A i \in 1..Len(t.answer) :
                        r.said[at[i]] = [kind |-> t.answer[i], cmd |-> r.id]
                  /\ \A k \in 1..Len(r.said) :
                        r.said[k].cmd # 0 => \E i \in 1..Len(t.answer) : at[i] = k
            BY <2>2, Zenon DEF Answers
        <3>2. CASE r.said[j].cmd # 0
            <4>1. PICK i \in 1..Len(t.answer) : at[i] = j
                BY <3>1, <3>2, Zenon
            <4>2. r.said[j] = [kind |-> t.answer[i], cmd |-> r.id]
                BY <3>1, <4>1, Zenon
            <4> QED BY <4>2
        <3> QED BY <3>2, Zenon
    <2>5. \A k \in 1..Len(r.response) : r.response[k].cmd \in {0, r.id}
        BY <2>3, <2>4, Zenon DEF Part
    <2> QED BY <2>1, <2>2, <2>3, <2>5, Zenon DEF Part
<1> QED BY <1>1, CommandInvariant, PTL

\* A subscriber of line events and the caller of send_at_command_with_response agree on the
\* line that ended a command, although the event is queued after the caller was signalled.
THEOREM TerminalEventsAreAnswers == CommandSpec => []TerminalEventIsAnswer
<1>1. CommandTyped /\ NoStray => TerminalEventIsAnswer
    BY Zenon DEF NoStray, CommandInv, Told, EndedBy, TerminalEventIsAnswer
<1> QED BY <1>1, CommandInvariant, PTL
===============================================================================
