--------------------------- MODULE LineEventsProofs ---------------------------
(***************************************************************************)
(* Proofs about the line-event queue for any number of ports, any ring of  *)
(* at least two entries, any drain budget and any pipe.                    *)
(***************************************************************************)
EXTENDS LineEvents, SequenceTheorems, FiniteSetTheorems, TLAPS

\* What TypeOK needs to be inductive: the loop tests the budget before it takes
\* an entry, so an entry in hand leaves room for one more publication.
Inv == TypeOK /\ (consumer = "publishing" => published < Budget)

\* The tail of a typed, non-empty ring is typed and one entry shorter.
LEMMA TailTyped ==
    ASSUME NEW q \in Seq(Entry), q # <<>>
    PROVE  /\ Tail(q) \in Seq(Entry)
           /\ Head(q) \in Entry
           /\ Len(Tail(q)) = Len(q) - 1
           /\ \A i \in 1..Len(Tail(q)) : Tail(q)[i] = q[i + 1]
           /\ Head(q) = q[1]
           /\ Len(q) >= 1
  BY HeadTailProperties, EmptySeq

\* Rewriting the loss marker of the first entry keeps the ring typed.
LEMMA MarkTyped ==
    ASSUME NEW q \in Seq(Entry), Len(q) >= 1, NEW n \in Nat
    PROVE  /\ Mark(q, n) \in Seq(Entry)
           /\ Len(Mark(q, n)) = Len(q)
  <1>1. q[1] \in Entry
    BY ElementOfSeq
  <1>2. [q[1] EXCEPT !.drop_count = n] \in Entry
    BY <1>1, Zenon DEF Entry
  <1>3. [q EXCEPT ![1] = [q[1] EXCEPT !.drop_count = n]] \in Seq(Entry)
    BY <1>2, ExceptSeq
  <1> QED BY <1>1, <1>2, <1>3, ExceptSeq DEF Mark

\* Appending a typed entry keeps the ring typed and its prefix unchanged.
LEMMA AppendTyped ==
    ASSUME NEW q \in Seq(Entry), NEW e \in Entry
    PROVE  /\ Append(q, e) \in Seq(Entry)
           /\ Len(Append(q, e)) = Len(q) + 1
           /\ \A i \in 1..Len(q) : Append(q, e)[i] = q[i]
           /\ Append(q, e)[Len(q) + 1] = e
           /\ Append(q, e) # <<>>
  BY AppendProperties

\* A line that has been numbered makes a typed entry.
LEMMA NewEntryTyped ==
    ASSUME TypeOK, NEW p \in Ports, NEW n \in Nat
    PROVE  NewEntry(p, n) \in Entry /\ NewEntry(p, n).drop_count = n
  BY Zenon DEF TypeOK, NewEntry, Entry

\* the ring starts empty and the consumer idle
LEMMA InitInv == Init => Inv
  BY BudgetAssumption, PipeAssumption, EmptySeq, CapacityAssumption
     DEF Init, Inv, TypeOK, Entry, NoLine

\* the invariant is inductive
LEMMA NextInv == Inv /\ [Next]_vars => Inv'
  <1> SUFFICES ASSUME Inv, [Next]_vars PROVE Inv'
    OBVIOUS
  <1> USE DEF Inv, queueVars, readerVars, consumerVars, seenVars
  <1>1. ASSUME NEW p \in Ports, NextLineEventState(p) PROVE Inv'
    BY <1>1, SMTT(30) DEF NextLineEventState, TypeOK
  <1>2. ASSUME NEW p \in Ports, AdvanceRestartEpoch(p) PROVE Inv'
    BY <1>2, SMTT(40) DEF AdvanceRestartEpoch, TypeOK
  <1>3. ASSUME NEW p \in Ports, DropOversized(p) PROVE Inv'
    BY <1>3 DEF DropOversized, NoLine, TypeOK
  <1>4. ASSUME NEW p \in Ports, Append_(p) PROVE Inv'
    <2>1. NewEntry(p, pending) \in Entry
      BY NewEntryTyped, Zenon DEF TypeOK
    <2>2. queue' \in Seq(Entry) /\ Len(queue') <= Capacity
      BY <1>4, <2>1, AppendTyped, CapacityAssumption DEF Append_, TypeOK
    <2> QED BY <1>4, <2>2, Zenon DEF Append_, TypeOK
  <1>5. ASSUME NEW p \in Ports, Overwrite(p) PROVE Inv'
    <2> DEFINE marked == Mark(Tail(queue), drop_count')
    <2>1. NewEntry(p, 0) \in Entry
      BY NewEntryTyped
    <2>2. /\ Tail(queue) \in Seq(Entry)
          /\ Len(Tail(queue)) = Capacity - 1
      BY <1>5, TailTyped, EmptySeq, CapacityAssumption DEF Overwrite, TypeOK
    <2>3. drop_count' \in Nat /\ Len(Tail(queue)) >= 1
      BY <1>5, <2>2, CapacityAssumption DEF Overwrite, TypeOK
    <2>4. marked \in Seq(Entry) /\ Len(marked) = Capacity - 1
      BY <2>2, <2>3, MarkTyped, Zenon
    <2>5. queue' \in Seq(Entry) /\ Len(queue') <= Capacity
      BY <1>5, <2>1, <2>4, AppendTyped, CapacityAssumption DEF Overwrite
    <2> QED BY <1>5, <2>5, SMTT(40) DEF Overwrite, TypeOK
  <1>6. ASSUME NEW p \in Ports, NotifyConsumer(p) PROVE Inv'
    BY <1>6, PipeAssumption DEF NotifyConsumer, WriteNotification, NoLine, TypeOK
  <1>7. CASE DrainPipe
    BY <1>7, PipeAssumption, BudgetAssumption DEF DrainPipe, TypeOK
  <1>8. CASE Dequeue
    <2>1. /\ Head(queue) \in Entry
          /\ Tail(queue) \in Seq(Entry)
          /\ Len(Tail(queue)) <= Capacity
      BY <1>8, TailTyped, CapacityAssumption DEF Dequeue, TypeOK
    <2> QED BY <1>8, <2>1 DEF Dequeue, TypeOK
  <1>9. CASE Publish
    <2>1. event.port \in Ports /\ event.epoch \in Nat /\ event.sequence \in Nat
             /\ event.drop_count \in Nat
      BY DEF TypeOK, Entry
    <2>2. last[event.port].sequence \in Nat
      BY <2>1 DEF TypeOK
    <2>3. last' \in [Ports -> [epoch : Nat, sequence : Nat]]
      BY <1>9, <2>1 DEF Publish, TypeOK
    <2>4. missed' \in Int /\ announced' \in Nat
      BY <1>9, <2>1, <2>2 DEF Publish, TypeOK
    <2>5. published' \in 0..Budget
      BY <1>9, BudgetAssumption DEF Publish, TypeOK
    <2> QED BY <1>9, <2>3, <2>4, <2>5, Zenon DEF Publish, TypeOK
  <1>10. CASE StopDraining
    BY <1>10 DEF StopDraining, TypeOK
  <1>11. CASE CheckRemaining
    BY <1>11 DEF CheckRemaining, TypeOK
  <1>12. CASE Rearm
    BY <1>12, PipeAssumption DEF Rearm, WriteNotification, TypeOK
  <1>13. CASE UNCHANGED vars
    BY <1>13 DEF vars, TypeOK
  <1>14. ASSUME NEW p \in Ports, RecreateInstance(p) PROVE Inv'
    BY <1>14 DEF RecreateInstance, TypeOK
  <1> QED
    BY <1>1, <1>2, <1>3, <1>4, <1>5, <1>6, <1>7, <1>8, <1>9, <1>10, <1>11, <1>12,
       <1>13, <1>14 DEF Next, Read, Enqueue, Consume

\* The ring never exceeds AT_LINE_QUEUE_CAPACITY, a wake-up never publishes more
\* than the budget, and all state keeps its type (at_line_event_enqueue,
\* at_line_events_consume).
THEOREM TypeCorrect == Spec => []TypeOK
  <1>1. Inv => TypeOK
    BY DEF Inv
  <1> QED BY <1>1, InitInv, NextInv, PTL DEF Spec

-------------------------------------------------------------------------------
\* Entries in the ring always have somebody on the way to publish them, although
\* the pipe is drained before the ring and writes to a full pipe are ignored
\* (notify_consumer, at_line_events_consume).
THEOREM WakeupKept == Spec => []NoLostWakeup
  <1>1. Init => NoLostWakeup
    BY DEF Init, NoLostWakeup
  <1>2. Inv /\ NoLostWakeup /\ [Next]_vars => NoLostWakeup'
    <2> SUFFICES ASSUME Inv, NoLostWakeup, [Next]_vars PROVE NoLostWakeup'
      OBVIOUS
    <2> USE DEF Inv, TypeOK, NoLostWakeup, queueVars, readerVars, consumerVars,
                seenVars
    <2>1. ASSUME NEW p \in Ports, Read(p) PROVE NoLostWakeup'
      BY <2>1, Zenon DEF Read, NextLineEventState, AdvanceRestartEpoch, RecreateInstance
    <2>2. ASSUME NEW p \in Ports, DropOversized(p) PROVE NoLostWakeup'
      BY <2>2 DEF DropOversized
    <2>3. ASSUME NEW p \in Ports, Append_(p) \/ Overwrite(p) PROVE NoLostWakeup'
      <3>1. reader'[p] = "enqueued"
        BY <2>3 DEF Append_, Overwrite
      <3> QED BY <3>1
    <2>4. ASSUME NEW p \in Ports, NotifyConsumer(p) PROVE NoLostWakeup'
      <3>1. pipe' > 0
        BY <2>4, PipeAssumption DEF NotifyConsumer, WriteNotification
      <3> QED BY <3>1
    <2>5. CASE DrainPipe \/ Dequeue \/ Publish \/ StopDraining
      <3>1. consumer' # "polling"
        BY <2>5 DEF DrainPipe, Dequeue, Publish, StopDraining
      <3> QED BY <3>1
    <2>6. CASE CheckRemaining
      BY <2>6 DEF CheckRemaining
    <2>7. CASE Rearm
      <3>1. pipe' > 0
        BY <2>7, PipeAssumption DEF Rearm, WriteNotification
      <3> QED BY <3>1
    <2>8. CASE UNCHANGED vars
      BY <2>8 DEF vars
    <2> QED BY <2>1, <2>2, <2>3, <2>4, <2>5, <2>6, <2>7, <2>8
            DEF Next, Enqueue, Consume
  <1> QED BY <1>1, <1>2, InitInv, NextInv, PTL DEF Spec

-------------------------------------------------------------------------------
\* A loss is reported or on its way to be reported, whichever of the oversized
\* line, the overflow marker and the pending count recorded it
\* (at_line_event_enqueue, at_line_event_dequeue).
THEOREM LossRemembered == Spec => []NoLossForgotten
  <1>1. Init => NoLossForgotten
    BY DEF Init, NoLossForgotten
  <1>2. Inv /\ NoLossForgotten /\ [Next]_vars => NoLossForgotten'
    <2> SUFFICES ASSUME Inv, NoLossForgotten, [Next]_vars
                 PROVE  NoLossForgotten'
      OBVIOUS
    <2> USE DEF Inv, queueVars, readerVars, consumerVars, seenVars
    <2>1. ASSUME NEW p \in Ports, Read(p) PROVE NoLossForgotten'
      BY <2>1 DEF Read, NextLineEventState, AdvanceRestartEpoch, RecreateInstance,
                  NoLossForgotten
    <2>2. ASSUME NEW p \in Ports, DropOversized(p) \/ Overwrite(p)
          PROVE  NoLossForgotten'
      BY <2>2 DEF DropOversized, Overwrite, NoLossForgotten
    <2>3. ASSUME NEW p \in Ports, Append_(p) PROVE NoLossForgotten'
      <3>1. NewEntry(p, pending) \in Entry /\ NewEntry(p, pending).drop_count = pending
        BY NewEntryTyped, Zenon DEF TypeOK
      <3>2. /\ Len(queue') = Len(queue) + 1
            /\ \A i \in 1..Len(queue) : queue'[i] = queue[i]
            /\ queue'[Len(queue) + 1].drop_count = pending
            /\ Len(queue) \in Nat
        BY <2>3, <3>1, AppendTyped DEF Append_, TypeOK
      <3>3. UNCHANGED <<drop_count, announced, consumer, event>>
        BY <2>3 DEF Append_
      <3>4. CASE pending = drop_count
        BY <3>2, <3>3, <3>4 DEF NoLossForgotten
      <3>5. CASE \E i \in 1..Len(queue) : queue[i].drop_count = drop_count
        BY <3>2, <3>3, <3>5 DEF NoLossForgotten
      <3> QED BY <3>3, <3>4, <3>5 DEF NoLossForgotten
    <2>4. ASSUME NEW p \in Ports, NotifyConsumer(p) PROVE NoLossForgotten'
      BY <2>4 DEF NotifyConsumer, NoLossForgotten
    <2>5. CASE DrainPipe \/ StopDraining \/ CheckRemaining \/ Rearm
      BY <2>5 DEF DrainPipe, StopDraining, CheckRemaining, Rearm, NoLossForgotten
    <2>6. CASE Dequeue
      <3>1. /\ \A i \in 1..Len(queue') : queue'[i] = queue[i + 1]
            /\ Len(queue') = Len(queue) - 1
            /\ Len(queue) \in Nat
            /\ event' = queue[1]
        BY <2>6, TailTyped DEF Dequeue, TypeOK
      <3>2. UNCHANGED <<drop_count, announced>> /\ consumer' = "publishing"
        BY <2>6 DEF Dequeue
      <3>3. CASE event'.drop_count = drop_count
        BY <3>2, <3>3 DEF NoLossForgotten
      <3>4. CASE event'.drop_count # drop_count /\ pending = drop_count
        BY <2>6, <3>2, <3>4 DEF Dequeue, NoLossForgotten
      <3>5. ASSUME NEW i \in 1..Len(queue), queue[i].drop_count = drop_count,
                   event'.drop_count # drop_count
            PROVE  NoLossForgotten'
        <4>1. i - 1 \in 1..Len(queue') /\ queue'[i - 1] = queue[i]
          BY <3>1, <3>5
        <4> QED BY <3>2, <3>5, <4>1 DEF NoLossForgotten
      <3>6. consumer # "publishing"
        BY <2>6 DEF Dequeue
      <3> QED BY <3>2, <3>3, <3>4, <3>5, <3>6 DEF NoLossForgotten
    <2>7. CASE Publish
      <3> DEFINE d == event.drop_count
      <3>0. announced \in Nat /\ d \in Nat
        BY DEF TypeOK, Entry
      <3>a. announced' = IF d > announced THEN d ELSE announced
        BY <2>7 DEF Publish
      <3>1. announced' >= announced /\ announced' >= d
        <4> HIDE DEF d
        <4> QED BY <3>0, <3>a
      <3>2. UNCHANGED <<queue, drop_count, pending>>
        BY <2>7 DEF Publish
      <3>3. announced' \in Int /\ announced \in Int /\ drop_count \in Int
        BY NextInv DEF TypeOK
      <3> QED BY <3>1, <3>2, <3>3 DEF NoLossForgotten
    <2>8. CASE UNCHANGED vars
      BY <2>8 DEF vars, NoLossForgotten
    <2> QED BY <2>1, <2>2, <2>3, <2>4, <2>5, <2>6, <2>7, <2>8
            DEF Next, Enqueue, Consume
  <1> QED BY <1>1, <1>2, InitInv, NextInv, PTL DEF Spec

-------------------------------------------------------------------------------
(* Where every line is                                                     *)

\* Where the entries are that wait to be published, the one in hand at 0, and the
\* entry at a place
Place == 1..Len(queue) \cup (IF consumer = "publishing" THEN {0} ELSE {})
At(i) == IF i = 0 THEN event ELSE queue[i]

\* the sequence of the last line that its reader has enqueued or dropped
Done(p) == IF reader[p] = "numbered" THEN sequence[p] - 1 ELSE sequence[p]

Line == Ports \X (1..MaxLines)
Waiting == {<<At(i).port, At(i).sequence>> : i \in Place}

\* the lines that were lost and that the subscriber has not been able to miss yet, and
\* those it will miss once everything up to place i is published
Lost == {l \in Line : /\ last[l[1]].sequence < l[2] /\ l[2] <= Done(l[1])
                      /\ l \notin Waiting}
Hole(i) == {l \in Lost : \E j \in Place : /\ j <= i /\ At(j).port = l[1]
                                          /\ l[2] < At(j).sequence}

\* lines and epochs of a port that has its first instance wait in order, behind what
\* was published
PortOrder(p) ==
    /\ last[p].sequence <= Done(p) /\ sequence[p] <= MaxLines
    /\ reader[p] = "numbered" => line[p].sequence = sequence[p] /\ line[p].epoch = epoch[p]
    /\ last[p].epoch <= epoch[p] /\ epoch[p] <= MaxReopens
Behind(i) ==
    /\ last[At(i).port].sequence < At(i).sequence /\ At(i).sequence <= Done(At(i).port)
    /\ last[At(i).port].epoch <= At(i).epoch /\ At(i).epoch <= epoch[At(i).port]
InTurn(i, j) ==
    i < j /\ At(i).port = At(j).port =>
        At(i).sequence < At(j).sequence /\ At(i).epoch <= At(j).epoch
Order ==
    /\ \A p \in Ports \ renewed : PortOrder(p)
    /\ \A i \in Place : At(i).port \notin renewed => Behind(i)
    /\ \A i, j \in Place : At(i).port \notin renewed => InTurn(i, j)

\* the order while every port has its first instance
AllOrder ==
    /\ \A p \in Ports : PortOrder(p)
    /\ \A i \in Place : Behind(i)
    /\ \A i, j \in Place : InTurn(i, j)

\* a loss is visible or will be
Count == missed + Cardinality(Lost) = drop_count

\* no loss becomes visible before an entry with a counter that covers it
Covered ==
    /\ missed <= announced
    /\ \A i \in Place :
          \/ missed + Cardinality(Hole(i)) <= announced
          \/ \E j \in Place : j <= i /\ missed + Cardinality(Hole(i)) <= At(j).drop_count

StreamInv == Order /\ (renewed = {} => Count /\ Covered)

\* sets of lines are finite and can be counted
LEMMA Counting ==
    ASSUME NEW S, S \subseteq Line
    PROVE  /\ IsFiniteSet(S) /\ Cardinality(S) \in Nat
           /\ \A T : T \subseteq S => Cardinality(T) \in Nat /\ Cardinality(T) <= Cardinality(S)
           /\ \A l : l \notin S => Cardinality(S \cup {l}) = Cardinality(S) + 1
  <1>1. IsFiniteSet(1..MaxLines)
    BY BoundsAssumption, FS_Interval
  <1>2. IsFiniteSet(Line)
    BY <1>1, PortsAssumption, FS_Product, Zenon DEF Line
  <1>3. IsFiniteSet(S)
    BY <1>2, FS_Subset
  <1>4. Cardinality(S) \in Nat
    BY <1>3, FS_CardinalityType
  <1>5. \A T : T \subseteq S => Cardinality(T) \in Nat /\ Cardinality(T) <= Cardinality(S)
    <2> SUFFICES ASSUME NEW T \in SUBSET S
                 PROVE  Cardinality(T) \in Nat /\ Cardinality(T) <= Cardinality(S)
      OBVIOUS
    <2>1. IsFiniteSet(T) /\ Cardinality(T) <= Cardinality(S)
      BY <1>3, FS_Subset
    <2> QED BY <2>1, FS_CardinalityType
  <1>6. \A l : l \notin S => Cardinality(S \cup {l}) = Cardinality(S) + 1
    BY <1>3, FS_AddElement
  <1> QED BY <1>3, <1>4, <1>5, <1>6

\* the entries at the places
LEMMA PlaceTyped ==
    ASSUME TypeOK
    PROVE  /\ Len(queue) \in Nat /\ \A i \in Place : i \in 0..Len(queue) /\ At(i) \in Entry
           /\ \A i \in Place : /\ At(i).port \in Ports /\ At(i).sequence \in Nat
                               /\ At(i).epoch \in Nat /\ At(i).drop_count \in Nat
           /\ \A p \in Ports : /\ last[p].sequence \in Nat /\ last[p].epoch \in Nat
                               /\ Done(p) \in Int /\ sequence[p] \in Nat /\ epoch[p] \in Nat
                               /\ Done(p) <= sequence[p]
           /\ missed \in Int /\ announced \in Nat /\ drop_count \in Nat
  <1>1. Len(queue) \in Nat
    BY DEF TypeOK
  <1>2. \A i \in Place : i \in 0..Len(queue) /\ At(i) \in Entry
    BY <1>1 DEF TypeOK, Place, At
  <1>3. \A i \in Place : /\ At(i).port \in Ports /\ At(i).sequence \in Nat
                         /\ At(i).epoch \in Nat /\ At(i).drop_count \in Nat
    BY <1>2 DEF Entry
  <1>4. \A p \in Ports : /\ last[p].sequence \in Nat /\ last[p].epoch \in Nat
                         /\ Done(p) \in Int /\ sequence[p] \in Nat /\ epoch[p] \in Nat
    BY DEF TypeOK, Done
  <1>5. \A p \in Ports : Done(p) <= sequence[p]
    BY <1>4 DEF Done
  <1> QED BY <1>1, <1>2, <1>3, <1>4, <1>5 DEF TypeOK

\* Lost and Hole are sets of lines
LEMMA HoleLost == Lost \subseteq Line /\ \A i : Hole(i) \subseteq Lost
  BY DEF Lost, Hole

\* the entries only move by k places: at_line_event_dequeue, and steps that leave them alone
LEMMA Moved ==
    ASSUME TypeOK, Count, Covered, NEW k \in {0, 1},
           Place' = {i - k : i \in Place}, \A i \in Place : At(i - k)' = At(i),
           UNCHANGED <<last, missed, announced, drop_count>>,
           \A p \in Ports : Done(p)' = Done(p)
    PROVE  Count' /\ Covered'
  <1>1. \A i \in Place : i \in Int
    BY PlaceTyped
  <1>2. Waiting' = Waiting
    BY DEF Waiting
  <1>3. Lost' = Lost
    BY <1>2 DEF Lost, Line
  <1>4. \A i, j \in Place : j - k <= i - k <=> j <= i
    BY <1>1
  <1>5. \A i \in Place : Hole(i - k)' = Hole(i)
    <2> SUFFICES ASSUME NEW i \in Place PROVE Hole(i - k)' = Hole(i)
      OBVIOUS
    <2>1. ASSUME NEW l \in Lost
          PROVE  (\E j \in Place' : j <= i - k /\ At(j)'.port = l[1] /\ l[2] < At(j)'.sequence)
                 <=> \E j \in Place : j <= i /\ At(j).port = l[1] /\ l[2] < At(j).sequence
      BY <1>4
    <2> QED BY <1>3, <2>1 DEF Hole
  <1>6. Count'
    BY <1>3 DEF Count
  <1>7. ASSUME NEW i \in Place
        PROVE  \/ missed + Cardinality(Hole(i - k)') <= announced
               \/ \E j \in Place' : j <= i - k /\ missed + Cardinality(Hole(i - k)') <= At(j)'.drop_count
    <2>1. CASE missed + Cardinality(Hole(i)) <= announced
      BY <1>5, <2>1
    <2>2. CASE \E j \in Place : j <= i /\ missed + Cardinality(Hole(i)) <= At(j).drop_count
      BY <1>4, <1>5, <2>2
    <2> QED BY <2>1, <2>2 DEF Covered
  <1>8. missed' <= announced'
    BY DEF Covered
  <1> QED BY <1>6, <1>7, <1>8 DEF Covered

\* The line a reader hands over is the last one of its port: it is nowhere yet
LEMMA HandedOver ==
    ASSUME TypeOK, NEW p \in Ports, reader[p] = "numbered", NEW x, x # "numbered",
           reader' = [reader EXCEPT ![p] = x], UNCHANGED sequence,
           PortOrder(p), \A i \in Place : At(i).port = p => Behind(i)
    PROVE  /\ Done(p)' = sequence[p] /\ Done(p) = sequence[p] - 1
           /\ \A q \in Ports \ {p} : Done(q)' = Done(q)
           /\ sequence[p] \in 1..MaxLines /\ <<p, sequence[p]>> \in Line
           /\ <<p, sequence[p]>> \notin Waiting /\ <<p, sequence[p]>> \notin Lost
           /\ last[p].sequence < sequence[p]
           /\ \A i \in Place : At(i).port = p => At(i).sequence < sequence[p]
  <1>1. /\ Done(p)' = sequence[p] /\ Done(p) = sequence[p] - 1
        /\ \A q \in Ports \ {p} : Done(q)' = Done(q)
    BY DEF Done, TypeOK
  <1>2. sequence[p] \in Nat /\ last[p].sequence \in Nat /\ MaxLines \in Nat
    BY PlaceTyped, BoundsAssumption
  <1>3. last[p].sequence < sequence[p] /\ sequence[p] \in 1..MaxLines
    BY <1>1, <1>2 DEF PortOrder
  <1>4. \A i \in Place : At(i).port = p => At(i).sequence < sequence[p]
    BY <1>1, <1>2, PlaceTyped DEF Behind
  <1>5. <<p, sequence[p]>> \in Line
    BY <1>3 DEF Line
  <1>6. <<p, sequence[p]>> \notin Waiting
    <2> SUFFICES ASSUME NEW i \in Place, <<At(i).port, At(i).sequence>> = <<p, sequence[p]>>
                 PROVE  FALSE
      BY DEF Waiting
    <2>1. At(i).port = p /\ At(i).sequence = sequence[p]
      OBVIOUS
    <2> QED BY <1>2, <1>4, <2>1
  <1>7. <<p, sequence[p]>> \notin Lost
    <2> SUFFICES ASSUME sequence[p] <= Done(p) PROVE FALSE
      BY DEF Lost
    <2> QED BY <1>1, <1>2
  <1> QED BY <1>1, <1>3, <1>4, <1>5, <1>6, <1>7, Zenon

\* an oversized line is one more that is lost, and no entry behind it shows that yet
LEMMA DropCount ==
    ASSUME TypeOK, AllOrder, Count, Covered, NEW p \in Ports, DropOversized(p)
    PROVE  Count' /\ Covered'
  <1> DEFINE new == <<p, sequence[p]>>
  <1>1. /\ UNCHANGED <<queue, consumer, event, last, missed, announced, sequence>>
        /\ drop_count' = drop_count + 1 /\ reader[p] = "numbered"
        /\ reader' = [reader EXCEPT ![p] = "reading"]
    BY DEF DropOversized, consumerVars, seenVars
  <1>o. PortOrder(p) /\ \A i \in Place : At(i).port = p => Behind(i)
    BY Zenon DEF AllOrder
  <1>2. /\ Done(p)' = sequence[p] /\ Done(p) = sequence[p] - 1
        /\ \A q \in Ports \ {p} : Done(q)' = Done(q)
        /\ sequence[p] \in 1..MaxLines /\ new \in Line /\ new \notin Waiting /\ new \notin Lost
        /\ last[p].sequence < sequence[p]
        /\ \A i \in Place : At(i).port = p => At(i).sequence < sequence[p]
    BY <1>1, <1>o, HandedOver, Zenon
  <1>3. Place' = Place /\ (\A i : At(i)' = At(i)) /\ Waiting' = Waiting
    BY <1>1, Zenon DEF Place, At, Waiting
  <1>4. \A l \in Line : l[1] \in Ports /\ l[2] \in 1..MaxLines /\ l = <<l[1], l[2]>>
    BY DEF Line
  <1>5. \A q \in Ports, n \in 1..MaxLines :
            n <= Done(q)' <=> n <= Done(q) \/ (q = p /\ n = sequence[p])
    <2> SUFFICES ASSUME NEW q \in Ports, NEW n \in 1..MaxLines
                 PROVE  n <= Done(q)' <=> n <= Done(q) \/ (q = p /\ n = sequence[p])
      BY Zenon
    <2>1. CASE q = p
      BY <1>2, <2>1
    <2>2. CASE q # p
      BY <1>2, <2>2, Zenon
    <2> QED BY <2>1, <2>2, Zenon
  <1>6. Lost' = Lost \cup {new}
    <2>1. ASSUME NEW l \in Line PROVE l \in Lost' <=> l \in Lost \/ l = new
      <3>1. l[2] <= Done(l[1])' <=> l[2] <= Done(l[1]) \/ l = new
        BY <1>4, <1>5
      <3>2. l \in Lost' <=> last[l[1]].sequence < l[2] /\ l[2] <= Done(l[1])' /\ l \notin Waiting
        BY <1>1, <1>3, Zenon DEF Lost, Line
      <3>3. l = new => last[l[1]].sequence < l[2] /\ l \notin Waiting
        BY <1>2
      <3> QED BY <3>1, <3>2, <3>3, Zenon DEF Lost
    <2>2. Lost' \subseteq Line /\ Lost \subseteq Line
      BY Zenon DEF Lost, Line
    <2> QED BY <1>2, <2>1, <2>2, Zenon
  <1>7. \A i \in Place : Hole(i)' = Hole(i)
    <2> SUFFICES ASSUME NEW i \in Place, NEW j \in Place, At(j).port = p PROVE ~(sequence[p] < At(j).sequence)
      BY <1>3, <1>6 DEF Hole
    <2> QED BY <1>2, PlaceTyped
  <1>8. Cardinality(Lost') = Cardinality(Lost) + 1 /\ Cardinality(Lost) \in Nat
    BY <1>2, <1>6, HoleLost, Counting, Zenon
  <1>9. Count'
    BY <1>1, <1>8, PlaceTyped DEF Count
  <1>10. Covered'
    BY <1>1, <1>3, <1>7, Zenon DEF Covered
  <1> QED BY <1>9, <1>10

\* the places of the ring after an append, and after one that overwrites
LEMMA AppendPlaces ==
    ASSUME Inv, NEW p \in Ports, Append_(p), NEW n, n = Len(queue) + 1
    PROVE  /\ Place' = Place \cup {n} /\ n \notin Place /\ n # 0
           /\ \A i \in Place : i < n /\ At(i)' = At(i)
           /\ At(n)' = NewEntry(p, pending)
  <1>1. NewEntry(p, pending) \in Entry
    BY NewEntryTyped, Zenon DEF Inv, TypeOK
  <1>2. /\ Len(queue') = Len(queue) + 1 /\ Len(queue) \in Nat
        /\ \A i \in 1..Len(queue) : queue'[i] = queue[i]
        /\ queue'[Len(queue) + 1] = NewEntry(p, pending)
    BY <1>1, AppendTyped DEF Append_, Inv, TypeOK
  <1>3. UNCHANGED <<consumer, event>>
    BY DEF Append_, consumerVars
  <1>4. 1..Len(queue') = 1..Len(queue) \cup {Len(queue) + 1}
    BY <1>2
  <1>5. Place' = Place \cup {Len(queue) + 1}
    BY <1>3, <1>4 DEF Place
  <1>6. \A i \in Place : i \in 0..Len(queue)
    BY <1>2 DEF Place
  <1>7. \A i \in Place : At(i)' = At(i)
    BY <1>2, <1>3 DEF Place, At
  <1>8. At(n)' = NewEntry(p, pending)
    BY <1>2 DEF At
  <1> QED BY <1>2, <1>5, <1>6, <1>7, <1>8

LEMMA OverwritePlaces ==
    ASSUME Inv, NEW p \in Ports, Overwrite(p), NEW n, n = Len(queue)
    PROVE  /\ Place' = Place /\ n \in Nat /\ n >= 2 /\ 1 \in Place /\ n \in Place
           /\ \A i \in Place : i \in 0..n
           /\ 0 \in Place => At(0)' = At(0)
           /\ \A i \in Place \ {0, n} :
                 /\ i + 1 \in Place /\ At(i)'.port = At(i + 1).port
                 /\ At(i)'.sequence = At(i + 1).sequence /\ At(i)'.epoch = At(i + 1).epoch
           /\ At(1)'.drop_count = drop_count'
           /\ At(n)' = NewEntry(p, 0)
  <1> DEFINE t == Tail(queue)
             k == Mark(t, drop_count')
  <1>1. n \in Nat /\ n >= 2 /\ queue # <<>> /\ queue \in Seq(Entry)
    BY CapacityAssumption, EmptySeq DEF Overwrite, Inv, TypeOK
  <1>2. /\ t \in Seq(Entry) /\ Len(t) = n - 1 /\ \A i \in 1..(n - 1) : t[i] = queue[i + 1]
    BY <1>1, TailTyped
  <1>3. drop_count' \in Nat /\ NewEntry(p, 0) \in Entry
    <2>1. drop_count' \in Nat
      BY DEF Overwrite, Inv, TypeOK
    <2>2. NewEntry(p, 0) \in Entry
      BY NewEntryTyped DEF Inv
    <2> QED BY <2>1, <2>2
  <1> HIDE DEF t
  <1>4. k \in Seq(Entry) /\ Len(k) = n - 1
    BY <1>1, <1>2, <1>3, MarkTyped
  <1>5. /\ k[1].drop_count = drop_count'
        /\ \A i \in 1..(n - 1) : /\ k[i].port = t[i].port /\ k[i].sequence = t[i].sequence
                                 /\ k[i].epoch = t[i].epoch
    <2>1. t = [i \in 1..(n - 1) |-> t[i]] /\ t[1] \in Entry
      BY <1>1, <1>2
    <2>2. k = [t EXCEPT ![1] = [t[1] EXCEPT !.drop_count = drop_count']]
      BY DEF Mark
    <2> HIDE DEF k
    <2>3. k[1] = [t[1] EXCEPT !.drop_count = drop_count'] /\ \A i \in 2..(n - 1) : k[i] = t[i]
      BY <1>1, <2>1, <2>2
    <2>4. /\ k[1].drop_count = drop_count' /\ k[1].port = t[1].port
          /\ k[1].sequence = t[1].sequence /\ k[1].epoch = t[1].epoch
      BY <2>1, <2>3 DEF Entry
    <2>5. \A i \in 1..(n - 1) : i = 1 \/ i \in 2..(n - 1)
      BY <1>1
    <2> QED BY <2>3, <2>4, <2>5, Zenon
  <1>6. queue' = Append(k, NewEntry(p, 0)) /\ UNCHANGED <<consumer, event>>
    BY DEF Overwrite, consumerVars, t
  <1> HIDE DEF k
  <1>7. /\ Len(queue') = n /\ queue'[n] = NewEntry(p, 0)
        /\ \A i \in 1..(n - 1) : queue'[i] = k[i]
    BY <1>1, <1>3, <1>4, <1>6, AppendTyped
  <1>8. Place' = Place /\ 1 \in Place /\ n \in Place /\ \A i \in Place : i \in 0..n
    BY <1>1, <1>6, <1>7 DEF Place
  <1>9. (0 \in Place => At(0)' = At(0)) /\ At(n)' = NewEntry(p, 0)
    BY <1>1, <1>6, <1>7 DEF At
  <1>10. At(1)'.drop_count = drop_count'
    BY <1>1, <1>5, <1>7 DEF At
  <1>11. ASSUME NEW i \in Place \ {0, n}
         PROVE  /\ i + 1 \in Place /\ At(i)'.port = At(i + 1).port
                /\ At(i)'.sequence = At(i + 1).sequence /\ At(i)'.epoch = At(i + 1).epoch
    <2>1. i \in 1..(n - 1) /\ i + 1 \in 1..n /\ i + 1 # 0
      BY <1>1, <1>8
    <2>2. At(i)' = k[i] /\ At(i + 1) = t[i]
      BY <1>2, <1>7, <2>1, Zenon DEF At
    <2> QED BY <1>5, <2>1, <2>2, Zenon DEF Place
  <1> QED BY <1>1, <1>8, <1>9, <1>10, <1>11

\* A line that is appended is not lost, and what its entry makes visible is covered by a
\* counter before it or by the one it takes over
LEMMA AppendCount ==
    ASSUME Inv, AllOrder, Count, Covered, NoLossForgotten, NEW p \in Ports, Append_(p)
    PROVE  Count' /\ Covered'
  <1> DEFINE new == <<p, sequence[p]>>
  <1>0. PICK n : n = Len(queue) + 1
    OBVIOUS
  <1>1. /\ UNCHANGED <<drop_count, last, missed, announced, sequence>>
        /\ reader[p] = "numbered" /\ reader' = [reader EXCEPT ![p] = "enqueued"]
    BY DEF Append_, seenVars
  <1>o. PortOrder(p) /\ \A i \in Place : At(i).port = p => Behind(i)
    BY Zenon DEF AllOrder
  <1>2. /\ Done(p)' = sequence[p] /\ Done(p) = sequence[p] - 1
        /\ \A q \in Ports \ {p} : Done(q)' = Done(q)
        /\ sequence[p] \in 1..MaxLines /\ new \in Line /\ new \notin Waiting /\ new \notin Lost
        /\ last[p].sequence < sequence[p]
        /\ \A i \in Place : At(i).port = p => At(i).sequence < sequence[p]
    BY <1>1, <1>o, HandedOver, Zenon DEF Inv
  <1>3. /\ Place' = Place \cup {n} /\ n \notin Place
        /\ \A i \in Place : i < n /\ At(i)' = At(i)
        /\ At(n)' = NewEntry(p, pending)
    BY <1>0, AppendPlaces
  <1>4. At(n)'.port = p /\ At(n)'.sequence = sequence[p] /\ At(n)'.drop_count = pending
    BY <1>1, <1>3 DEF NewEntry, AllOrder, PortOrder, Behind, InTurn
  <1>t. TypeOK /\ n \in Nat
    BY <1>0, PlaceTyped DEF Inv
  <1>5. Waiting' = Waiting \cup {new}
    BY <1>3, <1>4 DEF Waiting
  <1>6. Lost' = Lost
    <2>1. ASSUME NEW l \in Line PROVE l \in Lost' <=> l \in Lost
      <3>1. l[1] \in Ports /\ l[2] \in 1..MaxLines /\ l = <<l[1], l[2]>>
        BY DEF Line
      <3>2. l[2] <= Done(l[1])' <=> l[2] <= Done(l[1]) \/ l = new
        <4>1. CASE l[1] = p
          BY <1>2, <3>1, <4>1
        <4>2. CASE l[1] # p
          BY <1>2, <3>1, <4>2
        <4> QED BY <4>1, <4>2
      <3>3. l \in Lost' <=> last[l[1]].sequence < l[2] /\ l[2] <= Done(l[1])' /\ l \notin Waiting'
        BY <1>1 DEF Lost, Line
      <3> QED BY <1>2, <1>5, <3>2, <3>3, Zenon DEF Lost
    <2> QED BY <2>1 DEF Lost, Line
  <1>7. \A i \in Place : Hole(i)' = Hole(i)
    <2> SUFFICES ASSUME NEW i \in Place PROVE Hole(i)' = Hole(i)
      OBVIOUS
    <2>1. ~(n <= i) /\ \A j \in Place : At(j)' = At(j)
      BY <1>3, <1>t, PlaceTyped
    <2> QED BY <1>3, <1>6, <2>1 DEF Hole
  <1>8. Count'
    BY <1>1, <1>6 DEF Count
  <1>9. Hole(n)' \subseteq Lost
    BY <1>6 DEF Hole
  <1>10. missed + Cardinality(Hole(n)') <= drop_count /\ missed + Cardinality(Hole(n)') \in Int
    <2>1. /\ Cardinality(Hole(n)') \in Nat /\ Cardinality(Lost) \in Nat
          /\ Cardinality(Hole(n)') <= Cardinality(Lost)
      BY <1>9, HoleLost, Counting
    <2>2. missed \in Int /\ drop_count \in Int
      BY <1>t, PlaceTyped
    <2> QED BY <2>1, <2>2 DEF Count
  <1>11. \/ drop_count <= announced
         \/ \E j \in Place' : j <= n /\ drop_count <= At(j)'.drop_count
    <2>1. announced \in Nat /\ drop_count \in Nat
      BY <1>t, PlaceTyped, Zenon
    <2>2. CASE drop_count <= announced
      BY <2>2
    <2>3. CASE pending = drop_count
      BY <1>3, <1>4, <1>t, <2>1, <2>3
    <2>4. ASSUME NEW j \in Place, At(j).drop_count = drop_count
          PROVE  \E i \in Place' : i <= n /\ drop_count <= At(i)'.drop_count
      <3>1. j <= n /\ At(j)' = At(j)
        BY <1>3, <1>t, PlaceTyped
      <3> QED BY <1>3, <2>1, <2>4, <3>1
    <2>5. \/ drop_count <= announced \/ pending = drop_count
          \/ \E j \in Place : At(j).drop_count = drop_count
      <3>1. ASSUME NEW i \in 1..Len(queue) PROVE i \in Place /\ At(i) = queue[i]
        BY <1>t, PlaceTyped DEF Place, At
      <3>2. consumer = "publishing" => 0 \in Place /\ At(0) = event
        BY DEF Place, At
      <3> QED BY <2>1, <3>1, <3>2 DEF NoLossForgotten
    <2> QED BY <2>2, <2>3, <2>4, <2>5
  <1>12. \/ missed + Cardinality(Hole(n)') <= announced
         \/ \E j \in Place' : j <= n /\ missed + Cardinality(Hole(n)') <= At(j)'.drop_count
    <2>1. announced \in Int /\ drop_count \in Int
      BY <1>t, PlaceTyped
    <2>2. \A j \in Place' : At(j)'.drop_count \in Int
      <3>1. pending \in Int /\ \A j \in Place : At(j).drop_count \in Int
        BY <1>t, PlaceTyped DEF TypeOK
      <3> QED BY <1>3, <1>4, <3>1, Zenon
    <2> QED BY <1>10, <1>11, <2>1, <2>2
  <1>13. ASSUME NEW i \in Place
         PROVE  \/ missed + Cardinality(Hole(i)') <= announced
                \/ \E j \in Place' : j <= i /\ missed + Cardinality(Hole(i)') <= At(j)'.drop_count
    BY <1>3, <1>7 DEF Covered
  <1> QED BY <1>1, <1>3, <1>8, <1>12, <1>13 DEF Covered

\* The entry that is overwritten is one more that is lost; its successor, which is the
\* first to show that, gets the new counter
LEMMA OverwriteCount ==
    ASSUME Inv, AllOrder, Count, Covered, NEW p \in Ports, Overwrite(p)
    PROVE  Count' /\ Covered'
  <1> DEFINE new == <<p, sequence[p]>>
             W(i) == <<At(i).port, At(i).sequence>>
             old == W(1)
  <1>0. PICK n : n = Len(queue)
    BY Zenon
  <1>1. /\ UNCHANGED <<last, missed, announced, sequence>> /\ drop_count' = drop_count + 1
        /\ reader[p] = "numbered" /\ reader' = [reader EXCEPT ![p] = "enqueued"]
    BY DEF Overwrite, seenVars
  <1>t. TypeOK /\ TypeOK'
    <2>1. Next
      BY DEF Next, Enqueue
    <2> QED BY <2>1, NextInv DEF Inv
  <1>o. PortOrder(p) /\ \A i \in Place : At(i).port = p => Behind(i)
    BY Zenon DEF AllOrder
  <1>2. /\ Done(p)' = sequence[p] /\ Done(p) = sequence[p] - 1
        /\ \A q \in Ports \ {p} : Done(q)' = Done(q)
        /\ sequence[p] \in 1..MaxLines /\ new \in Line /\ new \notin Waiting /\ new \notin Lost
        /\ last[p].sequence < sequence[p]
        /\ \A i \in Place : At(i).port = p => At(i).sequence < sequence[p]
    BY <1>1, <1>o, <1>t, HandedOver, Zenon
  <1>3. /\ Place' = Place /\ n \in Nat /\ n >= 2 /\ 1 \in Place /\ n \in Place
        /\ \A i \in Place : i \in 0..n
        /\ 0 \in Place => At(0)' = At(0)
        /\ \A i \in Place \ {0, n} :
              /\ i + 1 \in Place /\ At(i)'.port = At(i + 1).port
              /\ At(i)'.sequence = At(i + 1).sequence
        /\ At(1)'.drop_count = drop_count'
        /\ At(n)' = NewEntry(p, 0)
    BY <1>0, OverwritePlaces, Zenon
  <1>4. At(n)'.port = p /\ At(n)'.sequence = sequence[p]
    <2>1. PortOrder(p)
      BY DEF AllOrder
    <2>2. line[p].sequence = sequence[p]
      BY <1>1, <2>1, Zenon DEF PortOrder
    <2> QED BY <1>3, <2>2 DEF NewEntry
  <1>5. \A i \in Place \ {1} : W(i) # old
    <2> SUFFICES ASSUME NEW i \in Place \ {1}, At(i).port = At(1).port
                 PROVE  At(i).sequence # At(1).sequence
      BY Zenon
    <2>1. i < 1 \/ 1 < i
      BY <1>3
    <2>2. At(i).sequence \in Nat /\ At(1).sequence \in Nat
      BY <1>3, <1>t, PlaceTyped, Zenon
    <2>3. InTurn(i, 1) /\ InTurn(1, i)
      BY <1>3, Zenon DEF AllOrder
    <2> QED BY <2>1, <2>2, <2>3 DEF InTurn
  <1>6. \A l : l \in Waiting' <=> l = new \/ \E i \in Place \ {1} : l = W(i)
    <2>1. ASSUME NEW i \in Place
          PROVE  W(i)' = new \/ \E j \in Place \ {1} : W(i)' = W(j)
      <3>1. CASE i = n
        BY <1>4, <3>1, Zenon
      <3>2. CASE i = 0
        BY <1>3, <3>2
      <3>3. CASE i \notin {0, n}
        <4>1. i + 1 \in Place \ {1} /\ W(i)' = W(i + 1)
          BY <1>3, <3>3
        <4> QED BY <4>1, Zenon
      <3> QED BY <3>1, <3>2, <3>3, Zenon
    <2>2. ASSUME NEW j \in Place \ {1}
          PROVE  \E i \in Place : W(j) = W(i)'
      <3>1. CASE j = 0
        BY <1>3, <3>1
      <3>2. CASE j # 0
        <4>1. j - 1 \in 1..(n - 1) /\ j - 1 \in Place \ {0, n} /\ (j - 1) + 1 = j
          BY <1>0, <1>3, <3>2 DEF Place
        <4>2. W(j - 1)' = W((j - 1) + 1)
          BY <1>3, <4>1
        <4> QED BY <4>1, <4>2, Zenon
      <3> QED BY <3>1, <3>2, Zenon
    <2>3. W(n)' = new
      BY <1>4, Zenon
    <2>4. Waiting' = {W(i)' : i \in Place}
      BY <1>3, Zenon DEF Waiting
    <2> HIDE DEF W, new
    <2> QED BY <1>3, <2>1, <2>2, <2>3, <2>4, Zenon
  <1>7. Waiting' = (Waiting \ {old}) \cup {new}
    <2>1. Waiting = {W(i) : i \in Place}
      BY DEF Waiting
    <2> HIDE DEF W, new
    <2> QED BY <1>3, <1>5, <1>6, <2>1
  <1>8. /\ old \in Line /\ old \in Waiting /\ old \notin Lost
        /\ last[old[1]].sequence < old[2] /\ old[2] <= Done(old[1])
    <2>1. At(1).port \in Ports /\ At(1).sequence \in Nat
      BY <1>3, <1>t, PlaceTyped, Zenon
    <2>2. /\ last[At(1).port].sequence < At(1).sequence /\ At(1).sequence <= Done(At(1).port)
          /\ Done(At(1).port) <= sequence[At(1).port] /\ sequence[At(1).port] <= MaxLines
      <3>1. \A q \in Ports : Done(q) <= sequence[q]
        BY <1>t, PlaceTyped, Zenon
      <3> QED BY <1>3, <2>1, <3>1, Zenon DEF AllOrder, PortOrder, Behind, InTurn
    <2>3. At(1).sequence \in 1..MaxLines
      <3>1. /\ last[At(1).port].sequence \in Nat /\ Done(At(1).port) \in Int
            /\ sequence[At(1).port] \in Nat
        BY <1>t, <2>1, PlaceTyped, Zenon
      <3> QED BY <2>1, <2>2, <3>1, BoundsAssumption
    <2>4. old \in Waiting
      BY <1>3, Zenon DEF Waiting
    <2> QED BY <2>1, <2>2, <2>3, <2>4, Zenon DEF Line, Lost
  <1> HIDE DEF old
  <1>9. Lost' = Lost \cup {old}
    <2>1. ASSUME NEW l \in Line PROVE l \in Lost' <=> l \in Lost \/ l = old
      <3>1. l[1] \in Ports /\ l[2] \in 1..MaxLines /\ l = <<l[1], l[2]>>
        BY DEF Line
      <3>2. l[2] <= Done(l[1])' <=> l[2] <= Done(l[1]) \/ l = new
        <4>1. CASE l[1] = p
          BY <1>2, <3>1, <4>1
        <4>2. CASE l[1] # p
          BY <1>2, <3>1, <4>2
        <4> QED BY <4>1, <4>2, Zenon
      <3>3. l \in Lost' <=> last[l[1]].sequence < l[2] /\ l[2] <= Done(l[1])' /\ l \notin Waiting'
        BY <1>1 DEF Lost, Line
      <3>4. l \in Lost <=> last[l[1]].sequence < l[2] /\ l[2] <= Done(l[1]) /\ l \notin Waiting
        BY DEF Lost
      <3> HIDE DEF new
      <3> QED BY <1>2, <1>7, <1>8, <3>2, <3>3, <3>4, Zenon
    <2>2. Lost' \subseteq Line /\ Lost \subseteq Line
      BY DEF Lost, Line
    <2> QED BY <1>8, <2>1, <2>2, Zenon
  <1>10. Cardinality(Lost') = Cardinality(Lost) + 1 /\ Cardinality(Lost) \in Nat
    BY <1>8, <1>9, HoleLost, Counting, Zenon
  <1>11. Count'
    BY <1>1, <1>10, <1>t, PlaceTyped DEF Count
  <1>12. ASSUME NEW i \in Place, i # 0
         PROVE  \E j \in Place' : j <= i /\ missed + Cardinality(Hole(i)') <= At(j)'.drop_count
    <2>1. 1 <= i /\ At(1)'.drop_count = drop_count' /\ 1 \in Place'
      BY <1>3, <1>12
    <2>2. Lost' \subseteq Line /\ Hole(i)' \subseteq Lost'
      BY <1>8, <1>9, HoleLost, Zenon DEF Hole
    <2>3. /\ Cardinality(Hole(i)') \in Nat /\ Cardinality(Lost') \in Nat
          /\ Cardinality(Hole(i)') <= Cardinality(Lost')
      BY <2>2, Counting, Zenon
    <2>4. missed + Cardinality(Hole(i)') <= drop_count'
      BY <1>1, <1>11, <1>t, <2>3, PlaceTyped DEF Count
    <2> QED BY <2>1, <2>4
  <1>13. ASSUME 0 \in Place
         PROVE  \/ missed + Cardinality(Hole(0)') <= announced
                \/ \E j \in Place' : j <= 0 /\ missed + Cardinality(Hole(0)') <= At(j)'.drop_count
    <2>1. Hole(0)' \subseteq Hole(0)
      <3> SUFFICES ASSUME NEW l \in Hole(0)' PROVE l \in Hole(0)
        OBVIOUS
      <3>1. PICK j \in Place : j <= 0 /\ At(j)'.port = l[1] /\ l[2] < At(j)'.sequence
        BY <1>3, Zenon DEF Hole
      <3>2. j = 0 /\ At(0)' = At(0)
        BY <1>3, <3>1
      <3>3. l # old
        <4>1. At(0).port = At(1).port => At(0).sequence < At(1).sequence
          BY <1>3, <1>13 DEF AllOrder, PortOrder, Behind, InTurn
        <4>2. At(0).sequence \in Nat /\ At(1).sequence \in Nat
          BY <1>3, <1>13, <1>t, PlaceTyped, Zenon
        <4> QED BY <3>1, <3>2, <4>1, <4>2 DEF old
      <3>4. l \in Lost
        BY <1>9, <3>3 DEF Hole
      <3> QED BY <3>1, <3>2, <3>4 DEF Hole
    <2>2. /\ Cardinality(Hole(0)') \in Nat /\ Cardinality(Hole(0)) \in Nat
          /\ Cardinality(Hole(0)') <= Cardinality(Hole(0))
      BY <2>1, HoleLost, Counting, Zenon
    <2>3. missed \in Int /\ announced \in Int /\ At(0).drop_count \in Int /\ At(0)' = At(0)
      BY <1>3, <1>13, <1>t, PlaceTyped
    <2>4. \/ missed + Cardinality(Hole(0)) <= announced
          \/ missed + Cardinality(Hole(0)) <= At(0).drop_count
      BY <1>3, <1>13 DEF Covered
    <2> QED BY <1>3, <1>13, <2>2, <2>3, <2>4
  <1> QED BY <1>1, <1>3, <1>11, <1>12, <1>13, Zenon DEF Covered

\* A publication makes exactly the holes before it visible: they move from what will be
\* missed to what was, and the counters up to the entry cover them
LEMMA PublishCount ==
    ASSUME Inv, AllOrder, Count, Covered, renewed = {}, Publish
    PROVE  Count' /\ Covered'
  <1>0. PICK p, s : p = event.port /\ s = event.sequence
    OBVIOUS
  <1> DEFINE W(i) == <<At(i).port, At(i).sequence>>
             N == {l \in Line : l[1] = p /\ last[p].sequence < l[2] /\ l[2] < s}
  <1>t. TypeOK /\ TypeOK'
    <2>1. Next
      BY DEF Next, Consume
    <2> QED BY <2>1, NextInv DEF Inv
  <1>1. /\ UNCHANGED <<queue, drop_count, reader, sequence, event>>
        /\ consumer = "publishing" /\ consumer' = "draining"
        /\ last' = [last EXCEPT ![p] = [epoch |-> event.epoch, sequence |-> s]]
        /\ missed' = missed + (s - last[p].sequence - 1) /\ UNCHANGED renewed
        /\ announced' = IF event.drop_count > announced THEN event.drop_count ELSE announced
    BY <1>0, Zenon DEF Publish, queueVars, readerVars
  <1>2. 0 \in Place /\ At(0) = event
    BY <1>1, Zenon DEF Place, At
  <1>3. p \in Ports /\ s \in Nat /\ last[p].sequence \in Nat /\ event.drop_count \in Nat
    BY <1>0, <1>2, <1>t, PlaceTyped, Zenon
  <1>4. Place' = Place \ {0} /\ (\A i \in Place' : At(i)' = At(i) /\ i \in Place /\ 0 < i)
    BY <1>1, <1>t, PlaceTyped DEF Place, At
  <1>5. /\ last'[p].sequence = s
        /\ \A q \in Ports \ {p} : last'[q] = last[q]
        /\ \A q \in Ports : Done(q)' = Done(q)
    BY <1>1, <1>3, <1>t, Zenon DEF TypeOK, Done
  <1>6. last[p].sequence < s /\ s <= Done(p)
    BY <1>0, <1>2, Zenon DEF AllOrder, PortOrder, Behind, InTurn
  <1>7. \A i \in Place' : At(i).port = p => s < At(i).sequence
    BY <1>0, <1>2, <1>4, Zenon DEF AllOrder, PortOrder, Behind, InTurn
  <1>8. Waiting = Waiting' \cup {<<p, s>>}
    BY <1>0, <1>2, <1>4, Zenon DEF Waiting
  <1>9. \A n \in Nat : n < s => <<p, n>> \notin Waiting
    <2> SUFFICES ASSUME NEW n \in Nat, n < s, NEW i \in Place, W(i) = <<p, n>> PROVE FALSE
      BY Zenon DEF Waiting
    <2>1. At(i).port = p /\ At(i).sequence = n
      OBVIOUS
    <2>2. i = 0 \/ i \in Place'
      BY <1>4, Zenon
    <2> QED BY <1>0, <1>2, <1>3, <1>7, <2>1, <2>2
  <1>10. ASSUME NEW l \in Line
         PROVE  /\ l \in N => l \in Lost /\ l \notin Lost'
                /\ l \in Lost' => l \in Lost
                /\ l \in Lost => l \in N \/ l \in Lost'
    <2>1. l[1] \in Ports /\ l[2] \in Nat /\ l = <<l[1], l[2]>>
      BY BoundsAssumption DEF Line
    <2>2. /\ last[l[1]].sequence \in Nat /\ Done(l[1]) \in Int
      BY <1>t, <2>1, PlaceTyped, Zenon
    <2>3. /\ l \in Lost <=> last[l[1]].sequence < l[2] /\ l[2] <= Done(l[1]) /\ l \notin Waiting
          /\ l \in Lost' <=> last'[l[1]].sequence < l[2] /\ l[2] <= Done(l[1]) /\ l \notin Waiting'
          /\ l \in N <=> l[1] = p /\ last[p].sequence < l[2] /\ l[2] < s
      BY <1>5, <2>1, Zenon DEF Lost, Line
    <2>4. CASE l[1] # p
      BY <1>5, <1>8, <2>1, <2>3, <2>4
    <2>5. CASE l[1] = p
      <3>1. l[2] < s => l \notin Waiting
        BY <1>9, <2>1, <2>5
      <3>2. l \in Waiting <=> l \in Waiting' \/ l[2] = s
        BY <1>8, <2>1, <2>5
      <3> HIDE DEF N
      <3> QED BY <1>3, <1>5, <1>6, <2>1, <2>2, <2>3, <2>5, <3>1, <3>2
    <2> QED BY <2>4, <2>5, Zenon
  <1>11. N \subseteq Line /\ Lost \subseteq Line /\ Lost' \subseteq Line
    BY Zenon DEF Lost, Line
  <1>12. Lost = N \cup Lost' /\ N \cap Lost' = {}
    BY <1>10, <1>11, Zenon
  <1>13. Hole(0) = N
    <2>1. \A j \in Place : j <= 0 <=> j = 0
      BY <1>t, PlaceTyped
    <2>2. Hole(0) = {l \in Lost : p = l[1] /\ l[2] < s}
      BY <1>0, <1>2, <2>1 DEF Hole
    <2>3. \A l \in Lost' : l[1] = p => ~(l[2] < s)
      <3> SUFFICES ASSUME NEW l \in Lost', l[1] = p PROVE ~(l[2] < s)
        OBVIOUS
      <3>1. l \in Line /\ s < l[2]
        BY <1>5, Zenon DEF Lost, Line
      <3>2. l[2] \in Nat
        BY <3>1, BoundsAssumption DEF Line
      <3> QED BY <1>3, <3>1, <3>2
    <2> QED BY <1>12, <2>2, <2>3, Zenon
  <1>14. \A i \in Place' : Hole(i) = N \cup Hole(i)'
    <2> SUFFICES ASSUME NEW i \in Place' PROVE Hole(i) = N \cup Hole(i)'
      BY Zenon
    <2>1. N \subseteq Hole(i)
      <3>1. 0 <= i
        BY <1>4, <1>t, PlaceTyped
      <3> QED BY <1>0, <1>2, <1>12, <3>1, Zenon DEF Hole
    <2>2. ASSUME NEW l \in Lost'
          PROVE  l \in Hole(i) <=> l \in Hole(i)'
      <3>1. l \in Hole(i)' <=> \E j \in Place' : j <= i /\ At(j).port = l[1] /\ l[2] < At(j).sequence
        BY <1>4 DEF Hole
      <3>2. l \notin N /\ l \in Lost
        BY <1>12, Zenon
      <3>3. ~(At(0).port = l[1] /\ l[2] < At(0).sequence)
        BY <1>13, <3>2, <1>2, <1>4 DEF Hole
      <3>4. l \in Hole(i) <=> \E j \in Place : j <= i /\ At(j).port = l[1] /\ l[2] < At(j).sequence
        BY <3>2, Zenon DEF Hole
      <3> QED BY <1>4, <3>1, <3>3, <3>4, Zenon
    <2>3. Hole(i) \subseteq N \cup Lost' /\ Hole(i)' \subseteq Lost'
      BY <1>12, Zenon DEF Hole
    <2> HIDE DEF N
    <2> QED BY <2>1, <2>2, <2>3
  <1>15. Cardinality(N) = s - last[p].sequence - 1
    <2> DEFINE I == (last[p].sequence + 1)..(s - 1)
    <2>1. N = {p} \X I
      <3>1. I \subseteq 1..MaxLines
        <4>1. s <= MaxLines
          <5>1. Done(p) <= sequence[p] /\ Done(p) \in Int /\ sequence[p] \in Nat
            BY <1>3, <1>t, PlaceTyped, Zenon
          <5> QED BY <1>3, <1>6, <5>1, BoundsAssumption DEF AllOrder, PortOrder, Behind, InTurn
        <4> QED BY <1>3, <4>1, BoundsAssumption
      <3>2. \A n \in 1..MaxLines : n \in I <=> last[p].sequence < n /\ n < s
        BY <1>3
      <3> HIDE DEF I
      <3> QED BY <1>3, <3>1, <3>2, Zenon DEF Line
    <2>2. IsFiniteSet(I) /\ Cardinality(I) = s - last[p].sequence - 1
      <3>1. last[p].sequence + 1 \in Int /\ s - 1 \in Int
        BY <1>3
      <3>2. IsFiniteSet(I) /\ Cardinality(I) = IF last[p].sequence + 1 > s - 1 THEN 0
                                               ELSE (s - 1) - (last[p].sequence + 1) + 1
        BY <3>1, FS_Interval, Zenon
      <3> HIDE DEF I
      <3> QED BY <1>3, <1>6, <3>2
    <2>3. IsFiniteSet({p}) /\ Cardinality({p}) = 1
      BY FS_Singleton, Zenon
    <2> HIDE DEF I
    <2>4. Cardinality({p} \X I) = Cardinality({p}) * Cardinality(I)
      BY <2>2, <2>3, FS_Product, Zenon
    <2>5. 1 * (s - last[p].sequence - 1) = s - last[p].sequence - 1
      BY <1>3
    <2> QED BY <2>1, <2>2, <2>3, <2>4, <2>5, Zenon
  <1> HIDE DEF N
  <1>16. ASSUME NEW S, S \subseteq Lost'
         PROVE  missed' + Cardinality(S) = missed + Cardinality(N \cup S)
    <2>1. IsFiniteSet(N) /\ IsFiniteSet(S) /\ Cardinality(S) \in Nat /\ Cardinality(N) \in Nat
      BY <1>11, <1>16, Counting
    <2>2. N \cap S = {}
      BY <1>12, <1>16
    <2>3. Cardinality(N \cup S) = Cardinality(N) + Cardinality(S) - Cardinality({})
      BY <2>1, <2>2, FS_Union
    <2>4. Cardinality({}) = 0
      BY FS_EmptySet
    <2>5. missed \in Int /\ missed' = missed + Cardinality(N)
      BY <1>1, <1>15, <1>t, PlaceTyped, Zenon
    <2> QED BY <2>1, <2>3, <2>4, <2>5
  <1>17. Count'
    BY <1>1, <1>12, <1>16, Zenon DEF Count
  <1>18. /\ announced \in Nat /\ announced' \in Nat /\ announced' >= announced
         /\ announced' >= event.drop_count
    <2>1. announced \in Nat
      BY <1>t, Zenon DEF TypeOK
    <2> QED BY <1>1, <1>3, <2>1
  <1>19. missed' <= announced'
    <2>1. missed' = missed + Cardinality(Hole(0)) /\ missed' \in Int
      BY <1>1, <1>13, <1>15, <1>t, PlaceTyped, Zenon DEF TypeOK
    <2>2. \/ missed + Cardinality(Hole(0)) <= announced
          \/ missed + Cardinality(Hole(0)) <= event.drop_count
      <3>1. \A j \in Place : j <= 0 => j = 0
        BY <1>t, PlaceTyped
      <3> QED BY <1>2, <3>1, Zenon DEF Covered
    <2> QED BY <1>3, <1>18, <2>1, <2>2
  <1>20. ASSUME NEW i \in Place'
         PROVE  \/ missed' + Cardinality(Hole(i)') <= announced'
                \/ \E j \in Place' : j <= i /\ missed' + Cardinality(Hole(i)') <= At(j)'.drop_count
    <2>1. missed' + Cardinality(Hole(i)') = missed + Cardinality(Hole(i))
      <3>1. Hole(i)' \subseteq Lost'
        BY DEF Hole
      <3> QED BY <1>14, <1>16, <3>1
    <2>2. missed + Cardinality(Hole(i)) \in Int
      <3>1. Cardinality(Hole(i)) \in Nat
        BY HoleLost, Counting
      <3>2. missed \in Int
        BY <1>t, PlaceTyped, Zenon
      <3> QED BY <3>1, <3>2
    <2>3. CASE missed + Cardinality(Hole(i)) <= announced
      BY <1>18, <2>1, <2>2, <2>3
    <2>4. ASSUME NEW j \in Place, j <= i, missed + Cardinality(Hole(i)) <= At(j).drop_count
          PROVE  \/ missed' + Cardinality(Hole(i)') <= announced'
                 \/ \E k \in Place' : k <= i /\ missed' + Cardinality(Hole(i)') <= At(k)'.drop_count
      <3>1. CASE j = 0
        BY <1>2, <1>3, <1>18, <2>1, <2>2, <2>4, <3>1
      <3>2. CASE j # 0
        BY <1>4, <2>1, <2>4, <3>2, Zenon
      <3> QED BY <3>1, <3>2, Zenon
    <2> QED BY <1>4, <2>3, <2>4, Zenon DEF Covered
  <1> QED BY <1>17, <1>19, <1>20 DEF Covered

\* with no port created anew, the order is that of all ports
LEMMA OrderOfAll ==
    ASSUME TypeOK, Order, renewed = {}
    PROVE  AllOrder
  BY Zenon DEF Order, AllOrder

\* the order is kept when the entries only move, while readers number, reopen and leave
LEMMA MovedOrder ==
    ASSUME TypeOK, Order, NEW k \in {0, 1}, Place' = {i - k : i \in Place},
           \A i \in Place : At(i - k)' = At(i), UNCHANGED last, renewed \subseteq renewed',
           \A p \in Ports \ renewed' : /\ Done(p)' = Done(p) /\ epoch'[p] \in Nat
                                       /\ epoch[p] <= epoch'[p] /\ PortOrder(p)'
    PROVE  Order'
  <1>1. \A i \in Place : i \in Int /\ At(i).port \in Ports
    BY PlaceTyped
  <1>2. ASSUME NEW i \in Place, At(i).port \notin renewed' PROVE Behind(i - k)'
    <2>1. /\ At(i).port \in Ports /\ At(i).epoch \in Nat /\ epoch[At(i).port] \in Nat
      BY PlaceTyped, Zenon
    <2>2. Behind(i) /\ At(i).port \in Ports \ renewed'
      BY <1>1, <1>2, Zenon DEF Order
    <2> QED BY <2>1, <2>2 DEF Behind
  <1>3. \A i, j \in Place : At(i).port \notin renewed' => InTurn(i - k, j - k)'
    <2> SUFFICES ASSUME NEW i \in Place, NEW j \in Place, At(i).port \notin renewed'
                 PROVE  InTurn(i - k, j - k)'
      BY Zenon
    <2>1. InTurn(i, j) /\ i \in Int /\ j \in Int
      BY <1>1, Zenon DEF Order
    <2>2. i - k < j - k => i < j
      BY <2>1
    <2> QED BY <2>1, <2>2, Zenon DEF InTurn
  <1> QED BY <1>2, <1>3, Zenon DEF Order

\* an entry behind all others of its port keeps the order
LEMMA NewOrder ==
    ASSUME Inv, Order, NEW p \in Ports, NEW x, x # "numbered", reader[p] = "numbered",
           reader' = [reader EXCEPT ![p] = x], UNCHANGED <<sequence, epoch, renewed, last>>,
           \A q \in Ports \ {p} : line'[q] = line[q],
           NEW O, \A i \in O : i \in Int /\ \E j \in Place : /\ At(i)'.port = At(j).port
                                               /\ At(i)'.sequence = At(j).sequence
                                               /\ At(i)'.epoch = At(j).epoch,
           \A i, j \in O : At(i)'.port \notin renewed => InTurn(i, j)',
           Place' = O \/ \E n \in Int : /\ Place' = O \cup {n} /\ \A i \in O : i < n
                                        /\ At(n)'.port = p
                                        /\ p \notin renewed => /\ At(n)'.sequence = sequence[p]
                                                               /\ At(n)'.epoch = epoch[p]
    PROVE  Order'
  <1>t. TypeOK
    BY Zenon DEF Inv
  <1>1. ASSUME p \notin renewed
        PROVE  /\ Done(p)' = sequence[p] /\ Done(p) = sequence[p] - 1
               /\ last[p].sequence < sequence[p]
               /\ \A i \in Place : At(i).port = p => At(i).sequence < sequence[p]
    <2>1. PortOrder(p) /\ \A i \in Place : At(i).port = p => Behind(i)
      BY <1>1, Zenon DEF Order
    <2> QED BY <1>t, <2>1, HandedOver, Zenon
  <1>2. \A q \in Ports \ renewed : Done(q)' \in Int /\ Done(q) <= Done(q)'
    <2> SUFFICES ASSUME NEW q \in Ports \ renewed PROVE Done(q)' \in Int /\ Done(q) <= Done(q)'
      BY Zenon
    <2>1. sequence[p] \in Nat /\ Done(q) \in Int
      BY <1>t, PlaceTyped, Zenon
    <2>2. CASE q = p
      BY <1>1, <2>1, <2>2
    <2>3. CASE q # p
      <3>1. Done(q)' = Done(q)
        BY <1>t, <2>3, Zenon DEF Done, TypeOK
      <3> QED BY <2>1, <3>1
    <2> QED BY <2>2, <2>3, Zenon
  <1>3. \A q \in Ports \ renewed : PortOrder(q)'
    <2> SUFFICES ASSUME NEW q \in Ports \ renewed PROVE PortOrder(q)'
      BY Zenon
    <2>1. last[q].sequence \in Nat /\ Done(q) \in Int /\ PortOrder(q)
      BY <1>t, PlaceTyped, Zenon DEF Order
    <2>2. last[q].sequence <= Done(q)'
      BY <1>2, <2>1 DEF PortOrder
    <2>3. reader'[q] = "numbered" => reader[q] = "numbered" /\ q # p
      BY <1>t, Zenon DEF TypeOK
    <2> QED BY <2>1, <2>2, <2>3, Zenon DEF PortOrder
  <1>4. \A i \in O : At(i)'.port \notin renewed => Behind(i)'
    <2> SUFFICES ASSUME NEW i \in O, At(i)'.port \notin renewed PROVE Behind(i)'
      BY Zenon
    <2>1. PICK j \in Place : /\ At(i)'.port = At(j).port /\ At(i)'.sequence = At(j).sequence
                             /\ At(i)'.epoch = At(j).epoch
      BY Zenon
    <2>2. PICK q \in Ports \ renewed : q = At(j).port
      BY <1>t, <2>1, PlaceTyped, Zenon
    <2>3. /\ At(j).sequence \in Nat /\ Done(q) \in Int /\ Behind(j)
          /\ Done(q)' \in Int /\ Done(q) <= Done(q)'
      BY <1>t, <1>2, <2>1, <2>2, PlaceTyped, Zenon DEF Order
    <2>4. At(j).sequence <= Done(q)'
      BY <2>2, <2>3 DEF Behind
    <2>5. /\ last[q].sequence < At(j).sequence
          /\ last[q].epoch <= At(j).epoch /\ At(j).epoch <= epoch[q]
      BY <2>2, <2>3, Zenon DEF Behind
    <2>6. At(i)'.port = q /\ UNCHANGED <<last, epoch>>
      BY <2>1, <2>2, Zenon
    <2> QED BY <2>1, <2>4, <2>5, <2>6, Zenon DEF Behind
  <1>5. CASE Place' = O
    BY <1>3, <1>4, <1>5, Zenon DEF Order
  <1>6. ASSUME NEW n \in Int, Place' = O \cup {n}, \A i \in O : i < n, At(n)'.port = p,
               p \notin renewed => At(n)'.sequence = sequence[p] /\ At(n)'.epoch = epoch[p]
        PROVE  Order'
    <2>1. p \notin renewed => Behind(n)'
      <3> SUFFICES ASSUME p \notin renewed PROVE Behind(n)'
        BY Zenon
      <3>1. sequence[p] \in Nat /\ epoch[p] \in Nat /\ PortOrder(p)
        BY <1>t, PlaceTyped, Zenon DEF Order
      <3> QED BY <1>1, <1>6, <3>1 DEF Behind, PortOrder
    <2>2. \A i \in O : At(i)'.port \notin renewed => InTurn(i, n)'
      <3> SUFFICES ASSUME NEW i \in O, At(i)'.port = p, p \notin renewed
                   PROVE  At(i)'.sequence < sequence[p] /\ At(i)'.epoch <= epoch[p]
        BY <1>6, Zenon DEF InTurn
      <3>1. PICK j \in Place : /\ At(i)'.port = At(j).port /\ At(i)'.sequence = At(j).sequence
                               /\ At(i)'.epoch = At(j).epoch
        OBVIOUS
      <3> QED BY <1>1, <3>1, Zenon DEF Order, Behind
    <2>3. \A i \in O : ~(n < i)
      BY <1>6
    <2>4. \A i \in O : InTurn(n, i)'
      BY <2>3, Zenon DEF InTurn
    <2>5. InTurn(n, n)'
      BY DEF InTurn
    <2> QED BY <1>3, <1>4, <1>6, <2>1, <2>2, <2>4, <2>5, Zenon DEF Order
  <1> QED BY <1>5, <1>6, Zenon

\* the places after at_line_event_dequeue: the first entry is in hand
LEMMA DequeuePlaces ==
    ASSUME Inv, Dequeue
    PROVE  Place' = {i - 1 : i \in Place} /\ \A i \in Place : At(i - 1)' = At(i)
  <1>1. /\ queue # <<>> /\ event' = Head(queue) /\ queue' = Tail(queue)
        /\ consumer = "draining" /\ consumer' = "publishing"
    BY Zenon DEF Dequeue
  <1>2. /\ Len(queue') = Len(queue) - 1 /\ Len(queue) \in Nat /\ Len(queue) >= 1
        /\ \A i \in 1..(Len(queue) - 1) : queue'[i] = queue[i + 1]
        /\ event' = queue[1]
    BY <1>1, TailTyped DEF Inv, TypeOK
  <1>3. Place = 1..Len(queue) /\ Place' = 0..(Len(queue) - 1)
    BY <1>1, <1>2 DEF Place
  <1>4. {i - 1 : i \in 1..Len(queue)} = 0..(Len(queue) - 1)
    <2>1. \A j \in 0..(Len(queue) - 1) : j + 1 \in 1..Len(queue) /\ j = (j + 1) - 1
      BY <1>2
    <2>2. \A i \in 1..Len(queue) : i - 1 \in 0..(Len(queue) - 1)
      BY <1>2
    <2> QED BY <2>1, <2>2, Zenon
  <1>5. ASSUME NEW i \in 1..Len(queue) PROVE At(i - 1)' = At(i)
    <2>1. CASE i = 1
      BY <1>2, <2>1 DEF At
    <2>2. CASE i # 1
      <3>1. i - 1 \in 1..(Len(queue) - 1) /\ (i - 1) + 1 = i /\ i - 1 # 0 /\ i # 0
        BY <1>2, <2>2
      <3> QED BY <1>2, <3>1, Zenon DEF At
    <2> QED BY <2>1, <2>2, Zenon
  <1> QED BY <1>3, <1>4, <1>5, Zenon

LEMMA PublishOrder ==
    ASSUME Inv, Order, Publish
    PROVE  Order'
  <1>0. PICK p : p = event.port
    OBVIOUS
  <1>t. TypeOK
    BY DEF Inv
  <1>1. /\ UNCHANGED <<queue, reader, sequence, event, epoch, line, renewed>>
        /\ consumer = "publishing" /\ consumer' = "draining"
        /\ last' = [last EXCEPT ![p] = [epoch |-> event.epoch, sequence |-> event.sequence]]
    BY <1>0, Zenon DEF Publish, queueVars, readerVars
  <1>2. /\ 0 \in Place /\ At(0) = event /\ p \in Ports
        /\ p \notin renewed => Behind(0)
    <2>1. 0 \in Place /\ At(0) = event
      BY <1>1, Zenon DEF Place, At
    <2> QED BY <1>0, <1>t, <2>1, PlaceTyped, Zenon DEF Order
  <1>3. Place' = Place \ {0} /\ (\A i \in Place' : At(i)' = At(i) /\ i \in Place /\ 0 < i)
    BY <1>1, <1>t, PlaceTyped DEF Place, At
  <1>4. /\ last'[p].sequence = event.sequence /\ last'[p].epoch = event.epoch
        /\ \A q \in Ports \ {p} : last'[q] = last[q]
        /\ \A q \in Ports : Done(q)' = Done(q)
    BY <1>1, <1>2, <1>t, Zenon DEF TypeOK, Done
  <1>5. \A q \in Ports \ renewed : PortOrder(q)'
    <2> SUFFICES ASSUME NEW q \in Ports \ renewed PROVE PortOrder(q)'
      OBVIOUS
    <2>1. CASE q = p
      BY <1>0, <1>1, <1>2, <1>4, <2>1, Zenon DEF Order, PortOrder, Behind
    <2>2. CASE q # p
      BY <1>1, <1>4, <2>2, Zenon DEF Order, PortOrder
    <2> QED BY <2>1, <2>2
  <1>6. \A i \in Place' : At(i).port \notin renewed => Behind(i)'
    <2> SUFFICES ASSUME NEW i \in Place', At(i).port \notin renewed PROVE Behind(i)'
      OBVIOUS
    <2>1. /\ At(i)' = At(i) /\ At(i).port \in Ports /\ Behind(i) /\ 0 < i
          /\ At(i).port = p => InTurn(0, i)
      BY <1>0, <1>2, <1>3, <1>t, PlaceTyped, Zenon DEF Order
    <2>2. CASE At(i).port = p
      BY <1>0, <1>1, <1>2, <1>4, <2>1, <2>2, Zenon DEF Behind, InTurn
    <2>3. CASE At(i).port # p
      BY <1>1, <1>4, <2>1, <2>3, Zenon DEF Behind
    <2> QED BY <2>2, <2>3
  <1>7. \A i, j \in Place' : At(i).port \notin renewed => InTurn(i, j)'
    BY <1>3, Zenon DEF Order, InTurn
  <1> QED BY <1>1, <1>3, <1>5, <1>6, <1>7, Zenon DEF Order

LEMMA InitStream == Init => StreamInv
  <1> SUFFICES ASSUME Init PROVE StreamInv
    OBVIOUS
  <1>1. Place = {} /\ \A p \in Ports : Done(p) = 0 /\ last[p].sequence = 0 /\ last[p].epoch = 0
    BY DEF Init, Place, Done
  <1>2. Lost = {}
    <2> SUFFICES ASSUME NEW l \in Line, 0 < l[2], l[2] <= 0 PROVE FALSE
      BY <1>1, Zenon DEF Lost, Line
    <2> QED BY BoundsAssumption DEF Line
  <1>3. Count
    BY <1>2, FS_EmptySet DEF Count, Init
  <1>4. \A p \in Ports : PortOrder(p)
    BY <1>1, BoundsAssumption DEF PortOrder, Init
  <1> QED BY <1>1, <1>3, <1>4 DEF StreamInv, Order, Covered, Init

LEMMA NextStream == Inv /\ NoLossForgotten /\ StreamInv /\ [Next]_vars => StreamInv'
  <1> SUFFICES ASSUME Inv, NoLossForgotten, StreamInv, [Next]_vars PROVE StreamInv'
    OBVIOUS
  <1>t. TypeOK /\ TypeOK' /\ Order
    BY NextInv DEF Inv, StreamInv
  <1>a. renewed = {} => AllOrder /\ Count /\ Covered
    BY <1>t, OrderOfAll, Zenon DEF StreamInv
  <1>1. ASSUME UNCHANGED <<queue, event, last, missed, announced, drop_count>>,
               consumer' = "publishing" <=> consumer = "publishing", renewed \subseteq renewed',
               \A p \in Ports \ renewed' : /\ Done(p)' = Done(p) /\ epoch[p] <= epoch'[p]
                                           /\ PortOrder(p)'
        PROVE  StreamInv'
    <2>1. Place' = Place /\ \A i : At(i)' = At(i)
      BY <1>1, Zenon DEF Place, At
    <2>2. \A i \in Place : i - 0 = i
      BY <1>t, PlaceTyped
    <2>3. Place' = {i - 0 : i \in Place} /\ \A i \in Place : At(i - 0)' = At(i)
      BY <2>1, <2>2, Zenon
    <2>4. \A p \in Ports : epoch'[p] \in Nat
      BY <1>t, Zenon DEF TypeOK
    <2>5. ASSUME renewed' = {} PROVE Count' /\ Covered'
      <3>1. renewed = {} /\ \A p \in Ports : Done(p)' = Done(p)
        BY <1>1, <2>5, Zenon
      <3> QED BY <1>1, <1>a, <1>t, <2>3, <3>1, Moved, Zenon
    <2>6. Order'
      BY <1>1, <1>t, <2>3, <2>4, MovedOrder, Zenon
    <2> QED BY <2>5, <2>6 DEF StreamInv
  <1>2. ASSUME NEW p \in Ports, NextLineEventState(p) PROVE StreamInv'
    <2>1. /\ UNCHANGED <<queue, event, last, missed, announced, drop_count, consumer, epoch,
                         renewed>>
          /\ reader[p] = "reading" /\ reader' = [reader EXCEPT ![p] = "numbered"]
          /\ sequence[p] < MaxLines /\ sequence' = [sequence EXCEPT ![p] = @ + 1]
          /\ line'[p].epoch = epoch[p] /\ line'[p].sequence = sequence[p] + 1
          /\ \A q \in Ports \ {p} : line'[q] = line[q]
      BY <1>2, <1>t DEF NextLineEventState, queueVars, consumerVars, seenVars, TypeOK
    <2>2. ASSUME NEW q \in Ports \ renewed
          PROVE  Done(q)' = Done(q) /\ epoch[q] <= epoch'[q] /\ PortOrder(q)'
      <3>1. sequence[q] \in Nat /\ epoch[q] \in Nat /\ PortOrder(q)
        BY <1>t, PlaceTyped, Zenon DEF Order
      <3>2. CASE q = p
        <4>1. /\ reader'[p] = "numbered" /\ sequence'[p] = sequence[p] + 1
              /\ reader[p] = "reading"
          BY <1>t, <2>1, Zenon DEF TypeOK
        <4>2. Done(p)' = sequence[p] /\ Done(p) = sequence[p]
          <5>1. Done(p)' = sequence'[p] - 1
            BY <4>1, Zenon DEF Done
          <5>2. Done(p) = sequence[p]
            BY <4>1, Zenon DEF Done
          <5>3. sequence'[p] - 1 = sequence[p]
            BY <3>1, <3>2, <4>1
          <5> QED BY <5>1, <5>2, <5>3, Zenon
        <4>3. sequence[p] + 1 <= MaxLines /\ epoch[p] <= epoch[p]
          BY <2>1, <3>1, <3>2, BoundsAssumption
        <4> QED BY <2>1, <3>1, <3>2, <4>1, <4>2, <4>3, Zenon DEF PortOrder
      <3>3. CASE q # p
        <4>1. reader'[q] = reader[q] /\ sequence'[q] = sequence[q] /\ line'[q] = line[q]
          BY <1>t, <2>1, <3>3, Zenon DEF TypeOK
        <4>2. Done(q)' = Done(q) /\ epoch[q] <= epoch[q]
          <5>1. epoch[q] <= epoch[q]
            BY <3>1
          <5> QED BY <4>1, <5>1, Zenon DEF Done
        <4> QED BY <2>1, <3>1, <4>1, <4>2, Zenon DEF PortOrder
      <3> QED BY <3>2, <3>3, Zenon
    <2> QED BY <1>1, <2>1, <2>2, Zenon
  <1>3. ASSUME NEW p \in Ports, AdvanceRestartEpoch(p) PROVE StreamInv'
    <2>1. /\ UNCHANGED <<queue, event, last, missed, announced, drop_count, consumer, reader,
                         sequence, renewed, line>>
          /\ reader[p] = "reading" /\ epoch[p] < MaxReopens
          /\ epoch' = [epoch EXCEPT ![p] = @ + 1]
      BY <1>3, Zenon DEF AdvanceRestartEpoch, queueVars, consumerVars, seenVars
    <2>2. ASSUME NEW q \in Ports \ renewed
          PROVE  Done(q)' = Done(q) /\ epoch[q] <= epoch'[q] /\ PortOrder(q)'
      <3>1. epoch[q] \in Nat /\ PortOrder(q) /\ last[q].epoch \in Nat
        BY <1>t, PlaceTyped, Zenon DEF Order
      <3>2. epoch'[q] = IF q = p THEN epoch[q] + 1 ELSE epoch[q]
        BY <1>t, <2>1, Zenon DEF TypeOK
      <3>3. Done(q)' = Done(q)
        BY <2>1, Zenon DEF Done
      <3> QED BY <2>1, <3>1, <3>2, <3>3, BoundsAssumption DEF PortOrder
    <2> QED BY <1>1, <2>1, <2>2, Zenon
  <1>4. ASSUME NEW p \in Ports, NotifyConsumer(p) PROVE StreamInv'
    <2>1. /\ UNCHANGED <<queue, event, last, missed, announced, drop_count, consumer, epoch,
                         sequence, renewed>>
          /\ reader[p] = "enqueued" /\ reader' = [reader EXCEPT ![p] = "reading"]
          /\ line' = [line EXCEPT ![p] = NoLine]
      BY <1>4 DEF NotifyConsumer, queueVars, consumerVars, seenVars
    <2>2. ASSUME NEW q \in Ports \ renewed
          PROVE  Done(q)' = Done(q) /\ epoch[q] <= epoch'[q] /\ PortOrder(q)'
      <3>1. epoch[q] \in Nat /\ PortOrder(q)
        BY <1>t, PlaceTyped, Zenon DEF Order
      <3>2. /\ reader'[q] = "numbered" <=> reader[q] = "numbered"
            /\ reader'[q] = "numbered" => line'[q] = line[q]
        BY <1>t, <2>1 DEF TypeOK
      <3>3. Done(q)' = Done(q)
        BY <2>1, <3>2, Zenon DEF Done
      <3> QED BY <2>1, <3>1, <3>2, <3>3 DEF PortOrder
    <2> QED BY <1>1, <2>1, <2>2, Zenon
  <1>5. CASE DrainPipe \/ StopDraining \/ CheckRemaining \/ Rearm \/ UNCHANGED vars
    <2>1. /\ UNCHANGED <<queue, event, last, missed, announced, drop_count, reader, epoch,
                         sequence, renewed, line>>
          /\ consumer' = "publishing" <=> consumer = "publishing"
      BY <1>5, Zenon DEF DrainPipe, StopDraining, CheckRemaining, Rearm, vars, queueVars, readerVars,
                  consumerVars, seenVars
    <2>2. ASSUME NEW q \in Ports \ renewed
          PROVE  Done(q)' = Done(q) /\ epoch[q] <= epoch'[q] /\ PortOrder(q)'
      <3>1. epoch[q] \in Nat /\ PortOrder(q)
        BY <1>t, PlaceTyped, Zenon DEF Order
      <3>2. Done(q)' = Done(q) /\ epoch'[q] = epoch[q]
        BY <2>1, Zenon DEF Done
      <3>3. PortOrder(q)'
        BY <2>1, <3>1, <3>2, Zenon DEF PortOrder
      <3> QED BY <3>1, <3>2, <3>3
    <2> QED BY <1>1, <2>1, <2>2, Zenon
  <1>6. CASE Dequeue
    <2>1. Place' = {i - 1 : i \in Place} /\ \A i \in Place : At(i - 1)' = At(i)
      BY <1>6, DequeuePlaces, Zenon
    <2>2. UNCHANGED <<last, missed, announced, drop_count, reader, sequence, epoch, renewed, line>>
      BY <1>6, Zenon DEF Dequeue, readerVars, seenVars
    <2>3. /\ \A q \in Ports : Done(q)' = Done(q)
          /\ \A q \in Ports \ renewed' : /\ Done(q)' = Done(q) /\ epoch'[q] \in Nat
                                         /\ epoch[q] <= epoch'[q] /\ PortOrder(q)'
      <3>1. \A q \in Ports : epoch[q] \in Nat /\ epoch[q] <= epoch[q]
        BY <1>t, PlaceTyped
      <3> QED BY <1>t, <2>2, <3>1, Zenon DEF Order, PortOrder, Done
    <2>4. renewed' = {} => Count' /\ Covered'
      BY <1>a, <1>t, <2>1, <2>2, <2>3, Moved, Zenon
    <2>5. Order'
      BY <1>t, <2>1, <2>2, <2>3, MovedOrder, Zenon
    <2> QED BY <2>4, <2>5 DEF StreamInv
  <1>7. CASE Publish
    <2>1. UNCHANGED renewed
      BY <1>7 DEF Publish, readerVars
    <2> QED BY <1>7, <1>a, <1>t, <2>1, PublishCount, PublishOrder, Zenon DEF StreamInv
  <1>8. ASSUME NEW p \in Ports, DropOversized(p) PROVE StreamInv'
    <2>1. renewed = {} => Count' /\ Covered'
      BY <1>8, <1>a, <1>t, DropCount, Zenon
    <2>2. /\ UNCHANGED <<queue, consumer, event, sequence, epoch, renewed, last>>
          /\ reader[p] = "numbered" /\ reader' = [reader EXCEPT ![p] = "reading"]
          /\ line' = [line EXCEPT ![p] = NoLine]
      BY <1>8, Zenon DEF DropOversized, consumerVars, seenVars
    <2>l. \A q \in Ports \ {p} : line'[q] = line[q]
      BY <1>t, <2>2, Zenon DEF TypeOK
    <2>3. Place' = Place /\ \A i : At(i)' = At(i)
      BY <2>2, Zenon DEF Place, At
    <2>4. \A i, j \in Place : At(i)'.port \notin renewed => InTurn(i, j)'
      BY <1>t, <2>3, Zenon DEF Order, InTurn
    <2>5. \A i \in Place : i \in Int
      BY <1>t, PlaceTyped
    <2>6. Order'
      BY <1>t, <2>2, <2>l, <2>3, <2>4, <2>5, NewOrder, Zenon
    <2> QED BY <2>1, <2>2, <2>6, Zenon DEF StreamInv
  <1>9. ASSUME NEW p \in Ports, Append_(p) PROVE StreamInv'
    <2>1. renewed = {} => Count' /\ Covered'
      BY <1>9, <1>a, AppendCount, Zenon
    <2>2. /\ UNCHANGED <<sequence, epoch, renewed, line, last>>
          /\ reader[p] = "numbered" /\ reader' = [reader EXCEPT ![p] = "enqueued"]
      BY <1>9, Zenon DEF Append_, seenVars
    <2>3. PICK n : n = Len(queue) + 1
      OBVIOUS
    <2>4. /\ Place' = Place \cup {n} /\ \A i \in Place : i < n /\ At(i)' = At(i)
          /\ At(n)' = NewEntry(p, pending)
      BY <1>9, <2>3, AppendPlaces, Zenon
    <2>5. /\ At(n)'.port = p
          /\ p \notin renewed => At(n)'.sequence = sequence[p] /\ At(n)'.epoch = epoch[p]
      BY <1>t, <2>2, <2>4 DEF NewEntry, Order, PortOrder
    <2>6. n \in Int /\ \A i \in Place : i \in Int
      BY <1>t, <2>3, PlaceTyped
    <2>7. \A i, j \in Place : At(i)'.port \notin renewed => InTurn(i, j)'
      BY <1>t, <2>4, Zenon DEF Order, InTurn
    <2>8. Order'
      BY <1>t, <2>2, <2>4, <2>5, <2>6, <2>7, NewOrder, Zenon
    <2> QED BY <2>1, <2>2, <2>8, Zenon DEF StreamInv
  <1>10. ASSUME NEW p \in Ports, Overwrite(p) PROVE StreamInv'
    <2>1. renewed = {} => Count' /\ Covered'
      BY <1>10, <1>a, OverwriteCount, Zenon
    <2>2. /\ UNCHANGED <<sequence, epoch, renewed, line, last>>
          /\ reader[p] = "numbered" /\ reader' = [reader EXCEPT ![p] = "enqueued"]
      BY <1>10, Zenon DEF Overwrite, seenVars
    <2>3. PICK n : n = Len(queue)
      BY Zenon
    <2>4. /\ Place' = Place /\ n \in Nat /\ n >= 2 /\ n \in Place /\ 1 \in Place
          /\ \A i \in Place : i \in 0..n
          /\ 0 \in Place => At(0)' = At(0)
          /\ \A i \in Place \ {0, n} :
                /\ i + 1 \in Place /\ At(i)'.port = At(i + 1).port
                /\ At(i)'.sequence = At(i + 1).sequence /\ At(i)'.epoch = At(i + 1).epoch
          /\ At(n)' = NewEntry(p, 0)
      BY <1>10, <2>3, OverwritePlaces, Zenon
    <2>5. /\ At(n)'.port = p
          /\ p \notin renewed => At(n)'.sequence = sequence[p] /\ At(n)'.epoch = epoch[p]
      <3>1. p \notin renewed => line[p].sequence = sequence[p] /\ line[p].epoch = epoch[p]
        BY <1>t, <2>2, Zenon DEF Order, PortOrder
      <3>2. At(n)' = NewEntry(p, 0)
        BY <2>4
      <3>3. /\ NewEntry(p, 0).port = p /\ NewEntry(p, 0).sequence = line[p].sequence
            /\ NewEntry(p, 0).epoch = line[p].epoch
        BY DEF NewEntry
      <3> QED BY <3>1, <3>2, <3>3, Zenon
    <2> DEFINE O == Place \ {n}
               From(i) == IF i = 0 THEN 0 ELSE i + 1
    <2>6. \A i \in O : /\ i \in Int /\ i < n /\ From(i) \in Place
                       /\ At(i)'.port = At(From(i)).port
                       /\ At(i)'.sequence = At(From(i)).sequence
                       /\ At(i)'.epoch = At(From(i)).epoch
      BY <2>4
    <2>7. \A i, j \in O : i < j => From(i) < From(j)
      BY <2>4
    <2> HIDE DEF From
    <2>8. \A i, j \in O : At(i)'.port \notin renewed => InTurn(i, j)'
      BY <1>t, <2>6, <2>7, Zenon DEF Order, InTurn
    <2>9. Place' = O \cup {n} /\ n \in Int
      BY <2>4
    <2>10. PICK P : P = O
      BY Zenon
    <2>11. \A i \in P : i \in Int /\ \E j \in Place : /\ At(i)'.port = At(j).port
                                               /\ At(i)'.sequence = At(j).sequence
                                               /\ At(i)'.epoch = At(j).epoch
      BY <2>6, <2>10, Zenon
    <2>12. \A i, j \in P : At(i)'.port \notin renewed => InTurn(i, j)'
      BY <2>8, <2>10
    <2>13. \E k \in Int : /\ Place' = P \cup {k} /\ \A i \in P : i < k
                          /\ At(k)'.port = p
                          /\ p \notin renewed => /\ At(k)'.sequence = sequence[p]
                                                 /\ At(k)'.epoch = epoch[p]
      BY <2>5, <2>6, <2>9, <2>10, Zenon
    <2>14. Order'
      BY <1>t, <2>2, <2>11, <2>12, <2>13, NewOrder, Zenon
    <2> QED BY <2>1, <2>2, <2>14, Zenon DEF StreamInv
  <1>11. ASSUME NEW p \in Ports, RecreateInstance(p) PROVE StreamInv'
    <2>1. /\ UNCHANGED <<queue, event, last, missed, announced, drop_count, consumer, reader, line>>
          /\ epoch' = [epoch EXCEPT ![p] = 0] /\ sequence' = [sequence EXCEPT ![p] = 0]
          /\ renewed' = renewed \cup {p}
      BY <1>11, Zenon DEF RecreateInstance, queueVars, consumerVars, seenVars
    <2>2. ASSUME NEW q \in Ports \ renewed'
          PROVE  Done(q)' = Done(q) /\ epoch[q] <= epoch'[q] /\ PortOrder(q)'
      <3>1. epoch[q] \in Nat /\ PortOrder(q) /\ q # p
        BY <1>t, <2>1, PlaceTyped, Zenon DEF Order
      <3>2. epoch'[q] = epoch[q] /\ sequence'[q] = sequence[q]
        BY <1>t, <2>1, <3>1, Zenon DEF TypeOK
      <3>3. Done(q)' = Done(q)
        BY <2>1, <3>2 DEF Done
      <3>4. PortOrder(q)'
        BY <2>1, <3>1, <3>2, <3>3, Zenon DEF PortOrder
      <3> QED BY <3>1, <3>2, <3>3, <3>4
    <2>3. renewed \subseteq renewed'
      BY <2>1
    <2> QED BY <1>1, <2>1, <2>2, <2>3, Zenon
  <1> QED BY <1>2, <1>3, <1>4, <1>5, <1>6, <1>7, <1>8, <1>9, <1>10, <1>11, Zenon
          DEF Next, Read, Enqueue, Consume

LEMMA AlwaysStream == Spec => [](Inv /\ StreamInv)
  <1>1. Spec => []NoLossForgotten
    BY LossRemembered
  <1> QED BY <1>1, InitInv, NextInv, InitStream, NextStream, PTL DEF Spec

\* What a subscriber sees of the ring is a SubscriberStream: the lines of a port come in
\* order, over overflows, oversized lines and reopened ports, until create_port_instance
\* makes a new instance for its path, and while no port has one, no hole shows before the
\* drop_count that covers it (at_line_event_enqueue marks the successor of what it
\* overwrites, at_line_event_dequeue clears only a report that is up to date).
THEOREM StreamKept == Spec => StreamPromise
  <1>1. Init => Stream!Init
    BY Zenon DEF Init, Stream!Init
  <1>2. Inv /\ StreamInv /\ StreamInv' /\ [Next]_vars => [Stream!Next]_(Stream!vars)
    <2> SUFFICES ASSUME Inv, StreamInv, StreamInv', [Next]_vars PROVE [Stream!Next]_(Stream!vars)
      OBVIOUS
    <2>t. TypeOK
      BY DEF Inv
    <2>1. CASE Publish
      <3>1. PICK p, e, s : p = event.port /\ e = event.epoch /\ s = event.sequence
        OBVIOUS
      <3>2. /\ last' = [last EXCEPT ![p] = [epoch |-> e, sequence |-> s]]
            /\ missed' = IF p \in renewed THEN missed ELSE missed + (s - last[p].sequence - 1)
            /\ UNCHANGED renewed
            /\ announced' = IF event.drop_count > announced THEN event.drop_count ELSE announced
        BY <2>1, <3>1, Zenon DEF Publish, readerVars
      <3>3. 0 \in Place /\ At(0) = event
        BY <2>1, Zenon DEF Publish, Place, At
      <3>4. /\ p \in Ports /\ s \in Nat /\ e \in Nat /\ last[p].sequence \in Nat
            /\ last[p].epoch \in Nat /\ announced \in Nat /\ event.drop_count \in Nat
            /\ Done(p) \in Int /\ sequence[p] \in Nat /\ epoch[p] \in Nat /\ Done(p) <= sequence[p]
        BY <2>t, <3>1, <3>3, PlaceTyped, Zenon
      <3>5. announced' >= announced
        BY <3>2, <3>4
      <3>6. CASE p \in renewed
        <4>1. \A q \in Ports \ {p} : last'[q] = last[q]
          BY <2>t, <3>2, Zenon DEF TypeOK
        <4>2. Stream!DeliverRenewed(p)
          BY <3>2, <3>5, <3>6, <4>1, Zenon DEF Stream!DeliverRenewed
        <4> QED BY <3>4, <4>2, Zenon DEF Stream!Next
      <3>7. CASE p \notin renewed
        <4>1. Behind(0) /\ PortOrder(p)
          BY <3>1, <3>3, <3>4, <3>7, Zenon DEF StreamInv, Order
        <4>2. e \in last[p].epoch..MaxReopens /\ s \in (last[p].sequence + 1)..MaxLines
          BY <3>1, <3>3, <3>4, <4>1, BoundsAssumption DEF Behind, PortOrder
        <4>3. renewed = {} => announced' >= missed'
          <5>1. announced' \in Int /\ missed' \in Int
            <6>1. missed \in Int /\ s - last[p].sequence - 1 \in Int
              BY <2>t, <3>4 DEF TypeOK
            <6> QED BY <3>2, <3>4, <6>1
          <5>2. renewed = {} => missed' <= announced'
            BY <3>2, Zenon DEF StreamInv, Covered
          <5> QED BY <5>1, <5>2
        <4>4. Stream!Deliver(p, e, s)
          BY <3>2, <3>5, <3>7, <4>3, Zenon DEF Stream!Deliver
        <4> QED BY <3>4, <4>2, <4>4, Zenon DEF Stream!Next
      <3> QED BY <3>6, <3>7, Zenon
    <2>2. ASSUME NEW p \in Ports, RecreateInstance(p) PROVE Stream!Next
      <3>1. Stream!Renew(p)
        BY <2>2, Zenon DEF RecreateInstance, seenVars, Stream!Renew
      <3> QED BY <3>1, Zenon DEF Stream!Next
    <2>3. CASE ~Publish /\ \A p \in Ports : ~RecreateInstance(p)
      <3>1. UNCHANGED <<seenVars, renewed>>
        BY <2>3, Zenon DEF Next, Read, Enqueue, Consume, vars, NextLineEventState, AdvanceRestartEpoch,
                    DropOversized, Append_, Overwrite, NotifyConsumer, DrainPipe, Dequeue,
                    StopDraining, CheckRemaining, Rearm, readerVars
      <3> QED BY <3>1 DEF seenVars, Stream!vars
    <2> QED BY <2>1, <2>2, <2>3
  <1> QED BY <1>1, <1>2, AlwaysStream, PTL DEF Spec, StreamPromise, Stream!Spec

\* a set that a one-to-one function f maps S onto has the size of S
LEMMA SameSize ==
    ASSUME NEW S, IsFiniteSet(S), NEW T, NEW f \in [S -> T],
           \A x, y \in S : f[x] = f[y] => x = y, \A t \in T : \E x \in S : f[x] = t
    PROVE  IsFiniteSet(T) /\ Cardinality(T) = Cardinality(S)
  <1>1. f \in Bijection(S, T)
    BY Zenon DEF Bijection, Injection, Surjection, IsInjective
  <1>2. ExistsBijection(S, T)
    BY <1>1, Zenon DEF ExistsBijection
  <1> QED BY <1>2, FS_Bijection

LEMMA Disjoint ==
    ASSUME NEW S, NEW T, S \subseteq Line, T \subseteq Line, S \cap T = {}
    PROVE  /\ Cardinality(S \cup T) = Cardinality(S) + Cardinality(T) /\ S \cup T \subseteq Line
           /\ Cardinality(S) \in Nat /\ Cardinality(T) \in Nat
  <1>1. IsFiniteSet(S) /\ IsFiniteSet(T) /\ Cardinality(S) \in Nat /\ Cardinality(T) \in Nat
    BY Counting, Zenon
  <1>2. Cardinality(S \cup T) = Cardinality(S) + Cardinality(T) - Cardinality({})
    BY <1>1, FS_Union, Zenon
  <1>3. Cardinality({}) = 0
    BY FS_EmptySet
  <1> QED BY <1>1, <1>2, <1>3

\* Between the sequences its reader has given out and the last one published, a line of
\* a port is with the reader, waits in the ring or was lost and counted: the numbers of
\* all of them agree (at_port_next_line_event_state, at_line_event_enqueue,
\* publish_line_event), until create_port_instance gives out numbers again.
THEOREM LinesAccounted == Spec => []EveryLineAccounted
  <1>1. Inv /\ StreamInv => EveryLineAccounted
    <2> SUFFICES ASSUME Inv, StreamInv, renewed = {} PROVE EveryLineAccounted
      BY DEF EveryLineAccounted
    <2> DEFINE Held == {p \in Ports : reader[p] = "numbered"}
               B == {<<p, sequence[p]>> : p \in Held}
               U == UpTo(sequence)
               V == UpTo([p \in Ports |-> last[p].sequence])
               W(i) == <<At(i).port, At(i).sequence>>
    <2>t. TypeOK /\ AllOrder
      BY OrderOfAll, Zenon DEF Inv, StreamInv
    <2>0. \A p \in Ports : /\ last[p].sequence \in Nat /\ Done(p) \in Int /\ sequence[p] \in Nat
                           /\ last[p].sequence <= Done(p) /\ Done(p) <= sequence[p]
                           /\ sequence[p] <= MaxLines
                           /\ Done(p) = IF p \in Held THEN sequence[p] - 1 ELSE sequence[p]
      BY <2>t, PlaceTyped, Zenon DEF AllOrder, PortOrder, Done
    <2>1. \A p \in Held : sequence[p] \in 1..MaxLines
      BY <2>0, BoundsAssumption
    <2>2. \A i \in Place : /\ At(i).port \in Ports /\ At(i).sequence \in Nat
                           /\ last[At(i).port].sequence < At(i).sequence
                           /\ At(i).sequence <= Done(At(i).port)
      BY <2>t, PlaceTyped, Zenon DEF AllOrder, Behind
    <2>3. \A i \in Place : At(i).sequence \in 1..MaxLines
      BY <2>0, <2>2, BoundsAssumption
    <2>4. Waiting \subseteq Line /\ B \subseteq Line /\ U \subseteq Line /\ V \subseteq Line
          /\ Lost \subseteq Line
      BY <2>1, <2>2, <2>3 DEF Waiting, Line, UpTo, Lost
    <2>5. ASSUME NEW l \in Line
          PROVE  /\ l \in V => l \notin Lost /\ l \notin Waiting /\ l \notin B /\ l \in U
                 /\ l \in Lost => l \notin Waiting /\ l \notin B /\ l \in U
                 /\ l \in Waiting => l \notin B /\ l \in U
                 /\ l \in B => l \in U
                 /\ l \in U => l \in V \/ l \in Lost \/ l \in Waiting \/ l \in B
      <3>1. PICK p, n : p = l[1] /\ n = l[2]
        OBVIOUS
      <3>2. p \in Ports /\ n \in Nat /\ n \in 1..MaxLines /\ l = <<p, n>>
        BY <3>1, BoundsAssumption DEF Line
      <3>3. /\ l \in U <=> n <= sequence[p]
            /\ l \in V <=> n <= last[p].sequence
            /\ l \in Lost <=> last[p].sequence < n /\ n <= Done(p) /\ l \notin Waiting
        BY <3>1, <3>2, Zenon DEF UpTo, Lost, Line
      <3>4. l \in Waiting => last[p].sequence < n /\ n <= Done(p)
        <4> SUFFICES ASSUME NEW i \in Place, l = W(i) PROVE last[p].sequence < n /\ n <= Done(p)
          BY Zenon DEF Waiting
        <4>1. At(i).port = p /\ At(i).sequence = n
          BY <3>2
        <4> QED BY <2>2, <4>1, Zenon
      <3>5. l \in B <=> p \in Held /\ n = sequence[p]
        BY <3>2, Zenon
      <3> HIDE DEF Held, B, U, V
      <3>6. l \in B <=> Done(p) < n /\ n <= sequence[p]
        BY <2>0, <3>2, <3>5
      <3> QED BY <2>0, <3>2, <3>3, <3>4, <3>6
    <2> HIDE DEF U, V, B
    <2>6. /\ U = ((V \cup Lost) \cup Waiting) \cup B
          /\ V \cap Lost = {} /\ (V \cup Lost) \cap Waiting = {}
          /\ ((V \cup Lost) \cup Waiting) \cap B = {}
      BY <2>4, <2>5, Zenon
    <2>7. /\ Cardinality(V) \in Nat /\ Cardinality(Lost) \in Nat /\ Cardinality(Waiting) \in Nat
          /\ Cardinality(B) \in Nat
          /\ Cardinality(U) = ((Cardinality(V) + Cardinality(Lost)) + Cardinality(Waiting))
                              + Cardinality(B)
      <3>1. /\ Cardinality(V \cup Lost) = Cardinality(V) + Cardinality(Lost)
            /\ V \cup Lost \subseteq Line /\ Cardinality(V) \in Nat /\ Cardinality(Lost) \in Nat
        BY <2>4, <2>6, Disjoint, Zenon
      <3>2. /\ Cardinality((V \cup Lost) \cup Waiting)
                 = Cardinality(V \cup Lost) + Cardinality(Waiting)
            /\ (V \cup Lost) \cup Waiting \subseteq Line /\ Cardinality(Waiting) \in Nat
        BY <2>4, <2>6, <3>1, Disjoint, Zenon
      <3>3. /\ Cardinality(((V \cup Lost) \cup Waiting) \cup B)
                 = Cardinality((V \cup Lost) \cup Waiting) + Cardinality(B)
            /\ Cardinality(B) \in Nat
        BY <2>4, <2>6, <3>2, Disjoint, Zenon
      <3> QED BY <2>6, <3>1, <3>2, <3>3, Zenon
    <2>8. Cardinality(B) = Cardinality(Held)
      <3>1. IsFiniteSet(Held)
        BY PortsAssumption, FS_Subset, Zenon
      <3> DEFINE f == [p \in Held |-> <<p, sequence[p]>>]
      <3>2. /\ f \in [Held -> B] /\ \A x, y \in Held : f[x] = f[y] => x = y
            /\ \A b \in B : \E x \in Held : f[x] = b
        BY Zenon DEF B
      <3> HIDE DEF f, Held
      <3> QED BY <3>1, <3>2, SameSize, Zenon
    <2>9. Cardinality(Waiting) = Len(queue) + (IF consumer = "publishing" THEN 1 ELSE 0)
      <3>1. Len(queue) \in Nat
        BY <2>t, PlaceTyped, Zenon
      <3>2. IsFiniteSet(1..Len(queue)) /\ Cardinality(1..Len(queue)) = Len(queue)
        <4>1. /\ IsFiniteSet(1..Len(queue))
              /\ Cardinality(1..Len(queue)) = IF 1 > Len(queue) THEN 0 ELSE Len(queue) - 1 + 1
          BY <3>1, FS_Interval
        <4> QED BY <3>1, <4>1
      <3>3. /\ IsFiniteSet(Place)
            /\ Cardinality(Place) = Len(queue) + (IF consumer = "publishing" THEN 1 ELSE 0)
        <4>1. CASE consumer = "publishing"
          <5>1. Place = 1..Len(queue) \cup {0} /\ 0 \notin 1..Len(queue)
            BY <4>1 DEF Place
          <5> QED BY <3>2, <4>1, <5>1, FS_AddElement, Zenon
        <4>2. CASE consumer # "publishing"
          <5>1. Place = 1..Len(queue)
            BY <4>2 DEF Place
          <5> QED BY <3>1, <3>2, <4>2, <5>1
        <4> QED BY <4>1, <4>2, Zenon
      <3> DEFINE f == [i \in Place |-> W(i)]
      <3>4. \A i, j \in Place : W(i) = W(j) => i = j
        <4> SUFFICES ASSUME NEW i \in Place, NEW j \in Place, W(i) = W(j) PROVE i = j
          BY Zenon
        <4>1. At(i).port = At(j).port /\ At(i).sequence = At(j).sequence
          BY Zenon
        <4>2. i \in Int /\ j \in Int /\ InTurn(i, j) /\ InTurn(j, i)
          BY <2>t, PlaceTyped DEF AllOrder
        <4>3. ~(i < j) /\ ~(j < i)
          BY <2>2, <4>1, <4>2 DEF InTurn
        <4> QED BY <4>2, <4>3
      <3>5. Waiting = {W(i) : i \in Place}
        BY Zenon DEF Waiting
      <3> HIDE DEF W
      <3>6. /\ f \in [Place -> Waiting] /\ \A x, y \in Place : f[x] = f[y] => x = y
            /\ \A b \in Waiting : \E x \in Place : f[x] = b
        BY <3>4, <3>5, Zenon
      <3> HIDE DEF f
      <3> QED BY <3>3, <3>6, SameSize, Zenon
    <2>10. missed + Cardinality(Lost) = drop_count /\ missed \in Int /\ Len(queue) \in Nat
      BY <2>t, PlaceTyped, Zenon DEF StreamInv, Count
    <2>11. EveryLineAccounted <=>
             Cardinality(U) + missed = Cardinality(V) + drop_count
                + (Cardinality(Held) + Len(queue) + (IF consumer = "publishing" THEN 1 ELSE 0))
      BY Zenon DEF EveryLineAccounted, InFlight, U, V
    <2> HIDE DEF Held
    <2> QED BY <2>7, <2>8, <2>9, <2>10, <2>11
  <1> QED BY <1>1, AlwaysStream, PTL
===============================================================================
