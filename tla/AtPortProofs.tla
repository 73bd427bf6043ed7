------------------------------ MODULE AtPortProofs ------------------------------
(* Proofs about the threads of ubus-at-daemon that share an AT port: who   *)
(* may be inside open_at_port and close_at_port, on which instance, and    *)
(* which reader threads run meanwhile                                      *)
EXTENDS AtPort, FiniteSetTheorems, TLAPS

\* where a thread holds lifecycle_mutex; where it is inside open_at_port or close_at_port
Lifecycled == {"reopen", "closing"}
Busy == {"open", "reopen", "close", "closing"}
Label == Busy \cup {"idle", "check", "opened", "destroy", "dismantle", "unlink", "stopping",
                   "cleanup", "exit"}
Instance == [open : BOOLEAN, reader : Nat, stop : BOOLEAN, epoch : Nat, due : BOOLEAN,
             lifecycle : Threads \cup {None}, destroyed : BOOLEAN, freed : BOOLEAN]
ReaderThread == [inst : Nat, alive : BOOLEAN, epoch : Nat]

Typed ==
    /\ insts \in Seq(Instance) /\ readers \in Seq(ReaderThread)
    /\ pc \in [Threads -> Label] /\ cur \in [Threads -> Nat] /\ join \in [Threads -> Nat]
    /\ after \in [Threads -> Label]

\* at most one instance is listed, the last one created; the monitor holds ports_mutex
\* during its round and works on a listed instance
Listed ==
    /\ ports \subseteq {Len(insts)} /\ ports \subseteq DOMAIN insts
    /\ \A i \in ports : ~insts[i].freed
    /\ todo \subseteq ports
    /\ ports_mutex \in Threads \cup {None}
    /\ ports_mutex = "monitor" <=> pc["monitor"] # "idle"
    /\ pc["monitor"] \in Busy \cup {"idle", "check"}
    /\ pc["monitor"] = "idle" => todo = {}
    /\ pc["monitor"] \in Busy => cur["monitor"] \in ports /\ after["monitor"] = "check"

\* the ubus thread works on the listed instance and returns to where it called from;
\* only destroy_port_instance leaves a listed instance with destroyed mutexes
Called ==
    /\ pc["ubus"] \in {"open", "reopen", "opened", "close", "closing", "destroy", "dismantle",
                       "unlink"} => cur["ubus"] \in ports
    /\ pc["ubus"] \in {"open", "reopen"} => after["ubus"] = "opened"
    /\ pc["ubus"] \in {"close", "closing"} => after["ubus"] \in {"destroy", "dismantle"}
    /\ pc["ubus"] \in {"stopping", "cleanup"} => op = "shutdown"
    /\ op = "shutdown" => pc["ubus"] \in {"stopping", "cleanup", "destroy", "close", "closing",
                                          "dismantle", "unlink", "exit"}
    /\ op = "shutdown" /\ pc["ubus"] \notin {"stopping", "exit"} => ports_mutex = "ubus"
    /\ \A i \in ports : insts[i].destroyed => pc["ubus"] = "unlink" /\ cur["ubus"] = i

\* lifecycle_mutex is held by the thread between stop_reader and the end
Locked ==
    \A i \in DOMAIN insts, t \in Threads :
       insts[i].lifecycle = t <=> pc[t] \in Lifecycled /\ cur[t] = i

\* a reader that runs is the one its instance names, or about to be joined by the
\* thread that holds the mutex; an open port is read by its own reader
Read ==
    /\ \A t \in Threads : pc[t] \in Lifecycled => Inst(t).reader = 0
    /\ \A r \in DOMAIN readers : readers[r].alive =>
          /\ readers[r].inst \in DOMAIN insts
          /\ \/ insts[readers[r].inst].reader = r
             \/ \E t \in Threads : pc[t] \in Lifecycled /\ cur[t] = readers[r].inst /\ join[t] = r
    /\ \A i \in DOMAIN insts : insts[i].open /\ insts[i].lifecycle = None =>
          /\ insts[i].reader \in DOMAIN readers /\ ~insts[i].stop
          /\ readers[insts[i].reader].alive /\ readers[insts[i].reader].inst = i

Inv == Typed /\ Listed /\ Called /\ Locked /\ Read

\* the method that runs created the instance; check_interval has not passed for it, so
\* that the monitor leaves it alone until the method ends
Creating == is_new = TRUE /\ op # "shutdown" /\ pc["ubus"] # "idle"
New == Creating => cur["ubus"] \in ports /\ ~Inst("ubus").due /\ pc["monitor"] \notin Busy

\* before the close method is used: readers run on the listed instance only, and
\* destroy_port_instance is entered for a new instance whose open_at_port failed
Vacant == Inst("ubus").reader = 0 /\ \A r \in DOMAIN readers : ~readers[r].alive
Ending == {"destroy", "close", "closing", "dismantle", "unlink"}
Unclosed ==
    /\ \A r \in DOMAIN readers : readers[r].alive => readers[r].inst \in ports
    /\ pc["ubus"] \in {"close", "closing"} => after["ubus"] = "dismantle"
    /\ pc["ubus"] \in Ending /\ op # "shutdown" => is_new /\ Vacant
    /\ pc["ubus"] = "opened" /\ is_new /\ ~ok => Vacant

Flags == closed \in BOOLEAN /\ is_new \in BOOLEAN /\ ok \in BOOLEAN

-------------------------------------------------------------------------------
\* replacing one entry of a sequence
LEMMA Put ==
    ASSUME NEW S, NEW q \in Seq(S), NEW c \in DOMAIN q, NEW x \in S, NEW r,
           r = [q EXCEPT ![c] = x]
    PROVE  /\ r \in Seq(S) /\ Len(r) = Len(q) /\ DOMAIN r = DOMAIN q
           /\ r[c] = x /\ \A i \in DOMAIN q \ {c} : r[i] = q[i]
  OBVIOUS

\* appending one
LEMMA Added ==
    ASSUME NEW S, NEW q \in Seq(S), NEW x \in S, NEW r, r = Append(q, x)
    PROVE  /\ r \in Seq(S) /\ Len(r) = Len(q) + 1 /\ DOMAIN r = DOMAIN q \cup {Len(q) + 1}
           /\ Len(q) + 1 \notin DOMAIN q
           /\ r[Len(q) + 1] = x /\ \A i \in DOMAIN q : r[i] = q[i]
  <1>1. /\ r \in Seq(S) /\ Len(r) = Len(q) + 1 /\ Len(q) \in Nat
        /\ DOMAIN r = 1..(Len(q) + 1) /\ DOMAIN q = 1..Len(q)
    OBVIOUS
  <1>2. r[Len(q) + 1] = x /\ \A i \in DOMAIN q : r[i] = q[i]
    BY <1>1
  <1> QED BY <1>1, <1>2

\* a thread in open_at_port or close_at_port works on the listed instance
LEMMA Working ==
    ASSUME Inv, NEW t \in Threads, pc[t] \in Busy
    PROVE  /\ cur[t] \in ports /\ cur[t] \in DOMAIN insts /\ Inst(t) \in Instance
           /\ after[t] \in {"check", "opened", "destroy", "dismantle"}
  <1>1. CASE t = "ubus"
    BY <1>1 DEF Inv, Typed, Listed, Called, Busy, Inst
  <1>2. CASE t = "monitor"
    BY <1>2 DEF Inv, Typed, Listed, Called, Busy, Inst
  <1> QED BY <1>1, <1>2 DEF Threads

\* ... and whoever gets past lifecycle_mutex, destroyed or not, is alone with it
LEMMA Alone ==
    ASSUME Inv, NEW t \in Threads, pc[t] \in {"open", "close"}, LifecycleFree(t)
    PROVE  Inst(t).lifecycle = None
  <1>1. cur[t] \in ports /\ cur[t] \in DOMAIN insts /\ Inst(t) \in Instance
    BY Working DEF Busy
  <1>2. ASSUME Inst(t).destroyed, NEW u \in Threads PROVE Inst(t).lifecycle # u
    <2>1. pc["ubus"] = "unlink"
      BY <1>1, <1>2 DEF Inv, Called, Inst
    <2>2. pc[u] \notin Lifecycled
      BY <2>1, <1>2 DEF Threads, Lifecycled
    <2> QED BY <1>1, <2>2 DEF Inv, Locked, Inst
  <1> QED BY <1>1, <1>2 DEF LifecycleFree, Instance

\* fields that open_at_port and close_at_port leave alone
Kept(x, i) == x.due = i.due /\ x.destroyed = i.destroyed /\ x.freed = i.freed

\* a step of open_at_port or close_at_port moves its thread and changes its instance
LEMMA LifecycleStep ==
    ASSUME Inv, NEW t \in Threads, Lifecycle(t)
    PROVE  /\ pc[t] \in Busy
           /\ UNCHANGED <<ports, ports_mutex, cur, after, op, is_new, todo, closed>>
           /\ \/ pc' = [pc EXCEPT ![t] = after[t]]
              \/ pc[t] = "open" /\ pc' = [pc EXCEPT ![t] = "reopen"]
              \/ pc[t] = "close" /\ pc' = [pc EXCEPT ![t] = "closing"]
           /\ \E x \in Instance : insts' = [insts EXCEPT ![cur[t]] = x] /\ Kept(x, Inst(t))
           /\ readers' \in Seq(ReaderThread) /\ join' \in [Threads -> Nat]
  <1>1. pc[t] \in Busy
    BY DEF Lifecycle, OpenAlready, OpenStop, OpenSucceeds, OpenFails, CloseStop, CloseDone, Busy
  <1>2. cur[t] \in DOMAIN insts /\ Inst(t) \in Instance
    BY <1>1, Working
  <1>3. Inst(t).reader \in Nat /\ Inst(t).epoch \in Nat /\ cur[t] \in Nat
    BY <1>2 DEF Instance, Inv, Typed
  <1>c. UNCHANGED <<ports, ports_mutex, cur, after, op, is_new, todo, closed>>
    BY DEF Lifecycle, OpenAlready, OpenStop, OpenSucceeds, OpenFails, CloseStop, CloseDone,
           bounds
  <1>d. \/ pc' = [pc EXCEPT ![t] = after[t]]
        \/ pc[t] = "open" /\ pc' = [pc EXCEPT ![t] = "reopen"]
        \/ pc[t] = "close" /\ pc' = [pc EXCEPT ![t] = "closing"]
    BY DEF Lifecycle, OpenAlready, OpenStop, OpenSucceeds, OpenFails, CloseStop, CloseDone,
           Goto
  <1> SUFFICES /\ \E x \in Instance : insts' = [insts EXCEPT ![cur[t]] = x] /\ Kept(x, Inst(t))
               /\ readers' \in Seq(ReaderThread) /\ join' \in [Threads -> Nat]
    BY <1>1, <1>c, <1>d, Zenon
  <1> DEFINE i == Inst(t)
  <1>4. CASE OpenAlready(t)
    <2>1. insts' = [insts EXCEPT ![cur[t]] = i] /\ Kept(i, i)
      BY <1>2, <1>4 DEF OpenAlready, Inst, Kept, Inv, Typed
    <2>2. UNCHANGED <<readers, join>>
      BY <1>4 DEF OpenAlready
    <2> QED BY <1>2, <2>1, <2>2, Zenon DEF Inv, Typed
  <1>5. CASE OpenStop(t) \/ CloseStop(t)
    <2>1. /\ insts' = [insts EXCEPT ![cur[t]] = Stopped(t, i)]
          /\ join' = [join EXCEPT ![t] = i.reader] /\ readers' = readers
      BY <1>5 DEF OpenStop, CloseStop, SetInst
    <2>2. Stopped(t, i) \in Instance /\ Kept(Stopped(t, i), i)
      BY <1>2, Zenon DEF Stopped, Instance, Kept
    <2>3. join' \in [Threads -> Nat]
      BY <1>3, <2>1 DEF Inv, Typed
    <2> QED BY <2>1, <2>2, <2>3, Zenon DEF Inv, Typed
  <1>6. CASE OpenSucceeds(t)
    <2> DEFINE x == [i EXCEPT !.open = TRUE, !.stop = FALSE, !.epoch = NextEpoch(i),
                              !.reader = Len(readers) + 1, !.lifecycle = None]
               r == [inst |-> cur[t], alive |-> TRUE, epoch |-> NextEpoch(i)]
    <2>1. /\ insts' = [insts EXCEPT ![cur[t]] = x] /\ readers' = Append(readers, r)
          /\ join' = join
      BY <1>6 DEF OpenSucceeds, SetInst
    <2>2. NextEpoch(i) \in Nat /\ Len(readers) + 1 \in Nat
      BY <1>3 DEF NextEpoch, Inv, Typed
    <2>3. x \in Instance /\ Kept(x, i)
      BY <1>2, <2>2, Zenon DEF Instance, Kept
    <2>4. r \in ReaderThread
      BY <1>3, <2>2 DEF ReaderThread
    <2>5. readers' \in Seq(ReaderThread)
      BY <2>1, <2>4, Added DEF Inv, Typed
    <2> HIDE DEF x, r
    <2> QED BY <2>1, <2>3, <2>5, Zenon DEF Inv, Typed
  <1>7. CASE OpenFails(t) \/ CloseDone(t)
    <2>1. PICK x \in {[i EXCEPT !.open = FALSE, !.lifecycle = None],
                      [i EXCEPT !.open = FALSE, !.lifecycle = None, !.stop = TRUE,
                                !.epoch = NextEpoch(i)]} :
               insts' = [insts EXCEPT ![cur[t]] = x]
      BY <1>7 DEF OpenFails, CloseDone, SetInst
    <2>2. NextEpoch(i) \in Nat
      BY <1>3 DEF NextEpoch
    <2>3. x \in Instance /\ Kept(x, i)
      BY <1>2, <2>1, <2>2, Zenon DEF Instance, Kept
    <2>4. UNCHANGED <<readers, join>>
      BY <1>7 DEF OpenFails, CloseDone
    <2> QED BY <2>1, <2>3, <2>4, Zenon DEF Inv, Typed
  <1> QED BY <1>4, <1>5, <1>6, <1>7 DEF Lifecycle

\* the steps outside open_at_port and close_at_port that change an instance leave
\* these fields alone
Level(x, i) == x.open = i.open /\ x.reader = i.reader /\ x.stop = i.stop
               /\ x.lifecycle = i.lifecycle

\* pthread_mutex_destroy
LEMMA DismantleStep ==
    ASSUME Inv, Dismantle
    PROVE  /\ cur["ubus"] \in DOMAIN insts
           /\ \E x \in Instance : /\ insts' = [insts EXCEPT ![cur["ubus"]] = x]
                                  /\ Level(x, Inst("ubus")) /\ x.due = Inst("ubus").due
                                  /\ x.freed = Inst("ubus").freed
  <1>1. cur["ubus"] \in DOMAIN insts /\ Inst("ubus") \in Instance
    BY DEF Dismantle, Inv, Called, Listed, Typed, Inst
  <1> DEFINE x == [Inst("ubus") EXCEPT !.destroyed = TRUE]
  <1>2. /\ x \in Instance /\ Level(x, Inst("ubus")) /\ x.due = Inst("ubus").due
        /\ x.freed = Inst("ubus").freed
    BY <1>1, Zenon DEF Instance, Level
  <1>3. insts' = [insts EXCEPT ![cur["ubus"]] = x]
    BY DEF Dismantle, SetInst
  <1> HIDE DEF x
  <1> QED BY <1>1, <1>2, <1>3, Zenon

\* the list_del and free of destroy_port_instance
LEMMA UnlinkStep ==
    ASSUME Inv, Unlink
    PROVE  /\ cur["ubus"] \in DOMAIN insts
           /\ \E x \in Instance : /\ insts' = [insts EXCEPT ![cur["ubus"]] = x]
                                  /\ Level(x, Inst("ubus"))
  <1>1. cur["ubus"] \in DOMAIN insts /\ Inst("ubus") \in Instance
    BY DEF Unlink, Inv, Called, Listed, Typed, Inst
  <1> DEFINE x == [Inst("ubus") EXCEPT !.freed = TRUE]
  <1>2. x \in Instance /\ Level(x, Inst("ubus"))
    BY <1>1, Zenon DEF Instance, Level
  <1>3. insts' = [insts EXCEPT ![cur["ubus"]] = x]
    BY DEF Unlink, SetInst
  <1> HIDE DEF x
  <1> QED BY <1>1, <1>2, <1>3, Zenon

\* last_check_time of check_and_reconnect_port
LEMMA DueStep ==
    ASSUME Inv, NEW i \in ports, NEW b \in BOOLEAN,
           insts' = [insts EXCEPT ![i] = [@ EXCEPT !.due = b]]
    PROVE  /\ i \in DOMAIN insts
           /\ \E x \in Instance : /\ insts' = [insts EXCEPT ![i] = x] /\ Level(x, insts[i])
                                  /\ x.destroyed = insts[i].destroyed /\ x.freed = insts[i].freed
                                  /\ x.due = b
  <1>1. i \in DOMAIN insts /\ insts[i] \in Instance
    BY DEF Inv, Listed, Typed
  <1> DEFINE x == [insts[i] EXCEPT !.due = b]
  <1>2. /\ x \in Instance /\ Level(x, insts[i]) /\ x.due = b
        /\ x.destroyed = insts[i].destroyed /\ x.freed = insts[i].freed
    BY <1>1 DEF Instance, Level
  <1>3. insts' = [insts EXCEPT ![i] = x]
    OBVIOUS
  <1> HIDE DEF x
  <1> QED BY <1>1, <1>2, <1>3, Zenon

\* mark_port_closed by a reader whose read() failed touches its own port only
LEMMA FailStep ==
    ASSUME Inv, NEW r \in DOMAIN readers, ReaderFails(r)
    PROVE  /\ readers[r].inst \in DOMAIN insts
           /\ \E x \in Instance :
                 /\ insts' = [insts EXCEPT ![readers[r].inst] = x]
                 /\ x.reader = insts[readers[r].inst].reader
                 /\ x.lifecycle = insts[readers[r].inst].lifecycle
                 /\ Kept(x, insts[readers[r].inst])
                 /\ \/ insts[readers[r].inst].reader = r /\ x.open = FALSE
                    \/ insts[readers[r].inst].reader # r /\ x = insts[readers[r].inst]
  <1> DEFINE i == readers[r].inst
  <1>1. i \in DOMAIN insts /\ insts[i] \in Instance
    BY DEF ReaderFails, Inv, Read, Typed
  <1>2. CASE insts[i].reader = r
    <2> DEFINE x == [insts[i] EXCEPT !.open = FALSE, !.stop = TRUE]
    <2>1. /\ x \in Instance /\ x.reader = insts[i].reader /\ x.lifecycle = insts[i].lifecycle
          /\ Kept(x, insts[i]) /\ x.open = FALSE
      BY <1>1, Zenon DEF Instance, Kept
    <2>2. insts' = [insts EXCEPT ![i] = x]
      BY <1>2 DEF ReaderFails, MarkedClosed
    <2> HIDE DEF x
    <2> QED BY <1>1, <1>2, <2>1, <2>2, Zenon
  <1>3. CASE insts[i].reader # r
    <2>1. insts' = [insts EXCEPT ![i] = insts[i]]
      BY <1>1, <1>3 DEF ReaderFails, Inv, Typed
    <2> QED BY <1>1, <1>3, <2>1, Zenon DEF Kept
  <1> QED BY <1>2, <1>3, Zenon

\* where the threads are, whichever of them moves
Shape == Typed /\ Listed /\ Called /\ New

\* a reader that ends
LEMMA Ended ==
    ASSUME Inv, NEW r \in DOMAIN readers, ReaderStops(r) \/ ReaderFails(r)
    PROVE  /\ readers' \in Seq(ReaderThread) /\ DOMAIN readers' = DOMAIN readers
           /\ readers'[r].alive = FALSE /\ readers'[r].inst = readers[r].inst
           /\ \A q \in DOMAIN readers \ {r} : readers'[q] = readers[q]
  <1> DEFINE y == [readers[r] EXCEPT !.alive = FALSE]
  <1>1. readers \in Seq(ReaderThread) /\ readers[r] \in ReaderThread
    BY DEF Inv, Typed
  <1>2. y \in ReaderThread /\ y.alive = FALSE /\ y.inst = readers[r].inst
    BY <1>1, Zenon DEF ReaderThread
  <1>3. readers' = [readers EXCEPT ![r] = y]
    BY DEF ReaderStops, ReaderFails
  <1> HIDE DEF y
  <1>4. /\ readers' \in Seq(ReaderThread) /\ DOMAIN readers' = DOMAIN readers
        /\ readers'[r] = y /\ \A q \in DOMAIN readers \ {r} : readers'[q] = readers[q]
    BY <1>1, <1>2, <1>3, Put
  <1> QED BY <1>2, <1>4

\* ... open_at_port and close_at_port, by either thread
LEMMA LifecycleShape ==
    ASSUME Inv, New, NEW t \in Threads, Lifecycle(t)
    PROVE  Shape'
  <1>1. /\ pc[t] \in Busy
        /\ UNCHANGED <<ports, ports_mutex, cur, after, op, is_new, todo, closed>>
        /\ \/ pc' = [pc EXCEPT ![t] = after[t]]
           \/ pc[t] = "open" /\ pc' = [pc EXCEPT ![t] = "reopen"]
           \/ pc[t] = "close" /\ pc' = [pc EXCEPT ![t] = "closing"]
        /\ readers' \in Seq(ReaderThread) /\ join' \in [Threads -> Nat]
    BY LifecycleStep
  <1>2. PICK x \in Instance : insts' = [insts EXCEPT ![cur[t]] = x] /\ Kept(x, Inst(t))
    BY LifecycleStep
  <1>3. /\ cur[t] \in ports /\ cur[t] \in DOMAIN insts /\ Inst(t) \in Instance
        /\ after[t] \in {"check", "opened", "destroy", "dismantle"}
    BY <1>1, Working
  <1>4. /\ insts' \in Seq(Instance) /\ Len(insts') = Len(insts) /\ DOMAIN insts' = DOMAIN insts
        /\ \A i \in DOMAIN insts : Kept(insts'[i], insts[i])
    <2>1. /\ insts' \in Seq(Instance) /\ Len(insts') = Len(insts) /\ DOMAIN insts' = DOMAIN insts
          /\ insts'[cur[t]] = x /\ \A i \in DOMAIN insts \ {cur[t]} : insts'[i] = insts[i]
      BY <1>2, <1>3, Put DEF Inv, Typed
    <2> QED BY <1>2, <2>1 DEF Kept, Inst
  <1>5. pc \in [Threads -> Label] /\ after[t] \in Label
    BY DEF Inv, Typed
  <1>6. "reopen" \in Label /\ "closing" \in Label
    BY DEF Label, Busy
  <1>7. /\ pc' \in [Threads -> Label] /\ \A u \in Threads \ {t} : pc'[u] = pc[u]
        /\ \/ pc'[t] = after[t]
           \/ pc[t] = "open" /\ pc'[t] = "reopen"
           \/ pc[t] = "close" /\ pc'[t] = "closing"
    BY <1>1, <1>5, <1>6
  <1>t. Typed'
    BY <1>1, <1>4, <1>7 DEF Inv, Typed
  <1>8. CASE t = "monitor"
    <2>1. pc'["monitor"] \in {"reopen", "closing", "check"} /\ pc'["ubus"] = pc["ubus"]
      BY <1>1, <1>7, <1>8 DEF Threads, Inv, Listed
    <2>2. Listed'
      BY <1>1, <1>4, <1>8, <2>1, Zenon DEF Inv, Listed, Busy, Kept
    <2>3. Called'
      BY <1>1, <1>4, <2>1 DEF Inv, Called, Listed, Kept
    <2>4. ~Creating
      BY <1>1, <1>8 DEF New
    <2> QED BY <1>1, <1>t, <2>1, <2>2, <2>3, <2>4 DEF Shape, New, Creating
  <1>9. CASE t = "ubus"
    <2>1. pc'["monitor"] = pc["monitor"]
      BY <1>7, <1>9 DEF Threads
    <2>2. Listed'
      BY <1>1, <1>4, <2>1, Zenon DEF Inv, Listed, Kept
    <2>3. Called'
      BY <1>1, <1>3, <1>4, <1>7, <1>9, Zenon DEF Inv, Called, Listed, Kept, Busy
    <2>4. New'
      BY <1>1, <1>3, <1>4, <1>9, <2>1 DEF New, Creating, Kept, Inst, Busy
    <2> QED BY <1>t, <2>2, <2>3, <2>4 DEF Shape
  <1> QED BY <1>8, <1>9 DEF Threads

\* ... a method begins
LEMMA CallShape == ASSUME Inv, New, CallFound \/ CallNew PROVE Shape'
  <1>1. CASE CallFound
    <2>1. /\ UNCHANGED <<ports, ports_mutex, insts, readers, join, todo>>
          /\ pc["ubus"] = "idle" /\ ports_mutex = None /\ is_new' = FALSE /\ op' \in Ops
      BY <1>1 DEF CallFound
    <2>2. PICK i \in ports, o \in Ops :
             IF o = "close" THEN Enter("close", "destroy", i)
             ELSE IF o = "send" /\ insts[i].open THEN UNCHANGED <<pc, after, cur>>
             ELSE Enter("open", "opened", i)
      BY <1>1, Zenon DEF CallFound
    <2>3. Typed'
      BY <2>1, <2>2 DEF Enter, Inv, Typed, Listed, Threads, Label, Busy
    <2>4. pc'["monitor"] = pc["monitor"] /\ cur'["monitor"] = cur["monitor"] 
          /\ after'["monitor"] = after["monitor"]
      BY <2>2 DEF Enter, Inv, Typed, Threads
    <2>5. Listed'
      BY <2>1, <2>4 DEF Inv, Listed
    <2>6. \/ pc'["ubus"] = "idle"
          \/ /\ pc'["ubus"] = "close" /\ after'["ubus"] = "destroy" /\ cur'["ubus"] \in ports
          \/ /\ pc'["ubus"] = "open" /\ after'["ubus"] = "opened" /\ cur'["ubus"] \in ports
      BY <2>1, <2>2 DEF Enter, Inv, Typed, Threads
    <2>7. Called'
      BY <2>1, <2>6, OpsAssumption DEF Inv, Called
    <2> QED BY <2>1, <2>3, <2>5, <2>7 DEF Shape, New, Creating
  <1>2. CASE CallNew
    <2> DEFINE n == Len(insts) + 1
    <2>1. /\ UNCHANGED <<ports_mutex, readers, join, todo>> /\ insts' = Append(insts, NewInstance)
          /\ ports' = {n} /\ ports_mutex = None /\ op' \in Ops
          /\ pc' = [pc EXCEPT !["ubus"] = "open"] /\ after' = [after EXCEPT !["ubus"] = "opened"]
          /\ cur' = [cur EXCEPT !["ubus"] = n]
      BY <1>2 DEF CallNew, Enter
    <2>2. /\ NewInstance \in Instance /\ ~NewInstance.freed /\ ~NewInstance.due
          /\ ~NewInstance.destroyed
      BY DEF NewInstance, Instance
    <2>3. /\ insts' \in Seq(Instance) /\ Len(insts') = n /\ DOMAIN insts' = DOMAIN insts \cup {n}
          /\ insts'[n] = NewInstance /\ n \in Nat
      BY <2>1, <2>2, Added DEF Inv, Typed
    <2> HIDE DEF n
    <2>4. Typed'
      BY <2>1, <2>3 DEF Inv, Typed, Threads, Label, Busy
    <2>5. /\ pc'["ubus"] = "open" /\ after'["ubus"] = "opened" /\ cur'["ubus"] = n
          /\ pc'["monitor"] = pc["monitor"] /\ pc["monitor"] = "idle"
      BY <2>1 DEF Inv, Typed, Threads, Listed, None
    <2>6. Listed'
      BY <2>1, <2>2, <2>3, <2>5 DEF Inv, Listed, Busy
    <2>7. Called'
      BY <2>1, <2>2, <2>3, <2>5, OpsAssumption DEF Inv, Called
    <2> QED BY <2>1, <2>2, <2>3, <2>4, <2>5, <2>6, <2>7 DEF Shape, New, Inst, Busy
  <1> QED BY <1>1, <1>2

\* ... the steps of the ubus thread that only move on
LEMMA UbusShape ==
    ASSUME Inv, New, Opened \/ Destroy \/ EndLoop \/ LockPorts \/ Cleanup
    PROVE  Shape'
  <1>a. UNCHANGED <<ports, insts, readers, join, todo, is_new>>
    BY DEF Opened, Destroy, EndLoop, LockPorts, Cleanup
  <1>2. \E l, a \in Label, c \in Nat : /\ pc' = [pc EXCEPT !["ubus"] = l]
                                       /\ after' = [after EXCEPT !["ubus"] = a]
                                       /\ cur' = [cur EXCEPT !["ubus"] = c]
    <2>1. /\ after["ubus"] \in Label /\ cur["ubus"] \in Nat
          /\ after = [after EXCEPT !["ubus"] = after["ubus"]]
          /\ cur = [cur EXCEPT !["ubus"] = cur["ubus"]]
      BY DEF Inv, Typed, Threads
    <2>2. CASE Opened
      BY <2>1, <2>2, Zenon DEF Opened, Goto, Label
    <2>3. CASE Destroy
      BY <2>1, <2>3, Zenon DEF Destroy, Enter, Label, Busy
    <2>4. CASE EndLoop \/ LockPorts
      BY <2>1, <2>4 DEF EndLoop, LockPorts, Goto, Label
    <2>5. CASE Cleanup
      <3>1. \A i \in ports : i \in Nat
        BY DEF Inv, Listed, Typed
      <3> QED BY <2>1, <2>5, <3>1 DEF Cleanup, Enter, Goto, Label
    <2> QED BY <2>2, <2>3, <2>4, <2>5
  <1>3. PICK l, a \in Label, c \in Nat : /\ pc' = [pc EXCEPT !["ubus"] = l]
                                         /\ after' = [after EXCEPT !["ubus"] = a]
                                         /\ cur' = [cur EXCEPT !["ubus"] = c]
    BY <1>2, Zenon
  <1>4. /\ Typed' /\ pc'["ubus"] = l /\ after'["ubus"] = a /\ cur'["ubus"] = c
        /\ pc'["monitor"] = pc["monitor"] /\ after'["monitor"] = after["monitor"]
        /\ cur'["monitor"] = cur["monitor"]
    BY <1>a, <1>3 DEF Inv, Typed, Threads
  <1>5. Listed'
    <2>1. ports_mutex' = ports_mutex \/ {ports_mutex, ports_mutex'} = {"ubus", None}
      BY DEF Opened, Destroy, EndLoop, LockPorts, Cleanup, Inv, Called
    <2> QED BY <1>a, <1>4, <2>1 DEF Inv, Listed, Threads, None
  <1>6. CASE Opened \/ Destroy
    <2>1. /\ UNCHANGED <<op, ports_mutex>> /\ cur'["ubus"] = cur["ubus"]
          /\ \/ pc["ubus"] = "opened" /\ l \in {"destroy", "idle"}
             \/ pc["ubus"] = "destroy" /\ l = "close" /\ a = "dismantle"
      BY <1>4, <1>6 DEF Opened, Destroy, Goto, Enter, Inv, Typed, Threads
    <2>2. Called'
      BY <1>a, <1>4, <2>1 DEF Inv, Called
    <2>3. New'
      BY <1>a, <1>4, <2>1 DEF New, Creating, Inst
    <2> QED BY <1>4, <1>5, <2>2, <2>3 DEF Shape
  <1>7. CASE EndLoop \/ LockPorts \/ Cleanup
    <2>1. /\ op' = "shutdown"
          /\ \/ l \in {"stopping", "exit"}
             \/ l = "cleanup" /\ ports_mutex' = "ubus"
             \/ l = "destroy" /\ c \in ports /\ ports_mutex' = "ubus"
      BY <1>4, <1>7, Zenon DEF EndLoop, LockPorts, Cleanup, Goto, Enter, Inv, Called, Typed, Threads
    <2>2. \A i \in ports : ~insts[i].destroyed
      BY <1>7, Zenon DEF EndLoop, LockPorts, Cleanup, Inv, Called
    <2>3. Called'
      BY <1>a, <1>4, <2>1, <2>2 DEF Called
    <2>4. New'
      BY <2>1 DEF New, Creating
    <2> QED BY <1>4, <1>5, <2>3, <2>4 DEF Shape
  <1> QED BY <1>6, <1>7

\* ... the end of destroy_port_instance
LEMMA DestroyShape ==
    ASSUME Inv, New, Dismantle \/ Unlink
    PROVE  Shape'
  <1> DEFINE c == cur["ubus"]
  <1>1. /\ UNCHANGED <<ports_mutex, readers, cur, join, after, op, is_new, todo>>
        /\ c \in ports /\ ports = {c} /\ ports = {Len(insts)}
    BY DEF Dismantle, Unlink, Inv, Called, Listed
  <1>2. PICK x \in Instance :
             /\ c \in DOMAIN insts /\ insts' = [insts EXCEPT ![c] = x]
             /\ Dismantle => x.due = Inst("ubus").due /\ x.freed = Inst("ubus").freed
    BY DismantleStep, UnlinkStep
  <1>3. /\ insts' \in Seq(Instance) /\ Len(insts') = Len(insts) /\ DOMAIN insts' = DOMAIN insts
        /\ insts'[c] = x
    BY <1>2, Put DEF Inv, Typed
  <1>4. \E l \in {"unlink", "idle", "cleanup"} : pc' = [pc EXCEPT !["ubus"] = l]
    BY DEF Dismantle, Unlink, Goto
  <1>5. Typed' /\ pc'["monitor"] = pc["monitor"]
    BY <1>1, <1>3, <1>4 DEF Inv, Typed, Threads, Label
  <1>6. CASE Dismantle
    <2>1. pc'["ubus"] = "unlink" /\ UNCHANGED ports /\ pc["ubus"] = "dismantle"
      BY <1>6 DEF Dismantle, Goto, Inv, Typed, Threads
    <2>2. Listed'
      BY <1>1, <1>2, <1>3, <1>5, <1>6, <2>1 DEF Inv, Listed, Inst
    <2>3. Called'
      BY <1>1, <2>1 DEF Inv, Called
    <2>4. New'
      BY <1>1, <1>2, <1>3, <1>5, <1>6, <2>1 DEF New, Creating, Inst
    <2> QED BY <1>5, <2>2, <2>3, <2>4 DEF Shape
  <1>7. CASE Unlink
    <2>1. /\ pc["ubus"] = "unlink" /\ ports_mutex = None /\ ports' = {} /\ op # "shutdown"
          /\ pc'["ubus"] = "idle"
      BY <1>1, <1>7 DEF Unlink, Goto, Inv, Called, Typed, Threads, None
    <2>2. Listed'
      BY <1>1, <1>5, <2>1 DEF Inv, Listed, Busy, None
    <2>3. Called'
      BY <1>1, <2>1 DEF Called
    <2>4. New'
      BY <2>1 DEF New, Creating
    <2> QED BY <1>5, <2>2, <2>3, <2>4 DEF Shape
  <1> QED BY <1>6, <1>7

\* ... the rounds of the monitor
LEMMA MonitorShape ==
    ASSUME Inv, New, MonitorLock \/ CheckAndReconnect \/ MonitorUnlock \/ IntervalPasses
    PROVE  Shape'
  <1>1. UNCHANGED <<ports, readers, join, op, is_new>>
    BY DEF MonitorLock, CheckAndReconnect, MonitorUnlock, IntervalPasses, thread
  <1>2. CASE MonitorLock \/ MonitorUnlock
    <2>1. /\ UNCHANGED <<insts, cur, after>>
          /\ pc' = [pc EXCEPT !["monitor"] = "check"] \/ pc' = [pc EXCEPT !["monitor"] = "idle"]
          /\ \/ /\ ports_mutex = None /\ ports_mutex' = "monitor" /\ todo' = ports
                /\ pc'["monitor"] = "check" /\ op # "shutdown"
             \/ /\ pc["monitor"] = "check" /\ ports_mutex' = None /\ todo' = {}
                /\ pc'["monitor"] = "idle"
      BY <1>2 DEF MonitorLock, MonitorUnlock, Goto, Inv, Typed, Threads
    <2>2. Typed' /\ pc'["ubus"] = pc["ubus"]
      BY <1>1, <2>1 DEF Inv, Typed, Threads, Label
    <2>3. Listed'
      BY <1>1, <2>1, Zenon DEF Inv, Listed, Busy, Threads, None
    <2>4. Called'
      BY <1>1, <2>1, <2>2 DEF Inv, Called, Listed
    <2>5. New'
      BY <1>1, <2>1, <2>2, Zenon DEF New, Creating, Inst, Busy
    <2> QED BY <2>2, <2>3, <2>4, <2>5 DEF Shape
  <1>3. CASE IntervalPasses
    <2>1. /\ UNCHANGED <<ports_mutex, pc, cur, after, todo>>
      BY <1>3 DEF IntervalPasses, thread
    <2>2. PICK i \in ports : /\ ~(is_new /\ pc["ubus"] # "idle" /\ cur["ubus"] = i)
                             /\ insts' = [insts EXCEPT ![i] = [@ EXCEPT !.due = TRUE]]
      BY <1>3, Zenon DEF IntervalPasses
    <2>3. PICK x \in Instance : /\ i \in DOMAIN insts /\ insts' = [insts EXCEPT ![i] = x]
                                /\ x.destroyed = insts[i].destroyed /\ x.freed = insts[i].freed
      BY <2>2, DueStep, Zenon
    <2>4. /\ insts' \in Seq(Instance) /\ Len(insts') = Len(insts) /\ DOMAIN insts' = DOMAIN insts
          /\ insts'[i] = x /\ \A j \in DOMAIN insts \ {i} : insts'[j] = insts[j]
      BY <2>3, Put DEF Inv, Typed
    <2>5. Typed'
      BY <1>1, <2>1, <2>4 DEF Inv, Typed
    <2>6. Listed'
      BY <1>1, <2>1, <2>3, <2>4 DEF Inv, Listed
    <2>7. Called'
      BY <1>1, <2>1, <2>3, <2>4 DEF Inv, Called, Listed
    <2>8. New'
      BY <1>1, <2>1, <2>2, <2>4 DEF Inv, Listed, New, Creating, Inst
    <2> QED BY <2>5, <2>6, <2>7, <2>8 DEF Shape
  <1>4. CASE CheckAndReconnect
    <2>1. PICK i \in todo :
             /\ todo' = todo \ {i} /\ cur' = [cur EXCEPT !["monitor"] = i]
             /\ after' = [after EXCEPT !["monitor"] = "check"]
             /\ insts' = [insts EXCEPT ![i] = [@ EXCEPT !.due = FALSE]]
             /\ Goto("monitor", IF ~insts[i].due THEN "check"
                                ELSE IF ~insts[i].open /\ present THEN "open"
                                ELSE IF insts[i].open /\ ~present THEN "close" ELSE "check")
      BY <1>4, Zenon DEF CheckAndReconnect
    <2>2. PICK l \in {"check", "open", "close"} : /\ pc' = [pc EXCEPT !["monitor"] = l]
                                                  /\ ~insts[i].due => l = "check"
      BY <2>1, Zenon DEF Goto
    <2>3. i \in ports /\ UNCHANGED ports_mutex /\ pc["monitor"] = "check"
      BY <1>4, <2>1 DEF CheckAndReconnect, Inv, Listed
    <2>4. PICK x \in Instance : /\ i \in DOMAIN insts /\ insts' = [insts EXCEPT ![i] = x]
                                /\ x.destroyed = insts[i].destroyed /\ x.freed = insts[i].freed
                                /\ x.due = FALSE
      BY <2>1, <2>3, DueStep, Zenon
    <2>5. /\ insts' \in Seq(Instance) /\ Len(insts') = Len(insts) /\ DOMAIN insts' = DOMAIN insts
          /\ insts'[i] = x /\ \A j \in DOMAIN insts \ {i} : insts'[j] = insts[j]
      BY <2>4, Put DEF Inv, Typed
    <2>6. Typed'
      <3>1. i \in Nat
        BY <2>4 DEF Inv, Typed
      <3> QED BY <1>1, <2>1, <2>2, <2>5, <3>1, Zenon DEF Inv, Typed, Label, Busy
    <2>7. /\ pc'["monitor"] = l /\ after'["monitor"] = "check" /\ cur'["monitor"] = i
          /\ pc'["ubus"] = pc["ubus"] /\ after'["ubus"] = after["ubus"]
          /\ cur'["ubus"] = cur["ubus"]
      BY <2>1, <2>2 DEF Inv, Typed, Threads
    <2>8. Listed'
      BY <1>1, <2>1, <2>3, <2>4, <2>5, <2>7 DEF Inv, Listed, Busy
    <2>9. Called'
      BY <1>1, <2>3, <2>4, <2>5, <2>7, Zenon DEF Inv, Called, Listed
    <2>10. New'
      BY <1>1, <2>2, <2>3, <2>4, <2>5, <2>7 DEF Inv, Listed, New, Creating, Inst, Busy
    <2> QED BY <2>6, <2>8, <2>9, <2>10 DEF Shape
  <1> QED BY <1>2, <1>3, <1>4

\* ... readers and the device
LEMMA ReaderShape ==
    ASSUME Inv, New, Reader \/ Device \/ UNCHANGED vars
    PROVE  Shape'
  <1>1. UNCHANGED <<ports, ports_mutex, pc, cur, join, after, op, is_new, todo>>
    BY DEF Reader, Device, vars, ReaderStops, ReaderFails, Plug, thread
  <1>2. /\ insts' \in Seq(Instance) /\ Len(insts') = Len(insts) /\ DOMAIN insts' = DOMAIN insts
        /\ \A i \in DOMAIN insts : Kept(insts'[i], insts[i])
    <2>1. CASE insts' = insts
      BY <2>1 DEF Inv, Typed, Kept
    <2>2. ASSUME NEW r \in DOMAIN readers, ReaderFails(r)
          PROVE  /\ insts' \in Seq(Instance) /\ Len(insts') = Len(insts)
                 /\ DOMAIN insts' = DOMAIN insts
                 /\ \A i \in DOMAIN insts : Kept(insts'[i], insts[i])
      <3>1. PICK x \in Instance : /\ readers[r].inst \in DOMAIN insts
                                  /\ insts' = [insts EXCEPT ![readers[r].inst] = x]
                                  /\ Kept(x, insts[readers[r].inst])
        BY <2>2, FailStep, Zenon
      <3>2. /\ insts' \in Seq(Instance) /\ Len(insts') = Len(insts) /\ DOMAIN insts' = DOMAIN insts
            /\ insts'[readers[r].inst] = x
            /\ \A j \in DOMAIN insts \ {readers[r].inst} : insts'[j] = insts[j]
        BY <3>1, Put DEF Inv, Typed
      <3> QED BY <3>1, <3>2 DEF Kept
    <2> QED BY <2>1, <2>2 DEF Reader, Device, vars, ReaderStops, Plug
  <1>3. readers' \in Seq(ReaderThread)
    <2>1. CASE readers' = readers
      BY <2>1 DEF Inv, Typed
    <2> QED BY <2>1, Ended, Zenon DEF Reader, Device, vars, Plug
  <1>4. Typed'
    BY <1>1, <1>2, <1>3 DEF Inv, Typed
  <1>5. Listed'
    BY <1>1, <1>2, Zenon DEF Inv, Listed, Kept
  <1>6. Called'
    BY <1>1, <1>2, Zenon DEF Inv, Called, Listed, Kept
  <1>7. New'
    BY <1>1, <1>2, Zenon DEF Inv, Listed, New, Creating, Inst, Kept
  <1> QED BY <1>4, <1>5, <1>6, <1>7 DEF Shape

\* a step that leaves the mutexes, the readers and who works on what alone
LEMMA NeutralStep ==
    ASSUME Inv, UNCHANGED <<readers, join>>, DOMAIN insts \subseteq DOMAIN insts',
           \A i \in DOMAIN insts : Level(insts'[i], insts[i]),
           \A i \in DOMAIN insts' \ DOMAIN insts : insts'[i] = NewInstance,
           \A t \in Threads : /\ pc'[t] \in Lifecycled <=> pc[t] \in Lifecycled
                              /\ pc[t] \in Lifecycled => cur'[t] = cur[t]
    PROVE  Locked' /\ Read'
  <1>1. \A t \in Threads : pc[t] \in Lifecycled => cur[t] \in DOMAIN insts
    BY Working DEF Lifecycled, Busy
  <1>2. NewInstance.lifecycle = None /\ NewInstance.open = FALSE
    BY Zenon DEF NewInstance
  <1>3. Locked'
    <2>1. ASSUME NEW i \in DOMAIN insts, NEW t \in Threads
          PROVE  insts'[i].lifecycle = t <=> pc'[t] \in Lifecycled /\ cur'[t] = i
      BY DEF Inv, Locked, Level
    <2>2. ASSUME NEW i \in DOMAIN insts' \ DOMAIN insts, NEW t \in Threads
          PROVE  insts'[i].lifecycle = t <=> pc'[t] \in Lifecycled /\ cur'[t] = i
      BY <1>1, <1>2 DEF Threads, None
    <2> QED BY <2>1, <2>2, Zenon DEF Locked
  <1>4. \A t \in Threads : pc'[t] \in Lifecycled => Inst(t)'.reader = 0
    BY <1>1 DEF Inv, Read, Inst, Level
  <1>5. ASSUME NEW r \in DOMAIN readers, readers[r].alive
        PROVE  /\ readers[r].inst \in DOMAIN insts'
               /\ \/ insts'[readers[r].inst].reader = r
                  \/ \E t \in Threads :
                        pc'[t] \in Lifecycled /\ cur'[t] = readers[r].inst /\ join[t] = r
    <2>1. readers[r].inst \in DOMAIN insts
      BY <1>5, Zenon DEF Inv, Read
    <2>2. CASE insts[readers[r].inst].reader = r
      BY <2>1, <2>2 DEF Level
    <2>3. CASE \E t \in Threads : pc[t] \in Lifecycled /\ cur[t] = readers[r].inst /\ join[t] = r
      BY <2>1, <2>3, Zenon
    <2> QED BY <1>5, <2>2, <2>3, Zenon DEF Inv, Read
  <1>6. ASSUME NEW i \in DOMAIN insts', insts'[i].open, insts'[i].lifecycle = None
        PROVE  /\ insts'[i].reader \in DOMAIN readers /\ ~insts'[i].stop
               /\ readers[insts'[i].reader].alive /\ readers[insts'[i].reader].inst = i
    <2>1. i \in DOMAIN insts
      BY <1>2, <1>6
    <2> QED BY <1>6, <2>1 DEF Inv, Read, Level
  <1> QED BY <1>3, <1>4, <1>5, <1>6, Zenon DEF Read

\* ... a method begins
LEMMA CallRead == ASSUME Inv, CallFound \/ CallNew PROVE Locked' /\ Read'
  <1>1. pc["ubus"] = "idle" /\ UNCHANGED <<readers, join>>
    BY Zenon DEF CallFound, CallNew
  <1>2. /\ pc' \in {pc} \cup {[pc EXCEPT !["ubus"] = l] : l \in {"open", "close"}}
        /\ cur' = cur \/ \E c : cur' = [cur EXCEPT !["ubus"] = c]
    <2>1. CASE CallFound
      <3>1. PICK i \in ports, o \in Ops :
               IF o = "close" THEN Enter("close", "destroy", i)
               ELSE IF o = "send" /\ insts[i].open THEN UNCHANGED <<pc, after, cur>>
               ELSE Enter("open", "opened", i)
        BY <2>1, Zenon DEF CallFound
      <3> QED BY <3>1 DEF Enter
    <2>2. CASE CallNew
      BY <2>2, Zenon DEF CallNew, Enter
    <2> QED BY <2>1, <2>2
  <1>3. \A t \in Threads : /\ pc'[t] \in Lifecycled <=> pc[t] \in Lifecycled
                           /\ pc[t] \in Lifecycled => cur'[t] = cur[t]
    BY <1>1, <1>2 DEF Threads, Lifecycled, Inv, Typed
  <1>4. CASE CallFound
    <2>1. insts' = insts
      BY <1>4 DEF CallFound
    <2> QED BY <1>1, <1>3, <2>1, NeutralStep DEF Level
  <1>5. CASE CallNew
    <2>1. insts' = Append(insts, NewInstance) /\ NewInstance \in Instance
      BY <1>5 DEF CallNew, NewInstance, Instance
    <2>2. /\ DOMAIN insts' = DOMAIN insts \cup {Len(insts) + 1}
          /\ insts'[Len(insts) + 1] = NewInstance /\ \A i \in DOMAIN insts : insts'[i] = insts[i]
      BY <2>1, Added DEF Inv, Typed
    <2> QED BY <1>1, <1>3, <2>2, NeutralStep, Zenon DEF Level
  <1> QED BY <1>4, <1>5

\* ... the ubus thread, outside open_at_port and close_at_port
LEMMA UbusRead ==
    ASSUME Inv, Opened \/ Destroy \/ EndLoop \/ LockPorts \/ Cleanup \/ Dismantle \/ Unlink
    PROVE  Locked' /\ Read'
  <1>1. pc["ubus"] \notin Lifecycled /\ UNCHANGED <<readers, join>>
    BY DEF Opened, Destroy, EndLoop, LockPorts, Cleanup, Dismantle, Unlink, Lifecycled
  <1>2. /\ \E l \in Label \ Lifecycled : pc' = [pc EXCEPT !["ubus"] = l]
        /\ cur' = cur \/ \E c : cur' = [cur EXCEPT !["ubus"] = c]
    BY DEF Opened, Destroy, EndLoop, LockPorts, Cleanup, Dismantle, Unlink, Goto, Enter, Label,
           Busy, Lifecycled
  <1>3. \A t \in Threads : /\ pc'[t] \in Lifecycled <=> pc[t] \in Lifecycled
                           /\ pc[t] \in Lifecycled => cur'[t] = cur[t]
    BY <1>1, <1>2 DEF Threads, Inv, Typed
  <1>4. CASE insts' = insts
    BY <1>1, <1>3, <1>4, NeutralStep, Zenon DEF Level
  <1>5. CASE Dismantle \/ Unlink
    <2>1. PICK x \in Instance : /\ cur["ubus"] \in DOMAIN insts
                                /\ insts' = [insts EXCEPT ![cur["ubus"]] = x]
                                /\ Level(x, Inst("ubus"))
      BY <1>5, DismantleStep, UnlinkStep
    <2>2. /\ DOMAIN insts' = DOMAIN insts /\ insts'[cur["ubus"]] = x
          /\ \A i \in DOMAIN insts \ {cur["ubus"]} : insts'[i] = insts[i]
      BY <2>1, Put DEF Inv, Typed
    <2>3. \A i \in DOMAIN insts : Level(insts'[i], insts[i])
      BY <2>1, <2>2 DEF Level, Inst
    <2> QED BY <1>1, <1>3, <2>2, <2>3, NeutralStep
  <1> QED BY <1>4, <1>5 DEF Opened, Destroy, EndLoop, LockPorts, Cleanup

\* ... the rounds of the monitor
LEMMA MonitorRead ==
    ASSUME Inv, MonitorLock \/ CheckAndReconnect \/ MonitorUnlock \/ IntervalPasses
    PROVE  Locked' /\ Read'
  <1>1. UNCHANGED <<readers, join>>
    BY DEF MonitorLock, CheckAndReconnect, MonitorUnlock, IntervalPasses, thread
  <1>2. \A t \in Threads : /\ pc'[t] \in Lifecycled <=> pc[t] \in Lifecycled
                           /\ pc[t] \in Lifecycled => cur'[t] = cur[t]
    <2>1. CASE IntervalPasses
      BY <2>1 DEF IntervalPasses, thread
    <2>2. CASE MonitorLock \/ CheckAndReconnect \/ MonitorUnlock
      <3>1. /\ pc["monitor"] \in {"idle", "check"}
            /\ \E l \in {"idle", "check", "open", "close"} : pc' = [pc EXCEPT !["monitor"] = l]
            /\ cur' = cur \/ \E c : cur' = [cur EXCEPT !["monitor"] = c]
        BY <2>2 DEF MonitorLock, CheckAndReconnect, MonitorUnlock, Goto
      <3> QED BY <3>1 DEF Threads, Lifecycled, Inv, Typed
    <2> QED BY <2>1, <2>2
  <1>3. CASE insts' = insts
    BY <1>1, <1>2, <1>3, NeutralStep, Zenon DEF Level
  <1>4. CASE CheckAndReconnect \/ IntervalPasses
    <2>1. PICK i \in ports, b \in BOOLEAN : insts' = [insts EXCEPT ![i] = [@ EXCEPT !.due = b]]
      BY <1>4, Zenon DEF CheckAndReconnect, IntervalPasses, Inv, Listed
    <2>2. PICK x \in Instance : /\ i \in DOMAIN insts /\ insts' = [insts EXCEPT ![i] = x]
                                /\ Level(x, insts[i])
      BY <2>1, DueStep, Zenon
    <2>3. /\ DOMAIN insts' = DOMAIN insts /\ insts'[i] = x
          /\ \A j \in DOMAIN insts \ {i} : insts'[j] = insts[j]
      BY <2>2, Put DEF Inv, Typed
    <2>4. \A j \in DOMAIN insts : Level(insts'[j], insts[j])
      BY <2>2, <2>3 DEF Level
    <2> QED BY <1>1, <1>2, <2>3, <2>4, NeutralStep, Zenon
  <1> QED BY <1>3, <1>4 DEF MonitorLock, MonitorUnlock

\* stop_reader: the reader, if any, passes to the thread that will join it
LEMMA StopRead ==
    ASSUME Inv, NEW t \in Threads, OpenStop(t) \/ CloseStop(t)
    PROVE  Locked' /\ Read'
  <1> DEFINE c == cur[t]
             x == Stopped(t, Inst(t))
  <1>1. /\ pc[t] \in {"open", "close"} /\ LifecycleFree(t)
        /\ UNCHANGED <<readers, cur>> /\ insts' = [insts EXCEPT ![c] = x]
        /\ join' = [join EXCEPT ![t] = Inst(t).reader]
        /\ pc' \in {[pc EXCEPT ![t] = l] : l \in Lifecycled}
    BY DEF OpenStop, CloseStop, SetInst, Goto, Lifecycled
  <1>2. c \in DOMAIN insts /\ Inst(t) \in Instance /\ insts[c] = Inst(t)
    BY <1>1, Working, Zenon DEF Busy, Inst
  <1>3. insts[c].lifecycle = None
    BY <1>1, <1>2, Alone
  <1>4. /\ x \in Instance /\ x.lifecycle = t /\ x.reader = 0
    BY <1>2, Zenon DEF Stopped, Instance
  <1> HIDE DEF x
  <1>5. /\ DOMAIN insts' = DOMAIN insts /\ insts'[c] = x
        /\ \A i \in DOMAIN insts \ {c} : insts'[i] = insts[i]
    BY <1>1, <1>2, <1>4, Put DEF Inv, Typed
  <1>6. /\ pc'[t] \in Lifecycled /\ join'[t] = insts[c].reader /\ pc[t] \notin Lifecycled
        /\ \A u \in Threads \ {t} : pc'[u] = pc[u] /\ join'[u] = join[u]
    BY <1>1, <1>2, Zenon DEF Inv, Typed, Lifecycled
  <1>7. \A u \in Threads : ~(pc[u] \in Lifecycled /\ cur[u] = c)
    BY <1>2, <1>3, Zenon DEF Inv, Locked, Threads, None
  <1> HIDE DEF c
  <1>8. Locked'
    <2> SUFFICES ASSUME NEW i \in DOMAIN insts, NEW u \in Threads
                 PROVE  insts'[i].lifecycle = u <=> pc'[u] \in Lifecycled /\ cur[u] = i
      BY <1>1, <1>5, Zenon DEF Locked
    <2>1. insts[i].lifecycle = u <=> pc[u] \in Lifecycled /\ cur[u] = i
      BY Zenon DEF Inv, Locked
    <2>2. cur[t] = c
      BY DEF c
    <2>3. CASE i = c
      BY <1>4, <1>5, <1>6, <1>7, <2>2, <2>3, Zenon
    <2>4. CASE i # c
      BY <1>5, <1>6, <2>1, <2>2, <2>4
    <2> QED BY <2>3, <2>4
  <1>9. \A u \in Threads : pc'[u] \in Lifecycled => Inst(u)'.reader = 0
    <2>1. ASSUME NEW u \in Threads \ {t}, pc[u] \in Lifecycled PROVE insts'[cur[u]].reader = 0
      <3>1. cur[u] \in DOMAIN insts /\ cur[u] # c
        BY <1>7, <2>1, Working, Zenon DEF Lifecycled, Busy
      <3> QED BY <1>5, <2>1, <3>1 DEF Inv, Read, Inst
    <2> QED BY <1>1, <1>4, <1>5, <1>6, <2>1 DEF Inst, c
  <1>10. ASSUME NEW r \in DOMAIN readers, readers[r].alive
         PROVE  /\ readers[r].inst \in DOMAIN insts
                /\ \/ insts'[readers[r].inst].reader = r
                   \/ \E u \in Threads :
                         pc'[u] \in Lifecycled /\ cur[u] = readers[r].inst /\ join'[u] = r
    <2>1. /\ readers[r].inst \in DOMAIN insts
          /\ \/ insts[readers[r].inst].reader = r
             \/ \E u \in Threads : pc[u] \in Lifecycled /\ cur[u] = readers[r].inst /\ join[u] = r
      BY <1>10, Zenon DEF Inv, Read
    <2>2. CASE readers[r].inst = c
      <3>1. insts[c].reader = r
        BY <1>7, <2>1, <2>2
      <3> QED BY <1>6, <2>1, <2>2, <3>1, Zenon DEF c
    <2>3. CASE readers[r].inst # c /\ insts[readers[r].inst].reader = r
      BY <1>5, <2>1, <2>3
    <2>4. ASSUME NEW u \in Threads, pc[u] \in Lifecycled, cur[u] = readers[r].inst, join[u] = r
          PROVE  pc'[u] \in Lifecycled /\ cur[u] = readers[r].inst /\ join'[u] = r
      BY <1>6, <2>4, Zenon
    <2> QED BY <2>1, <2>2, <2>3, <2>4, Zenon
  <1>11. ASSUME NEW i \in DOMAIN insts, insts'[i].open, insts'[i].lifecycle = None
         PROVE  /\ insts'[i].reader \in DOMAIN readers /\ ~insts'[i].stop
                /\ readers[insts'[i].reader].alive /\ readers[insts'[i].reader].inst = i
    <2>1. i # c
      BY <1>4, <1>5, <1>11 DEF Threads, None
    <2> QED BY <1>5, <1>11, <2>1 DEF Inv, Read
  <1> QED BY <1>1, <1>5, <1>8, <1>9, <1>10, <1>11 DEF Read

\* after pthread_join nobody reads the port
LEMMA JoinedAll ==
    ASSUME Inv, NEW t \in Threads, pc[t] \in Lifecycled, Joined(t)
    PROVE  \A r \in DOMAIN readers : readers[r].alive => readers[r].inst # cur[t]
  <1> SUFFICES ASSUME NEW r \in DOMAIN readers, readers[r].alive, readers[r].inst = cur[t]
               PROVE  FALSE
    OBVIOUS
  <1>1. cur[t] \in DOMAIN insts
    BY Working, Zenon DEF Lifecycled, Busy
  <1>2. r # 0
    BY DEF Inv, Typed
  <1>3. PICK u \in Threads : pc[u] \in Lifecycled /\ cur[u] = cur[t] /\ join[u] = r
    <2>1. insts[cur[t]].reader = 0
      BY Zenon DEF Inv, Read, Inst
    <2> QED BY <1>2, <2>1 DEF Inv, Read
  <1>4. u = t
    BY <1>1, <1>3 DEF Inv, Locked
  <1> QED BY <1>2, <1>3, <1>4 DEF Joined

\* the end of open_at_port and close_at_port, with a new reader or none
LEMMA ReleaseRead ==
    ASSUME Inv, NEW t \in Threads, OpenSucceeds(t) \/ OpenFails(t) \/ CloseDone(t)
    PROVE  Locked' /\ Read'
  <1> DEFINE c == cur[t]
  <1>1. /\ pc[t] \in Lifecycled /\ Joined(t) /\ UNCHANGED <<cur, join>>
        /\ pc' = [pc EXCEPT ![t] = after[t]]
    BY DEF OpenSucceeds, OpenFails, CloseDone, OpenJoined, Goto, Lifecycled
  <1>2. /\ c \in DOMAIN insts /\ Inst(t) \in Instance /\ insts[c] = Inst(t)
        /\ after[t] \notin Lifecycled
    BY <1>1, Working, Zenon DEF Busy, Lifecycled, Inst
  <1>3. insts[c].lifecycle = t /\ insts[c].reader = 0
    BY <1>1, <1>2 DEF Inv, Locked, Read
  <1>4. PICK x \in Instance :
             /\ insts' = [insts EXCEPT ![c] = x] /\ x.lifecycle = None
             /\ \/ /\ x.open = FALSE /\ x.reader = 0 /\ readers' = readers
                \/ /\ x.stop = FALSE /\ x.reader = Len(readers) + 1
                   /\ \E e \in Nat :
                         readers' = Append(readers, [inst |-> c, alive |-> TRUE, epoch |-> e])
    <2>1. NextEpoch(Inst(t)) \in Nat /\ Len(readers) + 1 \in Nat
      BY <1>2 DEF NextEpoch, Instance, Inv, Typed
    <2>2. CASE OpenSucceeds(t)
      <3> DEFINE x == [Inst(t) EXCEPT !.open = TRUE, !.stop = FALSE, !.epoch = NextEpoch(Inst(t)),
                                      !.reader = Len(readers) + 1, !.lifecycle = None]
      <3>1. /\ x \in Instance /\ x.lifecycle = None /\ x.stop = FALSE /\ x.reader = Len(readers) + 1
        BY <1>2, <2>1, Zenon DEF Instance
      <3>2. insts' = [insts EXCEPT ![c] = x]
        BY <2>2 DEF OpenSucceeds, SetInst
      <3>3. readers' = Append(readers, [inst |-> c, alive |-> TRUE, epoch |-> NextEpoch(Inst(t))])
        BY <2>2 DEF OpenSucceeds
      <3> HIDE DEF x, c
      <3> QED BY <2>1, <3>1, <3>2, <3>3, Zenon
    <2>3. CASE OpenFails(t) \/ CloseDone(t)
      <3>1. PICK x \in {[Inst(t) EXCEPT !.open = FALSE, !.lifecycle = None],
                        [Inst(t) EXCEPT !.open = FALSE, !.lifecycle = None, !.stop = TRUE,
                                        !.epoch = NextEpoch(Inst(t))]} :
                 insts' = [insts EXCEPT ![c] = x]
        BY <2>3 DEF OpenFails, CloseDone, SetInst
      <3>2. x \in Instance /\ x.lifecycle = None /\ x.open = FALSE /\ x.reader = 0
        BY <1>2, <1>3, <2>1, <3>1, ZenonT(30) DEF Instance
      <3>3. readers' = readers
        BY <2>3 DEF OpenFails, CloseDone
      <3> QED BY <3>1, <3>2, <3>3, Zenon
    <2> QED BY <2>2, <2>3, Zenon
  <1>5. /\ DOMAIN insts' = DOMAIN insts /\ insts'[c] = x
        /\ \A i \in DOMAIN insts \ {c} : insts'[i] = insts[i]
    BY <1>2, <1>4, Put DEF Inv, Typed
  <1>6. pc'[t] \notin Lifecycled /\ \A u \in Threads \ {t} : pc'[u] = pc[u]
    BY <1>1, <1>2 DEF Inv, Typed
  <1>7. \A u \in Threads \ {t} : ~(pc[u] \in Lifecycled /\ cur[u] = c)
    BY <1>2, <1>3 DEF Inv, Locked
  <1>8. \A r \in DOMAIN readers : readers[r].alive => readers[r].inst # c
    BY <1>1, JoinedAll, Zenon
  <1>9. cur[t] = c
    OBVIOUS
  <1> HIDE DEF c
  <1>10. Locked'
    <2> SUFFICES ASSUME NEW i \in DOMAIN insts, NEW u \in Threads
                 PROVE  insts'[i].lifecycle = u <=> pc'[u] \in Lifecycled /\ cur[u] = i
      BY <1>1, <1>5, Zenon DEF Locked
    <2>1. insts[i].lifecycle = u <=> pc[u] \in Lifecycled /\ cur[u] = i
      BY Zenon DEF Inv, Locked
    <2>2. CASE i = c
      BY <1>4, <1>5, <1>6, <1>7, <2>2 DEF Threads, None
    <2>3. CASE i # c
      BY <1>5, <1>6, <1>9, <2>1, <2>3, Zenon
    <2> QED BY <2>2, <2>3, Zenon
  <1>11. \A u \in Threads : pc'[u] \in Lifecycled => Inst(u)'.reader = 0
    <2>1. ASSUME NEW u \in Threads \ {t}, pc[u] \in Lifecycled PROVE insts'[cur[u]].reader = 0
      <3>1. cur[u] \in DOMAIN insts /\ cur[u] # c
        BY <1>7, <2>1, Working, Zenon DEF Lifecycled, Busy
      <3> QED BY <1>5, <2>1, <3>1 DEF Inv, Read, Inst
    <2> QED BY <1>1, <1>6, <2>1, Zenon DEF Inst
  <1>12. ASSUME NEW r \in DOMAIN readers, readers[r].alive
         PROVE  /\ readers[r].inst \in DOMAIN insts
                /\ \/ insts'[readers[r].inst].reader = r
                   \/ \E u \in Threads :
                         pc'[u] \in Lifecycled /\ cur[u] = readers[r].inst /\ join[u] = r
    <2>1. /\ readers[r].inst \in DOMAIN insts \ {c}
          /\ \/ insts[readers[r].inst].reader = r
             \/ \E u \in Threads : pc[u] \in Lifecycled /\ cur[u] = readers[r].inst /\ join[u] = r
      BY <1>8, <1>12, Zenon DEF Inv, Read
    <2>2. CASE insts[readers[r].inst].reader = r
      BY <1>5, <2>1, <2>2, Zenon
    <2>3. ASSUME NEW u \in Threads, pc[u] \in Lifecycled, cur[u] = readers[r].inst, join[u] = r
          PROVE  pc'[u] \in Lifecycled
      BY <1>6, <1>9, <2>1, <2>3, Zenon
    <2> QED BY <2>1, <2>2, <2>3, Zenon
  <1>13. ASSUME NEW i \in DOMAIN insts \ {c}, insts'[i].open, insts'[i].lifecycle = None
         PROVE  /\ insts'[i].reader \in DOMAIN readers /\ ~insts'[i].stop
                /\ readers[insts'[i].reader].alive /\ readers[insts'[i].reader].inst = i
    BY <1>5, <1>13, Zenon DEF Inv, Read
  <1>14. CASE x.open = FALSE /\ readers' = readers
    BY <1>1, <1>5, <1>10, <1>11, <1>12, <1>13, <1>14, Zenon DEF Read
  <1>15. ASSUME NEW e \in Nat, x.stop = FALSE, x.reader = Len(readers) + 1,
                readers' = Append(readers, [inst |-> c, alive |-> TRUE, epoch |-> e])
         PROVE  Locked' /\ Read'
    <2> DEFINE n == Len(readers) + 1
               y == [inst |-> c, alive |-> TRUE, epoch |-> e]
    <2>1. y \in ReaderThread /\ y.inst = c /\ y.alive = TRUE
      BY <1>9 DEF ReaderThread, Inv, Typed
    <2> HIDE DEF y
    <2>2. /\ DOMAIN readers' = DOMAIN readers \cup {n} /\ readers'[n] = y
          /\ \A r \in DOMAIN readers : readers'[r] = readers[r]
      BY <1>15, <2>1, Added DEF Inv, Typed, y
    <2>3. x.reader = n
      BY <1>15
    <2> HIDE DEF n
    <2>4. ASSUME NEW r \in DOMAIN readers', readers'[r].alive
          PROVE  /\ readers'[r].inst \in DOMAIN insts'
                 /\ \/ insts'[readers'[r].inst].reader = r
                    \/ \E u \in Threads :
                          pc'[u] \in Lifecycled /\ cur'[u] = readers'[r].inst /\ join'[u] = r
      <3>1. CASE r = n
        BY <1>2, <1>5, <2>1, <2>2, <2>3, <3>1, Zenon
      <3>2. CASE r # n
        BY <1>1, <1>5, <1>12, <2>2, <2>4, <3>2
      <3> QED BY <3>1, <3>2, Zenon
    <2>5. ASSUME NEW i \in DOMAIN insts, insts'[i].open, insts'[i].lifecycle = None
          PROVE  /\ insts'[i].reader \in DOMAIN readers' /\ ~insts'[i].stop
                 /\ readers'[insts'[i].reader].alive /\ readers'[insts'[i].reader].inst = i
      <3>1. CASE i = c
        BY <1>5, <1>15, <2>1, <2>2, <2>3, <3>1, Zenon
      <3>2. CASE i # c
        BY <1>13, <2>2, <2>5, <3>2, Zenon
      <3> QED BY <3>1, <3>2, Zenon
    <2> QED BY <1>5, <1>10, <1>11, <2>4, <2>5, Zenon DEF Read
  <1> QED BY <1>4, <1>14, <1>15, Zenon

\* already_open
LEMMA AlreadyRead == ASSUME Inv, NEW t \in Threads, OpenAlready(t) PROVE Locked' /\ Read'
  <1>1. /\ pc[t] \in Busy /\ pc[t] \notin Lifecycled /\ UNCHANGED <<insts, readers, join, cur>>
        /\ pc' = [pc EXCEPT ![t] = after[t]]
    BY DEF OpenAlready, Goto, Busy, Lifecycled
  <1>2. after[t] \notin Lifecycled
    BY <1>1, Working DEF Lifecycled
  <1>3. \A u \in Threads : pc'[u] \in Lifecycled <=> pc[u] \in Lifecycled
    BY <1>1, <1>2 DEF Inv, Typed
  <1> QED BY <1>1, <1>3, NeutralStep, Zenon DEF Level

\* an open port loses its reader only together with the flag
LEMMA ReaderRead == ASSUME Inv, Reader \/ Device \/ UNCHANGED vars PROVE Locked' /\ Read'
  <1>1. UNCHANGED <<pc, cur, join>>
    BY DEF Reader, Device, vars, ReaderStops, ReaderFails, Plug, thread
  <1>2. CASE UNCHANGED <<insts, readers>>
    BY <1>1, <1>2, NeutralStep, Zenon DEF Level
  <1>3. ASSUME NEW r \in DOMAIN readers, ReaderStops(r) \/ ReaderFails(r)
        PROVE  Locked' /\ Read'
    <2> DEFINE k == readers[r].inst
    <2>1. /\ DOMAIN readers' = DOMAIN readers /\ readers'[r].alive = FALSE
          /\ readers'[r].inst = k /\ \A q \in DOMAIN readers \ {r} : readers'[q] = readers[q]
      BY <1>3, Ended, Zenon
    <2>2. k \in DOMAIN insts
      BY <1>3 DEF ReaderStops, ReaderFails, Inv, Read
    <2>3. /\ DOMAIN insts' = DOMAIN insts
          /\ \A i \in DOMAIN insts : /\ insts'[i].reader = insts[i].reader
                                     /\ insts'[i].lifecycle = insts[i].lifecycle
                                     /\ \/ insts'[i] = insts[i]
                                        \/ i = k /\ insts[k].reader = r /\ insts'[k].open = FALSE
          /\ ReaderFails(r) /\ insts[k].reader = r => insts'[k].open = FALSE
      <3>1. CASE ReaderStops(r) /\ ~ReaderFails(r)
        <4>1. insts' = insts
          BY <3>1 DEF ReaderStops
        <4> QED BY <3>1, <4>1, Zenon
      <3>2. CASE ReaderFails(r)
        <4>1. PICK x \in Instance :
                   /\ insts' = [insts EXCEPT ![k] = x] /\ x.reader = insts[k].reader
                   /\ x.lifecycle = insts[k].lifecycle
                   /\ \/ insts[k].reader = r /\ x.open = FALSE
                      \/ insts[k].reader # r /\ x = insts[k]
          BY <3>2, FailStep, Zenon
        <4>2. /\ DOMAIN insts' = DOMAIN insts /\ insts'[k] = x
              /\ \A i \in DOMAIN insts \ {k} : insts'[i] = insts[i]
          BY <2>2, <4>1, Put, Zenon DEF Inv, Typed
        <4> QED BY <2>2, <4>1, <4>2, Zenon
      <3> QED BY <1>3, <3>1, <3>2, Zenon
    <2>4. ReaderFails(r) \/ insts[k].stop \/ insts[k].reader # r
      BY <1>3 DEF ReaderStops, TurnedAway
    <2> HIDE DEF k
    <2>5. Locked'
      BY <1>1, <2>3 DEF Inv, Locked
    <2>6. \A t \in Threads : pc'[t] \in Lifecycled => Inst(t)'.reader = 0
      <3>1. \A t \in Threads : pc[t] \in Lifecycled => cur[t] \in DOMAIN insts
        BY Working, Zenon DEF Lifecycled, Busy
      <3> QED BY <1>1, <2>3, <3>1, ZenonT(30) DEF Inv, Read, Inst
    <2>7. \A q \in DOMAIN readers' : readers'[q].alive => q # r /\ readers'[q] = readers[q]
      BY <2>1
    <2>8. \A q \in DOMAIN readers' : readers'[q].alive =>
             /\ readers'[q].inst \in DOMAIN insts'
             /\ \/ insts'[readers'[q].inst].reader = q
                \/ \E t \in Threads :
                      pc'[t] \in Lifecycled /\ cur'[t] = readers'[q].inst /\ join'[t] = q
      <3> SUFFICES ASSUME NEW q \in DOMAIN readers', readers'[q].alive
                   PROVE  /\ readers'[q].inst \in DOMAIN insts'
                          /\ \/ insts'[readers'[q].inst].reader = q
                             \/ \E t \in Threads :
                                   /\ pc'[t] \in Lifecycled
                                   /\ cur'[t] = readers'[q].inst /\ join'[t] = q
        BY Zenon
      <3>1. q \in DOMAIN readers /\ readers'[q] = readers[q]
        BY <2>1, <2>7, Zenon
      <3>2. /\ readers[q].inst \in DOMAIN insts
            /\ \/ insts[readers[q].inst].reader = q
               \/ \E t \in Threads :
                     pc[t] \in Lifecycled /\ cur[t] = readers[q].inst /\ join[t] = q
        BY <3>1, Zenon DEF Inv, Read
      <3> QED BY <1>1, <2>3, <3>1, <3>2, Zenon
    <2>9. ASSUME NEW i \in DOMAIN insts, insts'[i].open, insts'[i].lifecycle = None
          PROVE  /\ insts'[i].reader \in DOMAIN readers /\ ~insts'[i].stop
                 /\ readers'[insts'[i].reader].alive /\ readers'[insts'[i].reader].inst = i
      <3>1. insts'[i] = insts[i]
        BY <2>3, <2>9, Zenon
      <3>2. /\ insts[i].reader \in DOMAIN readers /\ ~insts[i].stop
            /\ readers[insts[i].reader].alive /\ readers[insts[i].reader].inst = i
        BY <2>9, <3>1, Zenon DEF Inv, Read
      <3>3. insts[i].reader # r
        BY <2>3, <2>4, <2>9, <3>1, <3>2, Zenon DEF k
      <3> QED BY <2>1, <3>1, <3>2, <3>3, Zenon
    <2> QED BY <2>1, <2>3, <2>5, <2>6, <2>8, <2>9, Zenon DEF Read
  <1> QED BY <1>2, <1>3 DEF Reader, Device, vars, Plug

\* the part of the invariant that holds whether or not the close method is used
LEMMA NextInvNew == ASSUME Inv, New, [Next]_vars PROVE Inv' /\ New'
  <1>1. CASE \E t \in Threads : Lifecycle(t)
    BY <1>1, LifecycleShape, AlreadyRead, StopRead, ReleaseRead, Zenon DEF Lifecycle, Shape, Inv
  <1>2. CASE CallFound \/ CallNew
    BY <1>2, CallShape, CallRead DEF Shape, Inv
  <1>3. CASE Opened \/ Destroy \/ EndLoop \/ LockPorts \/ Cleanup
    BY <1>3, UbusShape, UbusRead DEF Shape, Inv
  <1>4. CASE Dismantle \/ Unlink
    BY <1>4, DestroyShape, UbusRead DEF Shape, Inv
  <1>5. CASE MonitorLock \/ CheckAndReconnect \/ MonitorUnlock \/ IntervalPasses
    BY <1>5, MonitorShape, MonitorRead DEF Shape, Inv
  <1>6. CASE Reader \/ Device \/ UNCHANGED vars
    BY <1>6, ReaderShape, ReaderRead DEF Shape, Inv
  <1> QED BY <1>1, <1>2, <1>3, <1>4, <1>5, <1>6 DEF Next, Method, Ubus, Monitor, Threads

\* once the close method was used it was used
LEMMA NextFlags == ASSUME Flags, [Next]_vars PROVE Flags' /\ (closed => closed')
  BY Zenon DEF Flags, Next, Method, EndLoop, Ubus, MonitorLock, Monitor, IntervalPasses, Reader,
         Device, Lifecycle, OpenAlready, OpenStop, OpenSucceeds, OpenFails, CloseStop, CloseDone,
         CallFound, CallNew, Opened, Destroy, Dismantle, Unlink, LockPorts, Cleanup, CheckAndReconnect,
         MonitorUnlock, ReaderStops, ReaderFails, Plug, vars, bounds

\* a step of another thread that starts no reader
LEMMA OtherUnclosed ==
    ASSUME Inv, New, Flags, Unclosed, UNCHANGED <<op, is_new, ports>>,
           \A r \in DOMAIN readers' : readers'[r].alive =>
              r \in DOMAIN readers /\ readers[r].alive /\ readers'[r].inst = readers[r].inst,
           pc'["ubus"] = pc["ubus"], cur'["ubus"] = cur["ubus"], after'["ubus"] = after["ubus"],
           cur["ubus"] \in DOMAIN insts => Inst("ubus")'.reader \in {0, Inst("ubus").reader},
           ok' = ok \/ pc["monitor"] \in Busy
    PROVE  Unclosed'
  <1>1. \A r \in DOMAIN readers' : readers'[r].alive => readers'[r].inst \in ports'
    BY Zenon DEF Unclosed
  <1>2. cur["ubus"] \in DOMAIN insts /\ Vacant => Vacant'
    BY Zenon DEF Vacant
  <1>3. pc["ubus"] \in Ending \cup {"opened"} => cur["ubus"] \in DOMAIN insts
    BY Zenon DEF Ending, Inv, Called, Listed
  <1>4. pc["ubus"] \in {"close", "closing"} => after["ubus"] = "dismantle"
    BY Zenon DEF Unclosed
  <1>5. pc["ubus"] \in Ending /\ op # "shutdown" => is_new /\ Vacant
    BY Zenon DEF Unclosed
  <1>6. pc["ubus"] = "opened" /\ is_new /\ ~ok' => Vacant
    <2>1. ASSUME pc["ubus"] = "opened", is_new PROVE ok' = ok
      <3>1. op # "shutdown"
        BY <2>1, Zenon DEF Inv, Called
      <3> QED BY <2>1, <3>1, Zenon DEF New, Creating, Flags
    <2> QED BY <2>1, Zenon DEF Unclosed
  <1> QED BY <1>1, <1>2, <1>3, <1>4, <1>5, <1>6, Zenon DEF Unclosed

\* ... the rounds of the monitor, readers and the device
LEMMA MonitorUnclosed ==
    ASSUME Inv, New, Flags, Unclosed,
           \/ MonitorLock \/ CheckAndReconnect \/ MonitorUnlock \/ IntervalPasses
           \/ Reader \/ Device \/ UNCHANGED vars
    PROVE  Unclosed'
  <1>1. UNCHANGED <<op, is_new, ports, ok>>
    BY Zenon DEF MonitorLock, CheckAndReconnect, MonitorUnlock, IntervalPasses, Reader, Device, vars,
           ReaderStops, ReaderFails, Plug
  <1>2. /\ pc'["ubus"] = pc["ubus"] /\ cur'["ubus"] = cur["ubus"] /\ after'["ubus"] = after["ubus"]
    BY Zenon DEF MonitorLock, CheckAndReconnect, MonitorUnlock, IntervalPasses, Reader, Device, vars,
           ReaderStops, ReaderFails, Plug, thread, Goto, Inv, Typed, Threads
  <1>3. \A r \in DOMAIN readers' : readers'[r].alive =>
           r \in DOMAIN readers /\ readers[r].alive /\ readers'[r].inst = readers[r].inst
    <2>1. CASE readers' = readers
      BY <2>1
    <2>2. ASSUME NEW r \in DOMAIN readers, ReaderStops(r) \/ ReaderFails(r)
          PROVE  \A q \in DOMAIN readers' : readers'[q].alive =>
                    q \in DOMAIN readers /\ readers[q].alive /\ readers'[q].inst = readers[q].inst
      BY <2>2, Ended, Zenon
    <2> QED BY <2>1, <2>2 DEF MonitorLock, CheckAndReconnect, MonitorUnlock, IntervalPasses, Reader,
                              Device, vars, Plug
  <1>4. cur["ubus"] \in DOMAIN insts => insts'[cur["ubus"]].reader = insts[cur["ubus"]].reader
    <2>1. CASE insts' = insts
      BY <2>1
    <2>2. CASE CheckAndReconnect \/ IntervalPasses
      <3>1. PICK i \in ports, b \in BOOLEAN : insts' = [insts EXCEPT ![i] = [@ EXCEPT !.due = b]]
        BY <2>2, Zenon DEF CheckAndReconnect, IntervalPasses, Inv, Listed
      <3>2. PICK x \in Instance : /\ i \in DOMAIN insts /\ insts' = [insts EXCEPT ![i] = x]
                                  /\ Level(x, insts[i])
        BY <3>1, DueStep, Zenon
      <3> QED BY <3>2, Zenon DEF Level, Inv, Typed
    <2>3. ASSUME NEW r \in DOMAIN readers, ReaderFails(r)
          PROVE  cur["ubus"] \in DOMAIN insts =>
                    insts'[cur["ubus"]].reader = insts[cur["ubus"]].reader
      <3>1. PICK x \in Instance : /\ readers[r].inst \in DOMAIN insts
                                  /\ insts' = [insts EXCEPT ![readers[r].inst] = x]
                                  /\ x.reader = insts[readers[r].inst].reader
        BY <2>3, FailStep, Zenon
      <3> QED BY <3>1, Zenon DEF Inv, Typed
    <2> QED BY <2>1, <2>2, <2>3 DEF MonitorLock, MonitorUnlock, Reader, Device, vars,
                                    ReaderStops, Plug
  <1> QED BY <1>1, <1>2, <1>3, <1>4, OtherUnclosed, Zenon DEF Inst

\* what open_at_port and close_at_port do to the readers
LEMMA LifecycleReaders ==
    ASSUME Inv, NEW t \in Threads, Lifecycle(t)
    PROVE  /\ OpenSucceeds(t) \/ readers' = readers
           /\ \A r \in DOMAIN readers' : readers'[r].alive =>
                 \/ r \in DOMAIN readers /\ readers'[r] = readers[r]
                 \/ readers'[r].inst = cur[t]
           /\ ~OpenSucceeds(t) => insts'[cur[t]].reader \in {0, insts[cur[t]].reader}
           /\ \A i \in DOMAIN insts \ {cur[t]} : insts'[i] = insts[i]
  <1>1. pc[t] \in Busy
    BY LifecycleStep, Zenon
  <1>2. cur[t] \in DOMAIN insts /\ Inst(t) \in Instance
    BY <1>1, Working
  <1>3. PICK x \in Instance : insts' = [insts EXCEPT ![cur[t]] = x]
    BY LifecycleStep, Zenon
  <1>4. insts'[cur[t]] = x /\ \A i \in DOMAIN insts \ {cur[t]} : insts'[i] = insts[i]
    BY <1>2, <1>3, Put, Zenon DEF Inv, Typed
  <1>5. CASE OpenSucceeds(t)
    <2> DEFINE y == [inst |-> cur[t], alive |-> TRUE, epoch |-> NextEpoch(Inst(t))]
    <2>1. readers' = Append(readers, y) /\ y.inst = cur[t]
      BY <1>5 DEF OpenSucceeds
    <2>2. y \in ReaderThread
      BY <1>2, SMTT(30) DEF ReaderThread, NextEpoch, Instance, Inv, Typed
    <2> HIDE DEF y
    <2>3. /\ DOMAIN readers' = DOMAIN readers \cup {Len(readers) + 1}
          /\ readers'[Len(readers) + 1] = y /\ \A r \in DOMAIN readers : readers'[r] = readers[r]
      BY <2>1, <2>2, Added DEF Inv, Typed
    <2> QED BY <1>4, <1>5, <2>1, <2>3, Zenon
  <1>6. CASE ~OpenSucceeds(t)
    <2>1. readers' = readers
      BY <1>6 DEF Lifecycle, OpenAlready, OpenStop, OpenFails, CloseStop, CloseDone
    <2>2. insts'[cur[t]].reader \in {0, insts[cur[t]].reader}
      <3>1. CASE OpenAlready(t)
        BY <3>1, Zenon DEF OpenAlready
      <3>2. CASE OpenStop(t) \/ CloseStop(t)
        <4>1. insts' = [insts EXCEPT ![cur[t]] = Stopped(t, Inst(t))]
          BY <3>2, Zenon DEF OpenStop, CloseStop, SetInst
        <4> QED BY <1>2, <4>1, Zenon DEF Stopped, Inv, Typed, Instance
      <3>3. CASE OpenFails(t) \/ CloseDone(t)
        <4>1. PICK z \in {[Inst(t) EXCEPT !.open = FALSE, !.lifecycle = None],
                          [Inst(t) EXCEPT !.open = FALSE, !.lifecycle = None, !.stop = TRUE,
                                          !.epoch = NextEpoch(Inst(t))]} :
                   insts' = [insts EXCEPT ![cur[t]] = z]
          BY <3>3 DEF OpenFails, CloseDone, SetInst
        <4>2. z.reader = Inst(t).reader
          BY <1>2, <4>1, Zenon DEF Instance
        <4> QED BY <1>2, <4>1, <4>2 DEF Inst, Inv, Typed
      <3> QED BY <1>6, <3>1, <3>2, <3>3, Zenon DEF Lifecycle
    <2> QED BY <1>4, <1>6, <2>1, <2>2, Zenon
  <1> QED BY <1>5, <1>6, Zenon

\* open_at_port starts readers on the listed instance only; one that fails leaves none
LEMMA LifecycleUnclosed ==
    ASSUME Inv, New, Flags, Unclosed, NEW t \in Threads, Lifecycle(t)
    PROVE  Unclosed'
  <1>1. /\ pc[t] \in Busy /\ UNCHANGED <<ports, cur, after, op, is_new>>
        /\ \/ pc' = [pc EXCEPT ![t] = after[t]]
           \/ pc[t] = "open" /\ pc' = [pc EXCEPT ![t] = "reopen"]
           \/ pc[t] = "close" /\ pc' = [pc EXCEPT ![t] = "closing"]
    BY LifecycleStep, Zenon
  <1>2. cur[t] \in ports /\ cur[t] \in DOMAIN insts /\ ports = {cur[t]}
    BY <1>1, Working, Zenon DEF Inv, Listed
  <1>3. /\ OpenSucceeds(t) \/ readers' = readers
        /\ \A r \in DOMAIN readers' : readers'[r].alive =>
              \/ r \in DOMAIN readers /\ readers'[r] = readers[r]
              \/ readers'[r].inst = cur[t]
        /\ ~OpenSucceeds(t) => insts'[cur[t]].reader \in {0, insts[cur[t]].reader}
        /\ \A i \in DOMAIN insts \ {cur[t]} : insts'[i] = insts[i]
    BY LifecycleReaders, Zenon
  <1>4. \A r \in DOMAIN readers' : readers'[r].alive => readers'[r].inst \in ports'
    BY <1>1, <1>2, <1>3, Zenon DEF Unclosed
  <1>5. CASE t = "monitor"
    <2>1. pc'["ubus"] = pc["ubus"]
      BY <1>1, <1>5, Zenon DEF Inv, Typed, Threads
    <2>2. ~Creating
      BY <1>1, <1>5 DEF New
    <2>3. ~(pc["ubus"] \in Ending /\ op # "shutdown")
      BY <2>2 DEF Unclosed, Creating, Ending, Flags
    <2>4. ~(pc["ubus"] = "opened" /\ is_new)
      BY <2>2, Zenon DEF Inv, Called, Creating, Flags
    <2> QED BY <1>1, <1>4, <2>1, <2>3, <2>4, Zenon DEF Unclosed
  <1>6. CASE t = "ubus"
    <2>1. \/ pc'["ubus"] = after["ubus"]
          \/ pc["ubus"] = "open" /\ pc'["ubus"] = "reopen"
          \/ pc["ubus"] = "close" /\ pc'["ubus"] = "closing"
      BY <1>1, <1>6, Zenon DEF Inv, Typed, Threads
    <2>2. CASE pc["ubus"] \in {"close", "closing"}
      <3>1. ~OpenSucceeds(t)
        BY <1>6, <2>2 DEF OpenSucceeds
      <3>2. after["ubus"] = "dismantle" /\ (op # "shutdown" => is_new /\ Vacant)
        BY <2>2 DEF Unclosed, Ending
      <3>3. Vacant => Vacant'
        BY <1>1, <1>3, <1>6, <3>1, Zenon DEF Vacant, Inst
      <3> QED BY <1>1, <1>4, <2>1, <2>2, <3>2, <3>3, Zenon DEF Unclosed, Ending
    <2>3. CASE pc["ubus"] \in {"open", "reopen"}
      <3>1. pc'["ubus"] \in {"reopen", "opened"}
        BY <2>1, <2>3, Zenon DEF Inv, Called
      <3>2. ASSUME pc'["ubus"] = "opened", ~ok' PROVE Vacant'
        <4>1. ~OpenAlready(t) /\ ~OpenSucceeds(t)
          BY <3>2 DEF OpenAlready, OpenSucceeds
        <4>2. ~OpenStop(t)
          BY <1>6, <3>2, Zenon DEF OpenStop, Goto, Inv, Typed, Threads
        <4>3. ~CloseStop(t) /\ ~CloseDone(t)
          BY <1>6, <2>3 DEF CloseStop, CloseDone
        <4>4. OpenFails(t)
          BY <4>1, <4>2, <4>3 DEF Lifecycle
        <4>5. pc[t] \in Lifecycled /\ Joined(t)
          BY <4>4 DEF OpenFails, OpenJoined, Lifecycled
        <4>6. Inst("ubus")'.reader = 0
          BY <1>1, <1>3, <1>6, <4>1, <4>5, Zenon DEF Inv, Read, Inst
        <4>7. \A r \in DOMAIN readers : ~readers[r].alive
          BY <1>2, <4>5, JoinedAll, Zenon DEF Unclosed
        <4> QED BY <1>3, <4>1, <4>6, <4>7, Zenon DEF Vacant
      <3> QED BY <1>4, <3>1, <3>2, Zenon DEF Unclosed, Ending
    <2> QED BY <1>1, <1>6, <2>2, <2>3, Zenon DEF Busy
  <1> QED BY <1>5, <1>6 DEF Threads

\* a method that is not close
LEMMA CallUnclosed ==
    ASSUME Inv, Unclosed, CallFound \/ CallNew, ~closed'
    PROVE  Unclosed'
  <1>1. readers' = readers /\ pc'["ubus"] \in {"idle", "open"}
    <2>1. CASE CallFound
      <3>1. PICK i \in ports, o \in Ops :
               /\ closed' = (closed \/ o = "close")
               /\ IF o = "close" THEN Enter("close", "destroy", i)
                  ELSE IF o = "send" /\ insts[i].open THEN UNCHANGED <<pc, after, cur>>
                  ELSE Enter("open", "opened", i)
        BY <2>1, Zenon DEF CallFound
      <3>2. o # "close"
        BY <3>1, Zenon
      <3>3. UNCHANGED pc \/ pc' = [pc EXCEPT !["ubus"] = "open"]
        BY <3>1, <3>2, Zenon DEF Enter
      <3> QED BY <2>1, <3>3, Zenon DEF CallFound, Inv, Typed, Threads
    <2>2. CASE CallNew
      BY <2>2, Zenon DEF CallNew, Enter, Inv, Typed, Threads
    <2> QED BY <2>1, <2>2
  <1>2. ports = {} \/ ports' = ports
    BY Zenon DEF CallFound, CallNew
  <1> QED BY <1>1, <1>2, Zenon DEF Unclosed, Ending

\* the instance taken off the list is one that nobody reads
LEMMA UbusUnclosed ==
    ASSUME Inv, New, Flags, Unclosed,
           Opened \/ Destroy \/ Dismantle \/ Unlink \/ EndLoop \/ LockPorts \/ Cleanup
    PROVE  Unclosed'
  <1>1. readers' = readers
    BY DEF Opened, Destroy, Dismantle, Unlink, EndLoop, LockPorts, Cleanup
  <1>2. CASE EndLoop \/ LockPorts \/ Cleanup
    <2>1. /\ op' = "shutdown" /\ UNCHANGED ports
          /\ pc'["ubus"] \in {"stopping", "cleanup", "destroy", "exit"}
      BY <1>2, Zenon DEF EndLoop, LockPorts, Cleanup, Goto, Enter, Inv, Called, Typed, Threads
    <2> QED BY <1>1, <2>1, Zenon DEF Unclosed
  <1>3. CASE Opened
    <2>1. /\ UNCHANGED <<ports, op, is_new, insts, cur>> /\ pc["ubus"] = "opened"
          /\ \/ pc'["ubus"] = "idle"
             \/ pc'["ubus"] = "destroy" /\ is_new /\ ~ok
      BY <1>3, Zenon DEF Opened, Goto, Inv, Typed, Threads
    <2> QED BY <1>1, <2>1, Zenon DEF Unclosed, Vacant, Inst, Ending
  <1>4. CASE Destroy \/ Dismantle
    <2>1. /\ UNCHANGED <<ports, op, is_new>> /\ pc["ubus"] \in Ending /\ cur'["ubus"] = cur["ubus"]
          /\ \/ pc'["ubus"] = "unlink"
             \/ pc'["ubus"] = "close" /\ after'["ubus"] = "dismantle"
      BY <1>4 DEF Destroy, Dismantle, Goto, Enter, Inv, Typed, Threads, Ending
    <2>2. Inst("ubus")'.reader = Inst("ubus").reader
      <3>1. CASE Destroy
        BY <2>1, <3>1, Zenon DEF Destroy, Inst
      <3>2. CASE Dismantle
        <4>1. PICK x \in Instance : /\ cur["ubus"] \in DOMAIN insts
                                    /\ insts' = [insts EXCEPT ![cur["ubus"]] = x]
                                    /\ Level(x, Inst("ubus"))
          BY <3>2, DismantleStep, Zenon
        <4> QED BY <2>1, <4>1, Zenon DEF Level, Inst, Inv, Typed
      <3> QED BY <1>4, <3>1, <3>2, Zenon
    <2>3. Vacant => Vacant'
      BY <1>1, <2>2 DEF Vacant
    <2> QED BY <1>1, <2>1, <2>3, Zenon DEF Unclosed
  <1>5. CASE Unlink
    <2>1. pc["ubus"] = "unlink" /\ op # "shutdown" /\ pc'["ubus"] = "idle"
      BY <1>5 DEF Unlink, Goto, Inv, Called, Typed, Threads, None
    <2>2. \A r \in DOMAIN readers : ~readers[r].alive
      BY <2>1, Zenon DEF Unclosed, Ending, Vacant
    <2> QED BY <1>1, <2>1, <2>2, Zenon DEF Unclosed, Ending
  <1> QED BY <1>2, <1>3, <1>4, <1>5

\* the inductive invariant
PortInv == Inv /\ New /\ Flags /\ (closed \/ Unclosed)

\* no instance, no reader
LEMMA InitPort == Init => PortInv
  <1> SUFFICES ASSUME Init PROVE PortInv
    OBVIOUS
  <1>1. Typed
    <2>1. insts \in Seq(Instance) /\ readers \in Seq(ReaderThread)
      BY DEF Init
    <2>2. "idle" \in Label
      BY DEF Label
    <2> QED BY <2>1, <2>2, Zenon DEF Init, Typed
  <1>2. Listed /\ Called
    BY Zenon DEF Init, Listed, Called, Threads, None, Busy
  <1>3. Locked /\ Read
    BY DEF Init, Locked, Read, Lifecycled
  <1>4. New /\ Flags
    BY Zenon DEF Init, New, Creating, Flags, Threads
  <1>5. Unclosed
    <2>1. pc["ubus"] = "idle" /\ DOMAIN readers = {}
      BY DEF Init, Threads
    <2> QED BY <2>1 DEF Unclosed, Ending
  <1> QED BY <1>1, <1>2, <1>3, <1>4, <1>5 DEF PortInv, Inv

\* the invariant is inductive
LEMMA NextPort == PortInv /\ [Next]_vars => PortInv'
  <1> SUFFICES ASSUME PortInv, [Next]_vars PROVE PortInv'
    OBVIOUS
  <1>1. Inv /\ New /\ Flags /\ Inv' /\ New' /\ Flags' /\ (closed => closed')
    BY NextInvNew, NextFlags DEF PortInv
  <1> SUFFICES ASSUME ~closed' PROVE Unclosed'
    BY <1>1, Zenon DEF PortInv
  <1>2. Unclosed
    BY <1>1 DEF PortInv
  <1>3. CASE \E t \in Threads : Lifecycle(t)
    BY <1>1, <1>2, <1>3, LifecycleUnclosed
  <1>4. CASE CallFound \/ CallNew
    BY <1>1, <1>2, <1>4, CallUnclosed
  <1>5. CASE Opened \/ Destroy \/ Dismantle \/ Unlink \/ EndLoop \/ LockPorts \/ Cleanup
    BY <1>1, <1>2, <1>5, UbusUnclosed, Zenon
  <1>6. CASE \/ MonitorLock \/ CheckAndReconnect \/ MonitorUnlock \/ IntervalPasses
             \/ Reader \/ Device \/ UNCHANGED vars
    BY <1>1, <1>2, <1>6, MonitorUnclosed
  <1> QED BY <1>3, <1>4, <1>5, <1>6 DEF Next, Method, Ubus, Monitor, Threads

\* what both theorems about readers rest on: before the close method is used, a reader
\* that runs is on the listed instance, and there is one at most
LEMMA OneAlive ==
    ASSUME Inv, Unclosed
    PROVE  \A r, q \in DOMAIN readers : readers[r].alive /\ readers[q].alive => r = q
  <1> SUFFICES ASSUME NEW r \in DOMAIN readers, NEW q \in DOMAIN readers,
                      readers[r].alive, readers[q].alive
               PROVE  r = q
    OBVIOUS
  <1>1. readers[r].inst = readers[q].inst /\ readers[r].inst \in DOMAIN insts
    BY Zenon DEF Unclosed, Inv, Listed
  <1> DEFINE i == readers[r].inst
  <1>2. \/ insts[i].reader = r
        \/ \E t \in Threads : pc[t] \in Lifecycled /\ cur[t] = i /\ join[t] = r
    BY Zenon DEF Inv, Read
  <1>3. \/ insts[i].reader = q
        \/ \E t \in Threads : pc[t] \in Lifecycled /\ cur[t] = i /\ join[t] = q
    BY <1>1 DEF Inv, Read
  <1>4. r # 0 /\ q # 0
    BY DEF Inv, Typed
  <1>5. \A t \in Threads : pc[t] \in Lifecycled /\ cur[t] = i =>
           insts[i].reader = 0 /\ insts[i].lifecycle = t
    BY <1>1 DEF Inv, Read, Locked, Inst
  <1> HIDE DEF i
  <1> QED BY <1>2, <1>3, <1>4, <1>5, Zenon

\* Two reader threads never run on the device at once before the close method is used,
\* although the ubus thread and the monitor both reopen the port and a failed opening
\* destroys its instance: for any number of calls, rounds and unplugged devices.
THEOREM OneReaderAtATime == Spec => []OneReaderUntilClose
  <1>1. PortInv => OneReaderUntilClose
    <2> SUFFICES ASSUME PortInv, ~closed PROVE OneReader
      BY DEF OneReaderUntilClose
    <2> DEFINE A == {r \in DOMAIN readers : readers[r].alive}
    <2>1. A = {} \/ \E r \in A : A = {r}
      BY OneAlive DEF PortInv
    <2>2. Cardinality(A) \in {0, 1}
      BY <2>1, FS_EmptySet, FS_Singleton, Zenon
    <2> QED BY <2>2 DEF OneReader
  <1> QED BY <1>1, InitPort, NextPort, PTL DEF Spec

\* As long as the close method is not used, no reader and no open_at_port or
\* close_at_port of the monitor works on an instance that destroy_port_instance freed.
THEOREM InstancesOutliveThreads == Spec => []NoUseAfterFree
  <1>1. PortInv => NoUseAfterFree
    <2> SUFFICES ASSUME Inv, Unclosed
                 PROVE  /\ \A r \in DOMAIN readers :
                              readers[r].alive => ~insts[readers[r].inst].freed
                        /\ pc["monitor"] \in Busy => ~Inst("monitor").freed
      BY Zenon DEF PortInv, NoUseAfterFree, Busy
    <2>1. \A r \in DOMAIN readers : readers[r].alive => ~insts[readers[r].inst].freed
      BY Zenon DEF Unclosed, Inv, Listed
    <2>2. pc["monitor"] \in Busy => ~Inst("monitor").freed
      BY Zenon DEF Inv, Listed, Inst
    <2> QED BY <2>1, <2>2, Zenon
  <1> QED BY <1>1, InitPort, NextPort, PTL DEF Spec

\* is_open is never left set by a reader that ended: outside open_at_port and
\* close_at_port an open port has a reader that runs, whatever methods are used.
THEOREM OpenPortsAreRead == Spec => []OpenIsRead
  <1>1. PortInv => OpenIsRead
    BY DEF PortInv, Inv, Read, Listed, Typed, OpenIsRead
  <1> QED BY <1>1, InitPort, NextPort, PTL DEF Spec
================================================================================
