--------------------------------- MODULE AtPort ---------------------------------
(***************************************************************************)
(* The life of one AT port in ubus-at-daemon (port_manager.c and the ubus  *)
(* methods of main.c): the ubus thread opens, closes and destroys the      *)
(* port's instance, the monitor thread reopens a port that came back and   *)
(* closes one that went away, and each opening starts a reader thread that *)
(* the next one joins.  ports_mutex guards the list, lifecycle_mutex an    *)
(* opening or closing; the sections under state_mutex are single steps.    *)
(***************************************************************************)
EXTENDS Integers, Sequences, FiniteSets

CONSTANTS
    Ops,            \* methods called: subset of {"open", "send", "close"}
    Shutdown,       \* whether the daemon is told to stop
    MaxOps,         \* bound: method calls
    MaxChecks,      \* bound: rounds of the monitor
    MaxPlugs        \* bound: times the device file appears or disappears

ASSUME OpsAssumption == Ops \subseteq {"open", "send", "close"} /\ Shutdown \in BOOLEAN
ASSUME BoundAssumption == {MaxOps, MaxChecks, MaxPlugs} \subseteq Nat

Threads == {"ubus", "monitor"}
None == "none"

VARIABLES
    ports,          \* g_daemon_ctx.ports: instances in the list
    ports_mutex,    \* its owner
    insts,          \* all instances ever created, in order
    readers,        \* all reader threads ever created: [inst, alive, epoch]
    present,        \* the device file exists
    pc, cur, join,  \* per thread: label, instance, reader to be joined
    after,          \* per thread: label to return to from open_at_port or close_at_port
    op, is_new, ok, \* the ubus method, whether it created cur, result of open_at_port
    todo,           \* instances the monitor's round still has to visit
    closed,         \* history: the close method was called
    ops, checks, plugs

thread == <<pc, cur, join, after>>
bounds == <<closed, ops, checks, plugs>>
vars == <<ports, ports_mutex, insts, readers, present, thread, op, is_new, ok, todo, bounds>>

\* mutant: last_check_time is not initialised
Mut_NewInstanceDue == [open |-> FALSE, reader |-> 0, stop |-> FALSE, epoch |-> 0, due |-> TRUE,
                       lifecycle |-> None, destroyed |-> FALSE, freed |-> FALSE]

\* create_port_instance; reader = 0 stands for reader_thread_valid = 0, epoch
\* counts from daemon_epoch, due is whether check_interval has passed
NewInstance == [open |-> FALSE, reader |-> 0, stop |-> FALSE, epoch |-> 0, due |-> FALSE,
                lifecycle |-> None, destroyed |-> FALSE, freed |-> FALSE]

Init ==
    /\ ports = {} /\ ports_mutex = None /\ insts = <<>> /\ readers = <<>> /\ present = TRUE
    /\ pc = [t \in Threads |-> "idle"] /\ cur = [t \in Threads |-> 0]
    /\ join = [t \in Threads |-> 0] /\ after = [t \in Threads |-> "idle"]
    /\ op = None /\ is_new = FALSE /\ ok = FALSE /\ todo = {}
    /\ closed = FALSE /\ ops = 0 /\ checks = 0 /\ plugs = 0

Goto(t, label) == pc' = [pc EXCEPT ![t] = label]
Inst(t) == insts[cur[t]]
SetInst(t, i) == insts' = [insts EXCEPT ![cur[t]] = i]
Joined(t) == join[t] # 0 => ~readers[join[t]].alive

\* a lock of a destroyed mutex may succeed at once
LifecycleFree(t) == Inst(t).lifecycle = None \/ Inst(t).destroyed

-------------------------------------------------------------------------------
(* open_at_port and close_at_port, by thread t on cur[t]                   *)

\* stop_reader, up to pthread_join
Stopped(t, i) == [i EXCEPT !.lifecycle = t, !.reader = 0,
                           !.stop = @ \/ i.reader # 0]

\* mutant: the early return leaves lifecycle_mutex locked
Mut_OpenAlready(t) ==
    /\ pc[t] = "open" /\ LifecycleFree(t)
    /\ Inst(t).open /\ Inst(t).reader # 0
    /\ SetInst(t, [Inst(t) EXCEPT !.lifecycle = t])
    /\ Goto(t, after[t])
    /\ ok' = TRUE
    /\ UNCHANGED <<ports, ports_mutex, readers, present, cur, join, after, op, is_new, todo,
                   bounds>>

\* already_open: nothing to do
OpenAlready(t) ==
    /\ pc[t] = "open" /\ LifecycleFree(t)
    /\ Inst(t).open /\ Inst(t).reader # 0
    /\ Goto(t, after[t])
    /\ ok' = TRUE
    /\ UNCHANGED <<ports, ports_mutex, insts, readers, present, cur, join, after, op, is_new,
                   todo, bounds>>

\* the port is closed, or was opened with other parameters
OpenStop(t) ==
    /\ pc[t] = "open" /\ LifecycleFree(t)
    /\ SetInst(t, Stopped(t, Inst(t)))
    /\ join' = [join EXCEPT ![t] = Inst(t).reader]
    /\ Goto(t, "reopen")
    /\ UNCHANGED <<ports, ports_mutex, readers, present, cur, after, op, is_new, ok, todo,
                   bounds>>

\* mutant: the old reader is not joined
Mut_OpenJoined(t) == TRUE

\* pthread_join returns
OpenJoined(t) == Joined(t)

\* at_port_advance_restart_epoch
NextEpoch(i) == i.epoch + 1

\* mark_port_closed; the file is there: it is opened, the epoch advances and a
\* reader starts
OpenSucceeds(t) ==
    /\ pc[t] = "reopen" /\ OpenJoined(t) /\ present
    /\ readers' = Append(readers, [inst |-> cur[t], alive |-> TRUE,
                                   epoch |-> NextEpoch(Inst(t))])
    /\ SetInst(t, [Inst(t) EXCEPT !.open = TRUE, !.stop = FALSE, !.epoch = NextEpoch(Inst(t)),
                                  !.reader = Len(readers) + 1, !.lifecycle = None])
    /\ ok' = TRUE
    /\ Goto(t, after[t])
    /\ UNCHANGED <<ports, ports_mutex, present, cur, join, after, op, is_new, todo, bounds>>

\* mark_port_closed; the file is missing or cannot be opened, or after the epoch
\* advanced no thread can be created
OpenFails(t) ==
    /\ pc[t] = "reopen" /\ OpenJoined(t)
    /\ \/ SetInst(t, [Inst(t) EXCEPT !.open = FALSE, !.lifecycle = None])
       \/ /\ present
          /\ SetInst(t, [Inst(t) EXCEPT !.open = FALSE, !.lifecycle = None, !.stop = TRUE,
                                        !.epoch = NextEpoch(Inst(t))])
    /\ ok' = FALSE
    /\ Goto(t, after[t])
    /\ UNCHANGED <<ports, ports_mutex, readers, present, cur, join, after, op, is_new, todo,
                   bounds>>

\* close_at_port
CloseStop(t) ==
    /\ pc[t] = "close" /\ LifecycleFree(t)
    /\ SetInst(t, Stopped(t, Inst(t)))
    /\ join' = [join EXCEPT ![t] = Inst(t).reader]
    /\ Goto(t, "closing")
    /\ UNCHANGED <<ports, ports_mutex, readers, present, cur, after, op, is_new, ok, todo,
                   bounds>>

\* ... pthread_join returns, mark_port_closed
CloseDone(t) ==
    /\ pc[t] = "closing" /\ Joined(t)
    /\ SetInst(t, [Inst(t) EXCEPT !.open = FALSE, !.lifecycle = None])
    /\ Goto(t, after[t])
    /\ UNCHANGED <<ports, ports_mutex, readers, present, cur, join, after, op, is_new, ok,
                   todo, bounds>>

Lifecycle(t) == \/ OpenAlready(t) \/ OpenStop(t) \/ OpenSucceeds(t) \/ OpenFails(t)
                \/ CloseStop(t) \/ CloseDone(t)

-------------------------------------------------------------------------------
(* The ubus thread                                                         *)

Enter(label, return, i) ==
    /\ pc' = [pc EXCEPT !["ubus"] = label]
    /\ after' = [after EXCEPT !["ubus"] = return]
    /\ cur' = [cur EXCEPT !["ubus"] = i]

\* find_port_instance finds the path: open, close, or send, which opens a closed port
CallFound ==
    /\ pc["ubus"] = "idle" /\ ports_mutex = None /\ ops < MaxOps
    /\ \E i \in ports, o \in Ops :
          /\ op' = o
          /\ closed' = (closed \/ o = "close")
          /\ IF o = "close" THEN Enter("close", "destroy", i)
             ELSE IF o = "send" /\ insts[i].open THEN UNCHANGED <<pc, after, cur>>
             ELSE Enter("open", "opened", i)
    /\ is_new' = FALSE
    /\ ops' = ops + 1
    /\ UNCHANGED <<ports, ports_mutex, insts, readers, present, join, ok, todo, checks, plugs>>

\* it does not: open and send create an instance, open only if the file is there
CallNew ==
    /\ pc["ubus"] = "idle" /\ ports_mutex = None /\ ops < MaxOps
    /\ ports = {}
    /\ \E o \in Ops \ {"close"} : (o = "open" => present) /\ op' = o
    /\ insts' = Append(insts, NewInstance)
    /\ ports' = {Len(insts) + 1}
    /\ Enter("open", "opened", Len(insts) + 1)
    /\ is_new' = TRUE
    /\ ops' = ops + 1
    /\ UNCHANGED <<ports_mutex, readers, present, join, ok, todo, closed, checks, plugs>>

\* a new instance that could not be opened by the open method is destroyed
Opened ==
    /\ pc["ubus"] = "opened"
    /\ Goto("ubus", IF op = "open" /\ is_new /\ ~ok THEN "destroy" ELSE "idle")
    /\ UNCHANGED <<ports, ports_mutex, insts, readers, present, cur, join, after, op, is_new,
                   ok, todo, bounds>>

\* destroy_port_instance begins with another close_at_port
Destroy ==
    /\ pc["ubus"] = "destroy"
    /\ Enter("close", "dismantle", cur["ubus"])
    /\ UNCHANGED <<ports, ports_mutex, insts, readers, present, join, op, is_new, ok, todo,
                   bounds>>

\* ... destroys the mutexes
Dismantle ==
    /\ pc["ubus"] = "dismantle"
    /\ SetInst("ubus", [Inst("ubus") EXCEPT !.destroyed = TRUE])
    /\ Goto("ubus", "unlink")
    /\ UNCHANGED <<ports, ports_mutex, readers, present, cur, join, after, op, is_new, ok,
                   todo, bounds>>

\* ... and only then takes the instance off the list and frees it
Unlink ==
    /\ pc["ubus"] = "unlink" /\ ports_mutex = None
    /\ ports' = ports \ {cur["ubus"]}
    /\ SetInst("ubus", [Inst("ubus") EXCEPT !.freed = TRUE])
    /\ Goto("ubus", IF op = "shutdown" THEN "cleanup" ELSE "idle")
    /\ UNCHANGED <<ports_mutex, readers, present, cur, join, after, op, is_new, ok, todo,
                   bounds>>

\* uloop_run returns; stop_port_monitor waits for the monitor
EndLoop ==
    /\ Shutdown /\ pc["ubus"] = "idle" /\ op # "shutdown"
    /\ op' = "shutdown"
    /\ Goto("ubus", "stopping")
    /\ UNCHANGED <<ports, ports_mutex, insts, readers, present, cur, join, after, is_new, ok,
                   todo, bounds>>

\* main locks ports_mutex for the cleanup
LockPorts ==
    /\ pc["ubus"] = "stopping" /\ pc["monitor"] = "idle" /\ ports_mutex = None
    /\ ports_mutex' = "ubus"
    /\ Goto("ubus", "cleanup")
    /\ UNCHANGED <<ports, insts, readers, present, cur, join, after, op, is_new, ok, todo,
                   bounds>>

\* ... destroys every instance and unlocks
Cleanup ==
    /\ pc["ubus"] = "cleanup"
    /\ \/ /\ \E i \in ports : Enter("destroy", "idle", i)
          /\ UNCHANGED ports_mutex
       \/ /\ ports = {} /\ ports_mutex' = None
          /\ Goto("ubus", "exit")
          /\ UNCHANGED <<cur, after>>
    /\ UNCHANGED <<ports, insts, readers, present, join, op, is_new, ok, todo, bounds>>

-------------------------------------------------------------------------------
(* The monitor thread                                                      *)

\* a round begins: ports_mutex is held until it ends
MonitorLock ==
    /\ pc["monitor"] = "idle" /\ ports_mutex = None /\ checks < MaxChecks
    /\ op # "shutdown"
    /\ checks' = checks + 1
    /\ ports_mutex' = "monitor"
    /\ todo' = ports
    /\ Goto("monitor", "check")
    /\ UNCHANGED <<ports, insts, readers, present, cur, join, after, op, is_new, ok, ops,
                   closed, plugs>>

\* the 30 s of an instance pass; the method that creates one ends sooner
IntervalPasses ==
    /\ \E i \in ports :
          /\ ~insts[i].due
          /\ ~(is_new /\ pc["ubus"] # "idle" /\ cur["ubus"] = i)
          /\ insts' = [insts EXCEPT ![i] = [@ EXCEPT !.due = TRUE]]
    /\ checks < MaxChecks
    /\ UNCHANGED <<ports, ports_mutex, readers, present, thread, op, is_new, ok, todo, bounds>>

\* check_and_reconnect_port: reopen what is closed and there, close what is gone
\* (a descriptor is closed only when is_open is cleared, so none is bad)
CheckAndReconnect ==
    /\ pc["monitor"] = "check"
    /\ \E i \in todo :
          /\ todo' = todo \ {i}
          /\ cur' = [cur EXCEPT !["monitor"] = i]
          /\ after' = [after EXCEPT !["monitor"] = "check"]
          /\ insts' = [insts EXCEPT ![i] = [@ EXCEPT !.due = FALSE]]
          /\ Goto("monitor", IF ~insts[i].due THEN "check"
                             ELSE IF ~insts[i].open /\ present THEN "open"
                             ELSE IF insts[i].open /\ ~present THEN "close" ELSE "check")
    /\ UNCHANGED <<ports, ports_mutex, readers, present, join, op, is_new, ok, bounds>>

MonitorUnlock ==
    /\ pc["monitor"] = "check" /\ todo = {}
    /\ ports_mutex' = None
    /\ Goto("monitor", "idle")
    /\ UNCHANGED <<ports, insts, readers, present, cur, join, after, op, is_new, ok, todo,
                   bounds>>

-------------------------------------------------------------------------------
(* Reader threads and the device                                           *)

\* should_stop is set, or the instance has another reader or none
TurnedAway(r) == insts[readers[r].inst].stop \/ insts[readers[r].inst].reader # r

\* reader_thread_func ends; one whose instance was freed reads freed memory
ReaderStops(r) ==
    /\ readers[r].alive /\ ~insts[readers[r].inst].freed /\ TurnedAway(r)
    /\ readers' = [readers EXCEPT ![r].alive = FALSE]
    /\ UNCHANGED <<ports, ports_mutex, insts, present, thread, op, is_new, ok, todo, bounds>>

\* mutant: the reader ends without marking the port closed
Mut_MarkedClosed(i) == [i EXCEPT !.stop = TRUE]

\* what a reader leaves behind that ends on an error
MarkedClosed(i) == [i EXCEPT !.open = FALSE, !.stop = TRUE]

\* read() fails, as it also does on the old descriptor of a device that came
\* back: the reader of the port marks it closed
ReaderFails(r) ==
    /\ readers[r].alive /\ ~insts[readers[r].inst].freed
    /\ readers' = [readers EXCEPT ![r].alive = FALSE]
    /\ insts' = IF insts[readers[r].inst].reader = r
                THEN [insts EXCEPT ![readers[r].inst] = MarkedClosed(@)]
                ELSE insts
    /\ UNCHANGED <<ports, ports_mutex, present, thread, op, is_new, ok, todo, bounds>>

\* external: the modem is unplugged, or comes back
Plug ==
    /\ plugs < MaxPlugs
    /\ plugs' = plugs + 1
    /\ present' = ~present
    /\ UNCHANGED <<ports, ports_mutex, insts, readers, thread, op, is_new, ok, todo, ops,
                   closed, checks>>

-------------------------------------------------------------------------------
Method == CallFound \/ CallNew
Ubus == \/ Lifecycle("ubus") \/ Opened \/ Destroy \/ Dismantle \/ Unlink
        \/ LockPorts \/ Cleanup
Monitor == Lifecycle("monitor") \/ CheckAndReconnect \/ MonitorUnlock
Reader == \E r \in DOMAIN readers : ReaderStops(r)
Device == Plug \/ \E r \in DOMAIN readers : ReaderFails(r)
Next == \/ Method \/ EndLoop \/ Ubus \/ MonitorLock \/ Monitor \/ IntervalPasses
        \/ Reader \/ Device

Spec == Init /\ [][Next]_vars

\* every thread that can run does: a method or a round that has begun goes on
Fairness == WF_vars(Ubus) /\ WF_vars(Monitor) /\ WF_vars(Reader)
FairSpec == Spec /\ Fairness
-------------------------------------------------------------------------------
(* Properties                                                              *)

TypeOK ==
    /\ ports \subseteq DOMAIN insts
    /\ ports_mutex \in Threads \cup {None} /\ present \in BOOLEAN
    /\ \A i \in DOMAIN insts : /\ insts[i].open \in BOOLEAN /\ insts[i].epoch \in Nat
                               /\ insts[i].reader \in {0} \cup DOMAIN readers
                               /\ insts[i].lifecycle \in Threads \cup {None}
    /\ \A t \in Threads : cur[t] \in {0} \cup DOMAIN insts
    /\ \A r \in DOMAIN readers : readers[r].inst \in DOMAIN insts

\* "only one response reader on an AT port": two reader threads never run on the
\* device at the same time, whichever thread reopened it.
OneReader == Cardinality({r \in DOMAIN readers : readers[r].alive}) <= 1

\* ... and indeed they do not before the close method is used, although the ubus
\* thread and the monitor both reopen the port and failed openings destroy it.
OneReaderUntilClose == closed \/ OneReader

\* A thread that runs does so on an instance that exists, as long as the close
\* method is not used.
NoUseAfterFree ==
    closed \/
        /\ \A r \in DOMAIN readers : readers[r].alive => ~insts[readers[r].inst].freed
        /\ pc["monitor"] \in {"open", "reopen", "close", "closing"} => ~Inst("monitor").freed

\* An open port is read: the flag is not left behind by a reader that ended for
\* another reason than that it is being replaced.
OpenIsRead ==
    \A i \in ports : insts[i].open /\ insts[i].lifecycle = None =>
        insts[i].reader # 0 /\ readers[insts[i].reader].alive

\* Nobody waits for a lock or a reader for ever: methods return and the monitor's
\* rounds end.  (The cleanup at the end of the daemon does not: it holds the lock
\* that it waits for.)
ThreadsReturn ==
    /\ pc["ubus"] # "idle" /\ op # "shutdown" ~> pc["ubus"] = "idle"
    /\ pc["monitor"] # "idle" ~> pc["monitor"] = "idle"
===============================================================================
