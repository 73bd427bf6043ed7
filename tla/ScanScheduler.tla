----------------------------- MODULE ScanScheduler -----------------------------
(***************************************************************************)
(* The event scheduler of modem_scand.c: the main thread turns client      *)
(* requests (hotplug, LuCI, init scripts) into queued events, a pool of    *)
(* worker threads runs them against the UCI configuration.                 *)
(*                                                                         *)
(* A step is a critical section of queue_lock, a config_lock transaction   *)
(* or the work between two of them.  Time is the delay an event has left;  *)
(* what a probe finds out about the hardware is a nondeterministic result. *)
(***************************************************************************)
EXTENDS Integers, Sequences, FiniteSets

CONSTANTS
    Slots,          \* USB and PCIe slots; the slot names its UCI section
    Owner,          \* Owner[s]: PCIe slot that lists s as associated_usb, or s
    ScanSection,    \* the resource "scan:all"
    Workers,        \* scan_workers threads
    RetryMax,       \* add_retry_max
    RetryDelay,     \* add_retry_delay
    Delays,         \* delays a client asks for
    MaxRequests     \* bound: requests served

ASSUME SlotAssumption == ScanSection \notin Slots /\ Owner \in [Slots -> Slots]
ASSUME TimeAssumption == RetryMax \in Nat /\ RetryDelay \in Nat /\ Delays \subseteq Nat
ASSUME BoundAssumption == MaxRequests \in Nat

VARIABLES
    queue,              \* the list at g.queue_head, ordered by not_before
    generation,         \* slot_generation(section)
    active_resources,   \* sections a worker is busy with
    active_keys,        \* keys of the events workers are busy with
    pc, job, found,     \* per worker: where it is, its event, slots left to add
    conf, fixed,        \* UCI: state per section, sections with fixed_device
    modem_count,        \* UCI: qmodem.main.modem_count
    stop, main,         \* g.stop and where main() is
    requests,           \* requests served
    \* history: per slot, the last request, the last one that was queued (and
    \* not cancelled since), and the last one a worker found current
    latest, accepted, handled

queueVars == <<queue, generation>>
activeVars == <<active_resources, active_keys>>
workerVars == <<pc, job, found>>
confVars == <<conf, fixed, modem_count>>
mainVars == <<stop, main, requests>>
history == <<latest, accepted, handled>>
vars == <<queueVars, activeVars, workerVars, confVars, mainVars, history>>

Sections == Slots \cup {ScanSection}
SlotTypes == {"add", "remove", "disable"}
NoJob == [type |-> "none", section |-> ScanSection, wait |-> 0, attempts |-> 0,
          generation |-> 0]

Init ==
    /\ queue = <<>>
    /\ generation = [s \in Sections |-> 0]
    /\ active_resources = {} /\ active_keys = {}
    /\ pc = [w \in Workers |-> "looking"]
    /\ job = [w \in Workers |-> NoJob]
    /\ found = [w \in Workers |-> {}]
    /\ conf = [s \in Slots |-> "absent"]
    /\ fixed = {}
    /\ modem_count = 0
    /\ stop = FALSE /\ main = "accepting" /\ requests = 0
    /\ latest = [s \in Slots |-> "none"]
    /\ accepted = [s \in Slots |-> "none"]
    /\ handled = [s \in Slots |-> "none"]

-------------------------------------------------------------------------------
(* The queue                                                               *)

\* event_key
Key(e) == <<e.type, e.section>>

\* queue_has_key
HasKey(q, key) == \E i \in DOMAIN q : Key(q[i]) = key

\* the n-th smallest member of I, and what is left of q at the positions I
Nth(I, n) == CHOOSE i \in I : Cardinality({k \in I : k <= i}) = n
Keep(q, I) == [n \in 1..Cardinality(I) |-> q[Nth(I, n)]]

\* queue_remove_pending_add_for_slot
WithoutAdds(q, s) == Keep(q, {i \in DOMAIN q : Key(q[i]) # <<"add", s>>})

\* the events the insertion walks past: they are due no later than e
Ahead(q, e) == {i \in DOMAIN q : \A j \in 1..i : q[j].wait <= e.wait}

\* mutant: the events behind the new one are cut off
Mut_Insert(q, e) == Append(SubSeq(q, 1, Cardinality(Ahead(q, e))), e)

\* insertion behind the events that are due no later
Insert(q, e) ==
    LET n == Cardinality(Ahead(q, e))
    IN  Append(SubSeq(q, 1, n), e) \o SubSeq(q, n + 1, Len(q))

\* the event at position i leaves the list
Unlink(q, i) == SubSeq(q, 1, i - 1) \o SubSeq(q, i + 1, Len(q))

\* pthread_cond_signal and pthread_cond_broadcast on queue_cond
Sleeping == {w \in Workers : pc[w] \in {"waiting", "timedwait"}}
Wake(ws) == [w \in Workers |-> IF w \in ws THEN "looking" ELSE pc[w]]
Signalled == IF Sleeping = {} THEN {{}} ELSE {{w} : w \in Sleeping}

\* a disable cancels the adds of its slot before anything else is decided
AfterCancel(type, s) == IF type = "disable" THEN WithoutAdds(queue, s) ELSE queue

\* the event is already queued, or is running and would only be repeated
Duplicate(type, s, attempts) ==
    \/ HasKey(AfterCancel(type, s), <<type, s>>)
    \/ attempts = 0 /\ type # "add" /\ <<type, s>> \in active_keys

\* a retry whose event is no longer the current one of its section
Outdated(s, attempts, current) ==
    attempts # 0 /\ current.generation # generation[s]

\* enqueue_event_ex under queue_lock, on the section s the request resolved to;
\* current is the event of the calling worker, if any, which continues at label
EnqueueEventEx(type, s, delay, attempts, current, callers, label) ==
    LET refused == Duplicate(type, s, attempts) \/ Outdated(s, attempts, current)
        g == IF attempts = 0 THEN generation[s] + 1 ELSE generation[s]
        e == [type |-> type, section |-> s, wait |-> delay, attempts |-> attempts,
              generation |-> g]
        q == AfterCancel(type, s)
    IN  /\ queue' = IF refused THEN q ELSE Insert(q, e)
        /\ generation' = IF refused THEN generation
                                    ELSE [generation EXCEPT ![s] = g]
        /\ \E ws \in IF refused THEN {{}} ELSE Signalled :
              pc' = [w \in Workers |-> IF w \in callers THEN label ELSE Wake(ws)[w]]
        /\ IF s \in Slots /\ attempts = 0
           THEN /\ latest' = [latest EXCEPT ![s] = type]
                /\ accepted' = [accepted EXCEPT ![s] =
                                  IF ~refused THEN type
                                  ELSE IF q # queue THEN "none" ELSE @]
           ELSE UNCHANGED <<latest, accepted>>

-------------------------------------------------------------------------------
(* The main thread                                                         *)

\* handle_client: add and disable resolve an associated USB slot to its owner,
\* remove takes the section as it is.  The loop leaves after a signal only when
\* accept() returns, which takes another client.
HandleClient ==
    /\ main = "accepting" /\ requests < MaxRequests
    /\ requests' = requests + 1
    /\ \/ \E type \in {"add", "disable"}, s \in Slots, d \in Delays :
             EnqueueEventEx(type, Owner[s], d, 0, NoJob, {}, "")
       \/ \E s \in Slots, d \in Delays :
             EnqueueEventEx("remove", s, d, 0, NoJob, {}, "")
       \/ \E d \in Delays :
             EnqueueEventEx("scan", ScanSection, d, 0, NoJob, {}, "")
    /\ main' = IF stop THEN "leaving" ELSE main
    /\ UNCHANGED <<activeVars, job, found, confVars, stop, handled>>

\* sig_handler sets stop and broadcasts without the lock: a worker that has
\* just tested stop may go to sleep after the broadcast
SigHandler ==
    /\ ~stop
    /\ stop' = TRUE
    /\ \E ws \in SUBSET Sleeping : pc' = Wake(ws)
    /\ UNCHANGED <<queueVars, activeVars, job, found, confVars, main, requests,
                   history>>

\* after the accept loop: broadcast again, now under the lock, then join
LeaveLoop ==
    /\ main = "leaving"
    /\ main' = "joining"
    /\ pc' = Wake(Workers \cap Sleeping)
    /\ UNCHANGED <<queueVars, activeVars, job, found, confVars, stop, requests,
                   history>>

\* a second passes: not_before - time(NULL) of the queued events
Tick ==
    /\ \E i \in DOMAIN queue : queue[i].wait > 0
    /\ queue' = [i \in DOMAIN queue |->
                    [queue[i] EXCEPT !.wait = IF @ > 0 THEN @ - 1 ELSE 0]]
    /\ UNCHANGED <<generation, activeVars, workerVars, confVars, mainVars, history>>

-------------------------------------------------------------------------------
(* dequeue_event                                                           *)

\* mutant: sections other workers are busy with are not skipped
Mut_Eligible(i) == queue[i].wait = 0

Eligible(i) == queue[i].wait = 0 /\ queue[i].section \notin active_resources

\* the first event that is due and whose section is idle
Take(w) ==
    /\ pc[w] = "looking" /\ ~stop
    /\ \E i \in DOMAIN queue :
          /\ Eligible(i) /\ \A j \in 1..(i - 1) : ~Eligible(j)
          /\ job' = [job EXCEPT ![w] = queue[i]]
          /\ queue' = Unlink(queue, i)
          /\ active_resources' = active_resources \cup {queue[i].section}
          /\ active_keys' = active_keys \cup {Key(queue[i])}
    /\ pc' = [pc EXCEPT ![w] = "taken"]
    /\ UNCHANGED <<generation, found, confVars, mainVars, history>>

\* mutant: a worker waits for a signal although events are queued
Mut_Sleep(w) ==
    /\ pc[w] = "looking" /\ ~stop
    /\ \A i \in DOMAIN queue : ~Eligible(i)
    /\ pc' = [pc EXCEPT ![w] = "waiting"]
    /\ UNCHANGED <<queueVars, activeVars, job, found, confVars, mainVars, history>>

\* pthread_cond_wait on an empty queue, pthread_cond_timedwait otherwise
Sleep(w) ==
    /\ pc[w] = "looking" /\ ~stop
    /\ \A i \in DOMAIN queue : ~Eligible(i)
    /\ pc' = [pc EXCEPT ![w] = IF queue = <<>> THEN "waiting" ELSE "timedwait"]
    /\ UNCHANGED <<queueVars, activeVars, job, found, confVars, mainVars, history>>

TimeOut(w) ==
    /\ pc[w] = "timedwait"
    /\ pc' = [pc EXCEPT ![w] = "looking"]
    /\ UNCHANGED <<queueVars, activeVars, job, found, confVars, mainVars, history>>

Exit(w) ==
    /\ pc[w] = "looking" /\ stop
    /\ pc' = [pc EXCEPT ![w] = "exited"]
    /\ UNCHANGED <<queueVars, activeVars, job, found, confVars, mainVars, history>>

-------------------------------------------------------------------------------
(* worker_thread and process_event                                         *)

\* event_current
Current(w) == job[w].generation = generation[job[w].section]

Goto(w, label) == pc' = [pc EXCEPT ![w] = label]

\* the check under queue_lock before process_event
CheckCurrent(w) ==
    /\ pc[w] = "taken"
    /\ Goto(w, IF Current(w) THEN job[w].type ELSE "finishing")
    /\ handled' = IF Current(w) /\ job[w].section \in Slots
                  THEN [handled EXCEPT ![job[w].section] = job[w].type]
                  ELSE handled
    /\ UNCHANGED <<queueVars, activeVars, job, found, confVars, mainVars, latest,
                   accepted>>

\* add_modem up to detect_profile: a fixed device is skipped, otherwise the
\* slot has a network device, a valid AT port and a known profile, or not yet
Probe(w) ==
    /\ pc[w] = "add"
    /\ IF job[w].section \in fixed THEN Goto(w, "finishing")
       ELSE \E label \in {"commit", "retry"} : Goto(w, label)
    /\ UNCHANGED <<queueVars, activeVars, job, found, confVars, mainVars, history>>

\* mutant: the transaction does not look at the generation again
Mut_CommitAdd(w) ==
    /\ pc[w] = "commit"
    /\ LET s == job[w].section
       IN  /\ conf' = [conf EXCEPT ![s] = "enabled"]
           /\ modem_count' = IF conf[s] = "absent" THEN modem_count + 1
                                                   ELSE modem_count
    /\ Goto(w, "finishing")
    /\ UNCHANGED <<queueVars, activeVars, job, found, fixed, mainVars, history>>

\* the rest of add_modem: currency is tested again and the section written
\* while queue_lock and config_lock are both held
CommitAdd(w) ==
    /\ pc[w] = "commit"
    /\ LET s == job[w].section
       IN  /\ conf' = IF Current(w) THEN [conf EXCEPT ![s] = "enabled"] ELSE conf
           /\ modem_count' = IF Current(w) /\ conf[s] = "absent"
                             THEN modem_count + 1 ELSE modem_count
    /\ Goto(w, "finishing")
    /\ UNCHANGED <<queueVars, activeVars, job, found, fixed, mainVars, history>>

\* process_event: a failed add is queued again, at most RetryMax times
Retry(w) ==
    /\ pc[w] = "retry"
    /\ IF job[w].attempts < RetryMax
       THEN EnqueueEventEx("add", Owner[job[w].section], RetryDelay,
                           job[w].attempts + 1, job[w], {w}, "finishing")
       ELSE Goto(w, "finishing") /\ UNCHANGED <<queueVars, latest, accepted>>
    /\ UNCHANGED <<activeVars, job, found, confVars, mainVars, handled>>

\* remove_modem: an unknown section is ignored, and the section stays if the
\* dialer cannot be stopped
StopDialer(w) ==
    /\ pc[w] = "remove"
    /\ \E label \in {"delete", "finishing"} :
          /\ conf[job[w].section] = "absent" => label = "finishing"
          /\ Goto(w, label)
    /\ UNCHANGED <<queueVars, activeVars, job, found, confVars, mainVars, history>>

DeleteSection(w) ==
    /\ pc[w] = "delete"
    /\ modem_count' = IF modem_count > 0 THEN modem_count - 1 ELSE 0
    /\ conf' = [conf EXCEPT ![job[w].section] = "absent"]
    /\ fixed' = fixed \ {job[w].section}
    /\ Goto(w, "finishing")
    /\ UNCHANGED <<queueVars, activeVars, job, found, mainVars, history>>

\* disable_slot; uci set fails on a section that does not exist
DisableSlot(w) ==
    /\ pc[w] = "disable"
    /\ conf' = [conf EXCEPT ![job[w].section] =
                   IF @ = "absent" THEN @ ELSE "disabled"]
    /\ Goto(w, "finishing")
    /\ UNCHANGED <<queueVars, activeVars, job, found, fixed, modem_count, mainVars,
                   history>>

\* scan_pcie_all, scan_usb_all: the slots found in sysfs ...
Enumerate(w) ==
    /\ pc[w] = "scan"
    /\ \E ss \in SUBSET Slots : found' = [found EXCEPT ![w] = ss]
    /\ Goto(w, "adding")
    /\ UNCHANGED <<queueVars, activeVars, job, confVars, mainVars, history>>

\* ... are queued one by one
AddFound(w) ==
    /\ pc[w] = "adding"
    /\ \E s \in found[w] :
          /\ found' = [found EXCEPT ![w] = @ \ {s}]
          /\ EnqueueEventEx("add", Owner[s], 0, 0, job[w], {w}, "adding")
    /\ UNCHANGED <<activeVars, job, confVars, mainVars, handled>>

AllFoundAdded(w) ==
    /\ pc[w] = "adding" /\ found[w] = {}
    /\ Goto(w, "finishing")
    /\ UNCHANGED <<queueVars, activeVars, job, found, confVars, mainVars, history>>

\* finish_event_key: the section and the key are free again, everyone looks
Finish(w) ==
    /\ pc[w] = "finishing"
    /\ active_resources' = active_resources \ {job[w].section}
    /\ active_keys' = active_keys \ {Key(job[w])}
    /\ pc' = [Wake(Sleeping) EXCEPT ![w] = "looking"]
    /\ job' = [job EXCEPT ![w] = NoJob]
    /\ UNCHANGED <<queueVars, found, confVars, mainVars, history>>

\* external: a user marks a discovered modem as fixed_device in LuCI
SetFixed ==
    /\ \E s \in Slots \ fixed : conf[s] # "absent" /\ fixed' = fixed \cup {s}
    /\ UNCHANGED <<queueVars, activeVars, workerVars, conf, modem_count, mainVars,
                   history>>

-------------------------------------------------------------------------------
Look(w) == Take(w) \/ Sleep(w) \/ Exit(w)
Process(w) == \/ CheckCurrent(w) \/ Probe(w) \/ CommitAdd(w) \/ Retry(w)
              \/ StopDialer(w) \/ DeleteSection(w) \/ DisableSlot(w)
              \/ Enumerate(w) \/ AddFound(w) \/ AllFoundAdded(w) \/ Finish(w)

Next == \/ HandleClient \/ SigHandler \/ LeaveLoop \/ Tick \/ SetFixed
        \/ \E w \in Workers : Look(w) \/ TimeOut(w) \/ Process(w)

Spec == Init /\ [][Next]_vars

\* Threads that can run do run, sleeps time out, the clock goes on; nothing
\* obliges a client to connect.
Fairness ==
    /\ WF_vars(Tick) /\ WF_vars(LeaveLoop)
    /\ \A w \in Workers : WF_vars(Look(w)) /\ WF_vars(TimeOut(w))
                            /\ WF_vars(Process(w))

FairSpec == Spec /\ Fairness
-------------------------------------------------------------------------------
(* Properties                                                              *)

Labels == {"looking", "waiting", "timedwait", "taken", "add", "remove", "disable",
           "scan", "commit", "retry", "delete", "adding", "finishing", "exited"}
Event == [type : SlotTypes \cup {"scan"}, section : Sections, wait : Nat,
          attempts : 0..RetryMax, generation : Nat]

TypeOK ==
    /\ queue \in Seq(Event)
    /\ generation \in [Sections -> Nat]
    /\ active_resources \subseteq Sections
    /\ active_keys \subseteq ((SlotTypes \cup {"scan"}) \X Sections)
    /\ pc \in [Workers -> Labels]
    /\ job \in [Workers -> Event \cup {NoJob}]
    /\ found \in [Workers -> SUBSET Slots]
    /\ conf \in [Slots -> {"absent", "enabled", "disabled"}]
    /\ fixed \subseteq Slots /\ modem_count \in Nat
    /\ stop \in BOOLEAN /\ main \in {"accepting", "leaving", "joining"}
    /\ requests \in 0..MaxRequests
    /\ latest \in [Slots -> SlotTypes \cup {"none"}]
    /\ accepted \in [Slots -> SlotTypes \cup {"none"}]
    /\ handled \in [Slots -> SlotTypes \cup {"none"}]

Busy(w) == pc[w] \notin {"looking", "waiting", "timedwait", "exited"}

\* Two workers are never busy with the same section, whatever the types of their
\* events: what add_modem, remove_modem and disable_slot do between taking an
\* event and finishing it cannot interleave for one section.  An add or a disable of a
\* USB slot has the section of the PCIe slot that owns it, a remove its own.
SlotSerialized ==
    \A v, w \in Workers :
        Busy(v) /\ Busy(w) /\ job[v].section = job[w].section => v = w

Idle(s) == /\ \A i \in DOMAIN queue : queue[i].section # s
           /\ \A w \in Workers : Busy(w) => job[w].section # s

\* When a slot has come to rest, the event that ran last is the last one that was
\* queued for it: no older add, and no retry of one, runs after a newer request,
\* and the newer request itself is not skipped as stale.
QueuedRequestWins ==
    \A s \in Slots : Idle(s) /\ accepted[s] # "none" => handled[s] = accepted[s]

\* "latest add wins": when a slot has come to rest and the last request for it
\* was an add, then the event that ran last was an add.
LatestAddWins ==
    \A s \in Slots : Idle(s) /\ latest[s] = "add" => handled[s] = "add"

\* A section is written as enabled only while an add is the last request queued
\* for it: a disable or remove that arrives during the probing stops the commit.
NoStaleCommit ==
    [][\A s \in Slots : conf[s] # "enabled" /\ conf'[s] = "enabled"
                            => accepted[s] # "disable" /\ accepted[s] # "remove"]_vars

\* modem_count counts the sections, although add and remove read and write it in
\* transactions of different workers.
ModemCount == modem_count = Cardinality({s \in Slots : conf[s] # "absent"})

\* Every queued event is run or cancelled and every worker comes to rest, with
\* one signal per event, untimed waits on an empty queue and busy sections.
QueueDrains == []<>(stop \/ (queue = <<>> /\ \A w \in Workers : ~Busy(w)))

\* Once main() is joining, all workers exit: no worker sleeps through shutdown.
WorkersExit == main = "joining" ~> \A w \in Workers : pc[w] = "exited"
===============================================================================
