------------------------------ MODULE LineEvents ------------------------------
(***************************************************************************)
(* The line-event queue of ubus-at-daemon (line_events.c): one reader      *)
(* thread per AT port numbers every line it reads and appends it to one    *)
(* bounded ring; the uloop thread is woken through a non-blocking pipe and *)
(* publishes the entries, at most Budget of them per wake-up.              *)
(*                                                                         *)
(* A step is a critical section of queue->mutex (or of event_state_mutex), *)
(* a pipe operation or one publication, so every interleaving of readers   *)
(* and consumer between two of these is covered.  The text of a line is    *)
(* abstracted away: only whether it is too long for an entry matters here. *)
(***************************************************************************)
EXTENDS Integers, Sequences, FiniteSets

CONSTANTS
    Ports,          \* AT port paths, one reader thread each
    Capacity,       \* AT_LINE_QUEUE_CAPACITY
    Budget,         \* AT_LINE_EVENT_DRAIN_BUDGET
    PipeSize,       \* bytes the notify pipe holds before write() says EAGAIN
    MaxLines,       \* bound: lines read per port
    MaxReopens,     \* bound: times a port is reopened
    Renewable       \* bound: ports that are closed over ubus and opened again, once

\* AT_LINE_QUEUE_CAPACITY is 256 and the drain budget 64; a queue of one entry
\* would overwrite the entry that carries the loss marker.
ASSUME CapacityAssumption == Capacity \in Nat /\ Capacity >= 2
ASSUME PortsAssumption == IsFiniteSet(Ports)
ASSUME BudgetAssumption == Budget \in Nat \ {0}
ASSUME PipeAssumption == PipeSize \in Nat \ {0}
ASSUME BoundsAssumption ==
    MaxLines \in Nat /\ MaxReopens \in Nat /\ Renewable \subseteq Ports

VARIABLES
    queue,          \* entries[head .. head+count-1]
    drop_count,     \* queue->drop_count
    pending,        \* queue->pending_drop_count
    pipe,           \* bytes in the notify pipe
    epoch,          \* port->restart_epoch, 0 when the instance was first opened
    sequence,       \* port->line_sequence
    renewed,        \* ports whose instance is not the first one any more
    reader,         \* what a reader thread is doing in at_line_event_enqueue
    line,           \* the line it is enqueuing: [epoch, sequence, oversized]
    consumer,       \* what the uloop thread is doing in at_line_events_consume
    event,          \* the entry the consumer copied out
    published,      \* entries published in this wake-up
    \* what a subscriber has seen of the stream
    last,           \* epoch and sequence of the last line published for a port
    missed,         \* lines skipped by the sequences published so far, of ports
                    \* that have their first instance
    announced       \* largest drop_count published so far

queueVars == <<queue, drop_count, pending>>
readerVars == <<epoch, sequence, renewed, reader, line>>
consumerVars == <<consumer, event, published>>
seenVars == <<last, missed, announced>>
vars == <<queueVars, pipe, readerVars, consumerVars, seenVars>>

Entry == [port : Ports, epoch : Nat, sequence : Nat, drop_count : Nat]
NoLine == [epoch |-> 0, sequence |-> 0, oversized |-> FALSE]

\* at_line_events_init, with the port instances created and opened
Init ==
    /\ queue = <<>>
    /\ drop_count = 0
    /\ pending = 0
    /\ pipe = 0
    /\ epoch = [p \in Ports |-> 0]
    /\ sequence = [p \in Ports |-> 0]
    /\ renewed = {}
    /\ reader = [p \in Ports |-> "reading"]
    /\ line = [p \in Ports |-> NoLine]
    /\ consumer = "polling"
    \* an uninitialised local of at_line_events_consume
    /\ event \in [port : Ports, epoch : {0}, sequence : {0}, drop_count : {0}]
    /\ published = 0
    /\ last = [p \in Ports |-> [epoch |-> 0, sequence |-> 0]]
    /\ missed = 0
    /\ announced = 0

-------------------------------------------------------------------------------
(* Reader threads: at_line_event_enqueue                                   *)

\* at_port_next_line_event_state, under event_state_mutex
NextLineEventState(p) ==
    /\ reader[p] = "reading"
    /\ sequence[p] < MaxLines
    /\ sequence' = [sequence EXCEPT ![p] = @ + 1]
    /\ \E oversized \in BOOLEAN :
          line' = [line EXCEPT ![p] = [epoch |-> epoch[p],
                                       sequence |-> sequence[p] + 1,
                                       oversized |-> oversized]]
    /\ reader' = [reader EXCEPT ![p] = "numbered"]
    /\ UNCHANGED <<queueVars, pipe, epoch, renewed, consumerVars, seenVars>>

\* mutant: an oversized line is skipped without being counted
Mut_DropOversized(p) ==
    /\ reader[p] = "numbered"
    /\ line[p].oversized
    /\ reader' = [reader EXCEPT ![p] = "reading"]
    /\ line' = [line EXCEPT ![p] = NoLine]
    /\ UNCHANGED <<queueVars, pipe, epoch, sequence, renewed, consumerVars, seenVars>>

\* line_len >= MAX_AT_LINE_SIZE: the line is counted as lost, nobody is woken
DropOversized(p) ==
    /\ reader[p] = "numbered"
    /\ line[p].oversized
    /\ drop_count' = drop_count + 1
    /\ pending' = drop_count'
    /\ reader' = [reader EXCEPT ![p] = "reading"]
    /\ line' = [line EXCEPT ![p] = NoLine]
    /\ UNCHANGED <<queue, pipe, epoch, sequence, renewed, consumerVars, seenVars>>

NewEntry(p, drops) ==
    [port |-> p, epoch |-> line[p].epoch, sequence |-> line[p].sequence,
     drop_count |-> drops]

\* the ring has room: the new entry takes over the pending loss report
Append_(p) ==
    /\ reader[p] = "numbered"
    /\ ~line[p].oversized
    /\ Len(queue) < Capacity
    /\ queue' = Append(queue, NewEntry(p, pending))
    /\ pending' = 0
    /\ reader' = [reader EXCEPT ![p] = "enqueued"]
    /\ UNCHANGED <<drop_count, pipe, epoch, sequence, renewed, line, consumerVars, seenVars>>

\* mutant: the successor of the lost entry is not marked
Mut_OverwriteUnmarked(p) ==
    /\ reader[p] = "numbered"
    /\ ~line[p].oversized
    /\ Len(queue) = Capacity
    /\ drop_count' = drop_count + 1
    /\ pending' = drop_count'
    /\ queue' = Append(Tail(queue), NewEntry(p, 0))
    /\ reader' = [reader EXCEPT ![p] = "enqueued"]
    /\ UNCHANGED <<pipe, epoch, sequence, renewed, line, consumerVars, seenVars>>

\* entries[head].drop_count = drop_count
Mark(q, drops) == [q EXCEPT ![1].drop_count = drops]

\* the ring is full: the oldest entry is lost and its successor reports it
Overwrite(p) ==
    /\ reader[p] = "numbered"
    /\ ~line[p].oversized
    /\ Len(queue) = Capacity
    /\ drop_count' = drop_count + 1
    /\ pending' = drop_count'
    /\ queue' = Append(Mark(Tail(queue), drop_count'), NewEntry(p, 0))
    /\ reader' = [reader EXCEPT ![p] = "enqueued"]
    /\ UNCHANGED <<pipe, epoch, sequence, renewed, line, consumerVars, seenVars>>

\* write() to the pipe; EAGAIN on a full pipe is ignored
WriteNotification == pipe' = IF pipe < PipeSize THEN pipe + 1 ELSE pipe

NotifyConsumer(p) ==
    /\ reader[p] = "enqueued"
    /\ WriteNotification
    /\ reader' = [reader EXCEPT ![p] = "reading"]
    /\ line' = [line EXCEPT ![p] = NoLine]
    /\ UNCHANGED <<queueVars, epoch, sequence, renewed, consumerVars, seenVars>>

\* open_at_port, after the old reader thread was joined, starts a new epoch;
\* the sequence goes on
AdvanceRestartEpoch(p) ==
    /\ reader[p] = "reading"
    /\ epoch[p] < MaxReopens
    /\ epoch' = [epoch EXCEPT ![p] = @ + 1]
    /\ UNCHANGED <<queueVars, pipe, sequence, renewed, reader, line, consumerVars,
                   seenVars>>

\* The ubus "close" destroys the instance and the next "open" creates another one
\* for the same path: epoch and sequence start over, what the old instance has
\* queued is still published
RecreateInstance(p) ==
    /\ reader[p] = "reading"
    /\ p \in Renewable \ renewed
    /\ renewed' = renewed \cup {p}
    /\ epoch' = [epoch EXCEPT ![p] = 0]
    /\ sequence' = [sequence EXCEPT ![p] = 0]
    /\ UNCHANGED <<queueVars, pipe, reader, line, consumerVars, seenVars>>

-------------------------------------------------------------------------------
(* The uloop thread: publish_line_events -> at_line_events_consume         *)

\* the pipe is readable: read it empty
DrainPipe ==
    /\ consumer = "polling"
    /\ pipe > 0
    /\ pipe' = 0
    /\ published' = 0
    /\ consumer' = "draining"
    /\ UNCHANGED <<queueVars, readerVars, event, seenVars>>

\* mutant: any marked entry clears the pending report, even an outdated one
Mut_Dequeue ==
    /\ consumer = "draining"
    /\ published < Budget
    /\ queue # <<>>
    /\ event' = Head(queue)
    /\ queue' = Tail(queue)
    /\ pending' = IF event'.drop_count # 0 THEN 0 ELSE pending
    /\ consumer' = "publishing"
    /\ UNCHANGED <<drop_count, pipe, readerVars, published, seenVars>>

\* mutant: the last entry of the budget is not taken
Mut_DequeueBudget ==
    /\ consumer = "draining"
    /\ published + 1 < Budget
    /\ queue # <<>>
    /\ event' = Head(queue)
    /\ queue' = Tail(queue)
    /\ pending' = IF event'.drop_count # 0 /\ event'.drop_count = drop_count
                  THEN 0 ELSE pending
    /\ consumer' = "publishing"
    /\ UNCHANGED <<drop_count, pipe, readerVars, published, seenVars>>

\* at_line_event_dequeue, called while the budget lasts
Dequeue ==
    /\ consumer = "draining"
    /\ published < Budget
    /\ queue # <<>>
    /\ event' = Head(queue)
    /\ queue' = Tail(queue)
    /\ pending' = IF event'.drop_count # 0 /\ event'.drop_count = drop_count
                  THEN 0 ELSE pending
    /\ consumer' = "publishing"
    /\ UNCHANGED <<drop_count, pipe, readerVars, published, seenVars>>

\* publish_line_event: the "qmodem.at.line" event reaches the subscribers
Publish ==
    /\ consumer = "publishing"
    /\ last' = [last EXCEPT ![event.port] = [epoch |-> event.epoch,
                                             sequence |-> event.sequence]]
    /\ missed' = IF event.port \in renewed THEN missed
                 ELSE missed + (event.sequence - last[event.port].sequence - 1)
    /\ announced' = IF event.drop_count > announced THEN event.drop_count
                                                    ELSE announced
    /\ published' = published + 1
    /\ consumer' = "draining"
    /\ UNCHANGED <<queueVars, pipe, readerVars, event>>

\* the budget is spent, or at_line_event_dequeue found the ring empty
StopDraining ==
    /\ consumer = "draining"
    /\ published = Budget \/ queue = <<>>
    /\ consumer' = "checking"
    /\ UNCHANGED <<queueVars, pipe, readerVars, event, published, seenVars>>

\* mutant: the pipe is not rearmed when the budget ran out
Mut_CheckRemaining ==
    /\ consumer = "checking"
    /\ consumer' = "polling"
    /\ UNCHANGED <<queueVars, pipe, readerVars, event, published, seenVars>>

\* has_remaining is read under the mutex, which is released before the write
CheckRemaining ==
    /\ consumer = "checking"
    /\ consumer' = IF queue = <<>> THEN "polling" ELSE "rearming"
    /\ UNCHANGED <<queueVars, pipe, readerVars, event, published, seenVars>>

Rearm ==
    /\ consumer = "rearming"
    /\ WriteNotification
    /\ consumer' = "polling"
    /\ UNCHANGED <<queueVars, readerVars, event, published, seenVars>>

-------------------------------------------------------------------------------
Read(p) == NextLineEventState(p) \/ AdvanceRestartEpoch(p) \/ RecreateInstance(p)
Enqueue(p) == DropOversized(p) \/ Append_(p) \/ Overwrite(p) \/ NotifyConsumer(p)
Consume == DrainPipe \/ Dequeue \/ Publish \/ StopDraining \/ CheckRemaining \/ Rearm

Next == (\E p \in Ports : Read(p) \/ Enqueue(p)) \/ Consume

Spec == Init /\ [][Next]_vars

\* A reader thread finishes what it started and uloop serves a readable pipe;
\* nothing obliges the modem to send another line.
Fairness == WF_vars(Consume) /\ \A p \in Ports : WF_vars(Enqueue(p))

FairSpec == Spec /\ Fairness
-------------------------------------------------------------------------------
(* Properties                                                              *)

TypeOK ==
    /\ queue \in Seq(Entry) /\ Len(queue) <= Capacity
    /\ drop_count \in Nat /\ pending \in Nat
    /\ pipe \in 0..PipeSize
    /\ epoch \in [Ports -> Nat] /\ sequence \in [Ports -> Nat]
    /\ renewed \subseteq Ports
    /\ reader \in [Ports -> {"reading", "numbered", "enqueued"}]
    /\ line \in [Ports -> [epoch : Nat, sequence : Nat, oversized : BOOLEAN]]
    /\ consumer \in {"polling", "draining", "publishing", "checking", "rearming"}
    /\ event \in Entry /\ published \in 0..Budget
    /\ last \in [Ports -> [epoch : Nat, sequence : Nat]]
    /\ missed \in Int /\ announced \in Nat

\* While an entry waits, somebody still has to look at the ring: a byte is in
\* the pipe, the consumer is inside its loop (or about to rearm), or a reader
\* that enqueued has yet to write the pipe.  The pipe is drained before the ring
\* and a failed write is ignored, so this is what makes both harmless.
NoLostWakeup ==
    queue # <<>> => \/ pipe > 0
                    \/ consumer # "polling"
                    \/ \E p \in Ports : reader[p] = "enqueued"

\* The latest loss is never forgotten: its count was published, or travels with
\* an entry (queued or just dequeued), or is still pending for the next entry.
\* Three places write the pending count and two clear it.
NoLossForgotten ==
    drop_count > announced =>
        \/ pending = drop_count
        \/ \E i \in 1..Len(queue) : queue[i].drop_count = drop_count
        \/ consumer = "publishing" /\ event.drop_count = drop_count

\* the lines of all ports up to the sequences n
UpTo(n) == {l \in Ports \X (1..MaxLines) : l[2] <= n[l[1]]}

InFlight == Cardinality({p \in Ports : reader[p] = "numbered"})
                + Len(queue) + (IF consumer = "publishing" THEN 1 ELSE 0)

\* Every numbered line is in exactly one place: lost (and counted), in flight,
\* or published for its port, where the subscriber can only count the holes.
\* Numbers identify lines until create_port_instance gives them out again.
EveryLineAccounted ==
    renewed = {} =>
        Cardinality(UpTo(sequence)) + missed
            = Cardinality(UpTo([p \in Ports |-> last[p].sequence])) + drop_count + InFlight

\* The queue keeps the promise of SubscriberStream: in order per port that has its
\* first instance, and no hole visible before the drop_count that covers it until
\* an instance was created anew.
Stream == INSTANCE SubscriberStream WITH MaxSequence <- MaxLines,
                                     MaxEpoch <- MaxReopens
StreamPromise == Stream!Spec

\* A line that was enqueued does not stay in the ring: with the readers and the
\* uloop thread running, the ring is empty again and again.
RingDrains == []<>(queue = <<>>)
===============================================================================
