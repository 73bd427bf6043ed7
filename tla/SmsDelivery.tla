------------------------------ MODULE SmsDelivery ------------------------------
(***************************************************************************)
(* Forwarding of received SMS: the deliveries table of qmodem-smsd, its    *)
(* delivery_claim and delivery_complete methods, and the one process of    *)
(* sms_forwarder_next that calls them.  The two processes fail             *)
(* independently: the forwarder may die between any two steps, a call or   *)
(* its answer may get lost, a target may fail, and the user may delete a   *)
(* message while it is being forwarded, after which sqlite hands out the   *)
(* rowids again.                                                           *)
(***************************************************************************)
EXTENDS Integers, FiniteSets, FiniteSetsExt

CONSTANTS
    Targets,        \* api_configs of the instance that forwards the modem's SMS
    MaxTexts,       \* bound: messages and revisions published
    MaxFaults       \* bound: crashes, lost calls, failing targets

ASSUME BoundAssumption == MaxTexts \in Nat /\ MaxFaults \in Nat /\ Targets # {}

VARIABLES
    messages,       \* rows: [id, uid, revision]; uid tells rows with one id apart
    deliveries,     \* rows: [id, message, uid, revision, state, late, available]
    pc, claim,      \* the forwarder, and the answer of delivery_claim it works on
    todo, success,  \* targets still to be tried; whether all tried ones succeeded
    texts, faults,
    forwarded       \* history: <<uid, revision, target>>

vars == <<messages, deliveries, pc, claim, todo, success, texts, faults, forwarded>>
dbVars == <<messages, deliveries>>

NoClaim == [delivery |-> 0, uid |-> 0, revision |-> 0]

Init ==
    /\ messages = {} /\ deliveries = {}
    /\ pc = "idle" /\ claim = NoClaim /\ todo = {} /\ success = FALSE
    /\ texts = 0 /\ faults = 0 /\ forwarded = {}

\* INTEGER PRIMARY KEY: one more than the largest id in use
NextId(rows) == IF rows = {} THEN 1 ELSE 1 + Max({r.id : r \in rows})

Fault == faults < MaxFaults /\ faults' = faults + 1

-------------------------------------------------------------------------------
(* qmodem-smsd                                                             *)

\* mutant: one delivery per message, whatever its revision
Mut_QueueDelivery(m) ==
    deliveries' = IF \E d \in deliveries : d.message = m.id THEN deliveries
                  ELSE deliveries \cup
                       {[id |-> NextId(deliveries), message |-> m.id, uid |-> m.uid,
                         revision |-> m.revision, state |-> "pending", late |-> FALSE,
                         available |-> TRUE]}

\* queue_delivery: INSERT OR IGNORE, UNIQUE(message_id,revision)
QueueDelivery(m) ==
    deliveries' = IF \E d \in deliveries : d.message = m.id /\ d.revision = m.revision
                  THEN deliveries
                  ELSE deliveries \cup
                       {[id |-> NextId(deliveries), message |-> m.id, uid |-> m.uid,
                         revision |-> m.revision, state |-> "pending", late |-> FALSE,
                         available |-> TRUE]}

\* publish_group or insert_single_message inserts a row; the modem's forwarding_enabled
\* is on, without it nothing is queued
Publish ==
    /\ texts < MaxTexts
    /\ texts' = texts + 1
    /\ LET m == [id |-> NextId(messages), uid |-> texts + 1, revision |-> 1]
       IN  messages' = messages \cup {m} /\ QueueDelivery(m)
    /\ UNCHANGED <<pc, claim, todo, success, faults, forwarded>>

\* publish_group updates a row with text that came late
Revise ==
    /\ texts < MaxTexts
    /\ texts' = texts + 1
    /\ \E m \in messages :
          LET n == [m EXCEPT !.revision = @ + 1]
          IN  messages' = (messages \ {m}) \cup {n} /\ QueueDelivery(n)
    /\ UNCHANGED <<pc, claim, todo, success, faults, forwarded>>

\* the user or the retention limit deletes a row; ON DELETE CASCADE
Delete ==
    /\ \E m \in messages : /\ messages' = messages \ {m}
                           /\ deliveries' = {d \in deliveries : d.message # m.id}
    /\ UNCHANGED <<pc, claim, todo, success, texts, faults, forwarded>>

\* claimed_at falls behind now - 300
ClaimExpires ==
    /\ \E d \in deliveries :
          /\ d.state = "claimed" /\ ~d.late
          /\ deliveries' = (deliveries \ {d}) \cup {[d EXCEPT !.late = TRUE]}
    /\ UNCHANGED <<messages, pc, claim, todo, success, texts, faults, forwarded>>

\* now reaches available_at
BackoffPasses ==
    /\ \E d \in deliveries :
          /\ d.state = "pending" /\ ~d.available
          /\ deliveries' = (deliveries \ {d}) \cup {[d EXCEPT !.available = TRUE]}
    /\ UNCHANGED <<messages, pc, claim, todo, success, texts, faults, forwarded>>

\* mutant: claims never expire
Mut_Reclaimed == deliveries

\* delivery_claim first returns expired claims to the queue
Reclaimed ==
    {IF d.state = "claimed" /\ d.late
     THEN [d EXCEPT !.state = "pending", !.late = FALSE, !.available = TRUE] ELSE d :
        d \in deliveries}

\* mutant: the update does not ask for state='claimed'
Mut_Completed(id, ok) ==
    {IF d.id = id /\ d.state # "done"
     THEN IF ok THEN [d EXCEPT !.state = "done", !.late = FALSE]
                ELSE [d EXCEPT !.state = "pending", !.late = FALSE, !.available = FALSE]
     ELSE d : d \in deliveries}

\* delivery_complete: done, or pending again after the backoff
Completed(id, ok) ==
    {IF d.id = id /\ d.state = "claimed"
     THEN IF ok THEN [d EXCEPT !.state = "done", !.late = FALSE]
                ELSE [d EXCEPT !.state = "pending", !.late = FALSE, !.available = FALSE]
     ELSE d : d \in deliveries}

-------------------------------------------------------------------------------
(* sms_forwarder_next                                                      *)

\* what delivery_claim reports: the text and revision the message has now
Answer(d, m) == [delivery |-> d.id, uid |-> m.uid, revision |-> m.revision]

\* claimDelivery: the lowest due id is claimed; the answer may get lost
ClaimDelivery ==
    /\ pc = "idle"
    /\ LET due == {d \in Reclaimed : d.state = "pending" /\ d.available}
           d == CHOOSE x \in due : \A y \in due : x.id <= y.id
           m == CHOOSE x \in messages : x.id = d.message
       IN  /\ due # {}
           /\ deliveries' = (Reclaimed \ {d}) \cup {[d EXCEPT !.state = "claimed"]}
           /\ \/ /\ pc' = "forwarding" /\ claim' = Answer(d, m)
                 /\ todo' = Targets /\ success' = TRUE
                 /\ UNCHANGED faults
              \/ Fault /\ UNCHANGED <<pc, claim, todo, success>>
    /\ UNCHANGED <<messages, texts, forwarded>>

\* executeForward: one target after the other, success only if all succeed
Forward(t) ==
    /\ pc = "forwarding" /\ t \in todo
    /\ todo' = todo \ {t}
    /\ \/ /\ forwarded' = forwarded \cup {<<claim.uid, claim.revision, t>>}
          /\ UNCHANGED <<success, faults>>
       \/ Fault /\ success' = FALSE /\ UNCHANGED forwarded
    /\ UNCHANGED <<dbVars, pc, claim, texts>>

\* findInstance knows no instance for the modem: reported as a failure
NoInstance ==
    /\ pc = "forwarding" /\ todo = Targets /\ success
    /\ Fault
    /\ todo' = {} /\ success' = FALSE
    /\ UNCHANGED <<dbVars, pc, claim, texts, forwarded>>

\* completeDelivery: the call reaches smsd or is lost; its answer is only logged
CompleteDelivery ==
    /\ pc = "forwarding" /\ todo = {}
    /\ \/ deliveries' = Completed(claim.delivery, success) /\ UNCHANGED faults
       \/ Fault /\ UNCHANGED deliveries
    /\ pc' = "idle" /\ claim' = NoClaim /\ success' = FALSE
    /\ UNCHANGED <<messages, todo, texts, forwarded>>

\* the process dies and procd starts it again
Crash ==
    /\ pc # "idle" /\ Fault
    /\ pc' = "idle" /\ claim' = NoClaim /\ todo' = {} /\ success' = FALSE
    /\ UNCHANGED <<dbVars, texts, forwarded>>

Forwarder == ClaimDelivery \/ (\E t \in Targets : Forward(t)) \/ CompleteDelivery
Next == \/ Publish \/ Revise \/ Delete \/ ClaimExpires \/ BackoffPasses
        \/ Forwarder \/ NoInstance \/ Crash

Spec == Init /\ [][Next]_vars

\* mainLoop polls for ever, and time passes
Fairness == WF_vars(Forwarder) /\ WF_vars(ClaimExpires) /\ WF_vars(BackoffPasses)
FairSpec == Spec /\ Fairness
-------------------------------------------------------------------------------
(* Properties                                                              *)

TypeOK ==
    /\ \A m, n \in messages : m.id \in Nat /\ (m.id = n.id => m = n)
    /\ \A d, e \in deliveries : d.id \in Nat /\ (d.id = e.id => d = e)
    /\ \A d, e \in deliveries :
          d.message = e.message /\ d.revision = e.revision => d = e
    /\ \A d \in deliveries : /\ d.state \in {"pending", "claimed", "done"}
                             /\ d.late \in BOOLEAN /\ d.available \in BOOLEAN
                             /\ \E m \in messages : m.id = d.message
    /\ pc \in {"idle", "forwarding"} /\ todo \subseteq Targets /\ success \in BOOLEAN
    /\ texts \in 0..MaxTexts /\ faults \in 0..MaxFaults

\* "delivery_complete should report success only after": a delivery is done only if
\* every target took the text it was queued for, or a later one of that message,
\* although a message with the same ids may have been deleted meanwhile.
DoneMeansForwarded ==
    \A d \in deliveries : d.state = "done" =>
        \A t \in Targets : \E f \in forwarded :
            f[1] = d.uid /\ f[2] >= d.revision /\ f[3] = t

\* When nothing is left to do for a message, its current text went to all targets:
\* a revision that arrives while the previous one is on its way is not forgotten.
NewestForwarded ==
    \A m \in messages :
        (\A d \in deliveries : d.message = m.id => d.state = "done")
        => \A t \in Targets : <<m.uid, m.revision, t>> \in forwarded

\* Whatever is queued is forwarded, after crashes, lost calls and failing targets,
\* unless its message is deleted.
QueuedIsForwarded ==
    \A u \in 1..MaxTexts :
        (\E d \in deliveries : d.uid = u /\ d.state # "done")
        ~> ~(\E d \in deliveries : d.uid = u /\ d.state # "done")
===============================================================================
