--------------------------- MODULE SubscriberStream ---------------------------
(***************************************************************************)
(* What ubus-at-daemon promises a subscriber of "qmodem.at.line".  A port  *)
(* that keeps its instance is a stream of numbered lines that is delivered *)
(* in order, nothing twice, however often the port is reopened, and that   *)
(* may have holes.  As long as every port keeps its instance, no hole is   *)
(* visible before the loss counter that covers it has been delivered.      *)
(*                                                                         *)
(* A port that was closed over ubus and opened again is not covered: its   *)
(* new instance numbers from the start, with epochs already used, and a    *)
(* subscriber cannot tell its lines from old ones.                         *)
(***************************************************************************)
EXTENDS Naturals

CONSTANTS Ports,        \* AT port paths
          MaxSequence,  \* bound: largest sequence of a port
          MaxEpoch      \* bound: largest restart epoch of a port

VARIABLES last,         \* last[p]: epoch and sequence of p's latest delivered line
          missed,       \* lines skipped so far, of ports with their first instance
          announced,    \* largest drop_count delivered so far
          renewed       \* ports whose instance is not the first one any more

vars == <<last, missed, announced, renewed>>

Init ==
    /\ last = [p \in Ports |-> [epoch |-> 0, sequence |-> 0]]
    /\ missed = 0
    /\ announced = 0
    /\ renewed = {}

\* The subscriber is handed line s of port p, read in epoch e of the port, after
\* a hole of s - last[p].sequence - 1 lines.
Deliver(p, e, s) ==
    /\ p \notin renewed
    /\ last' = [last EXCEPT ![p] = [epoch |-> e, sequence |-> s]]
    /\ missed' = missed + (s - last[p].sequence - 1)
    /\ announced' >= announced
    /\ renewed = {} => announced' >= missed'
    /\ UNCHANGED renewed

\* The port is closed over ubus and opened again.
Renew(p) ==
    /\ renewed' = renewed \cup {p}
    /\ UNCHANGED <<last, missed, announced>>

\* A line of a port that was opened again may have any number.
DeliverRenewed(p) ==
    /\ p \in renewed
    /\ \A q \in Ports \ {p} : last'[q] = last[q]
    /\ announced' >= announced
    /\ UNCHANGED <<missed, renewed>>

Next ==
    \E p \in Ports :
        \/ \E e \in last[p].epoch..MaxEpoch, s \in (last[p].sequence + 1)..MaxSequence :
              Deliver(p, e, s)
        \/ Renew(p)
        \/ DeliverRenewed(p)

Spec == Init /\ [][Next]_vars
===============================================================================
