-------------------------------- MODULE CallState --------------------------------
(***************************************************************************)
(* The call slot of voipd (call_state.c, the call methods, line handlers   *)
(* and call timer of daemon_core.c) with the modem and the stream of AT    *)
(* line events between them.  voipd runs a command and waits for it; the   *)
(* lines of the answer reach it later, in order, as events.  An event      *)
(* carries gap instead of epoch and sequence: lines before it were lost,   *)
(* were not meant for voipd, or belong to an earlier epoch.                *)
(*                                                                         *)
(* The call timer fires a second after it last did.  The main loop reads   *)
(* every event that has come, those of its own commands included, before   *)
(* it looks at the timer again.                                            *)
(***************************************************************************)
EXTENDS Integers, Sequences, FiniteSets

CONSTANTS
    Endpoints,      \* endpoints that originate and answer calls
    IdleClccPoll,   \* profile.idle_clcc_poll
    MaxVoiceCalls,  \* bound: calls, incoming or originated
    MaxQueue,       \* bound: events not yet handled
    MaxTones,       \* bound: DTMF tones
    MaxCallTroubles \* bound: callers that withhold their number, runs of lines not meant for
                    \* voipd, events lost to an overflow, commands of other clients, and
                    \* commands the modem fails

ASSUME EndpointAssumption == "none" \notin Endpoints /\ "cellular" \notin Endpoints
ASSUME ConfigAssumption == IdleClccPoll \in BOOLEAN
ASSUME CallBoundAssumption ==
    {MaxVoiceCalls, MaxQueue, MaxTones, MaxCallTroubles} \subseteq Nat

Setup == {"outgoing_setup", "incoming_ringing", "early_media"}
States == Setup \cup {"disabled", "idle", "active", "terminating", "recovering", "fault"}

VARIABLES
    slot,       \* struct qmodem_voip_call
    modem,      \* its voice call: direction, state and whether the number is withheld
    queue,      \* line events on their way
    unseen,     \* the next event comes after a gap
    reading,    \* the main loop reads events before the timer can fire
    calls, withheld, gaps, lost, foreigns, tones, errors

callBounds == <<calls, withheld, gaps, lost, foreigns, tones, errors>>
callVars == <<slot, modem, queue, unseen, reading, callBounds>>

Troubles == withheld + gaps + lost + foreigns + errors

NoCall == [dir |-> "none", stat |-> "none", empty |-> FALSE]

CallInit ==
    /\ slot = [state |-> "disabled", origin |-> "none", owner |-> "none", started |-> FALSE,
               pending |-> FALSE, id |-> 0, misses |-> 0, idle_poll |-> FALSE,
               idle_at |-> FALSE, synced |-> FALSE]
    /\ modem = NoCall /\ queue = <<>> /\ unseen = FALSE /\ reading = FALSE
    /\ calls = 0 /\ withheld = 0 /\ gaps = 0 /\ lost = 0 /\ foreigns = 0 /\ tones = 0 /\ errors = 0

-------------------------------------------------------------------------------
(* The modem and the event stream (external)                               *)

\* free: the modem had no call when
\* it sent the line
Line(kind, corr, id, v) ==
    [kind |-> kind, corr |-> corr, id |-> id, free |-> v = NoCall,
     stat |-> v.stat, dir |-> v.dir, empty |-> v.empty, gap |-> FALSE]

Queued(q, lines) ==
    q \o [i \in DOMAIN lines |-> [lines[i] EXCEPT !.gap = i = 1 /\ unseen]]

\* a command id that no event and no reconciliation carries
FreshId(c, q) ==
    CHOOSE i \in 1 .. Len(q) + 2 : i # c.id /\ \A k \in DOMAIN q : q[k].id # i

\* what the modem answers to a command, and what the command does to the call
AnswerLines(name, id, v) ==
    LET end == Line("ok", "terminal", id, v)
    IN  IF name = "CLCC" /\ v # NoCall
        THEN <<Line("clcc", "response", id, v), end>> ELSE <<end>>

Error(id) == Line("error", "terminal", id, modem)

Effect(name, v) ==
    CASE name = "ATD" -> [dir |-> "out", stat |-> "dialing", empty |-> FALSE]
      [] name = "ATA" -> [v EXCEPT !.stat = "active"]
      [] name = "CHUP" -> NoCall
      [] OTHER -> v

\* commands the modem does not accept
Refused(name) ==
    \/ name = "ATD" /\ modem # NoCall
    \/ name = "ATA" /\ modem.stat # "incoming"

ModemFails == Troubles < MaxCallTroubles /\ errors' = errors + 1

\* run_at: the adapter repeats a command that is not answered OK, three times at
\* most, before it fails (~ok).  c and q are the call and the queue it finds.
Command(name, c, q, ok) ==
    LET id == FreshId(c, q)
        error == <<Error(id)>>
    IN  \/ /\ ok /\ ~Refused(name)
           /\ \/ queue' = Queued(q, AnswerLines(name, id, modem)) /\ UNCHANGED errors
              \/ /\ ModemFails
                 /\ queue' = Queued(q, error \o AnswerLines(name, FreshId(c, q \o error), modem))
           /\ modem' = Effect(name, modem) /\ unseen' = FALSE
        \/ /\ ~ok
           /\ IF Refused(name) THEN UNCHANGED errors ELSE ModemFails
           /\ queue' \in {q, Queued(q, error)}
           /\ unseen' = (unseen /\ queue' = q)
           /\ UNCHANGED modem

Room == Len(queue) + 2 <= MaxQueue

Emit(kind, corr, id) ==
    /\ Len(queue) < MaxQueue
    /\ queue' = Queued(queue, <<Line(kind, corr, id, modem')>>)
    /\ unseen' = FALSE

\* a call comes in
Incoming ==
    /\ modem = NoCall /\ calls < MaxVoiceCalls
    /\ calls' = calls + 1
    /\ \E w \in BOOLEAN :
           /\ w => Troubles < MaxCallTroubles
           /\ withheld' = withheld + (IF w THEN 1 ELSE 0)
           /\ modem' = [dir |-> "in", stat |-> "incoming", empty |-> w]
    /\ Emit("ring", "idle", 0)
    /\ UNCHANGED <<slot, reading, gaps, lost, foreigns, tones, errors>>

\* the other side is alerted or answers, or ends the call
RemoteAccepts ==
    /\ \E s \in {"alerting", "active"} :
           /\ modem.stat \in {"dialing", "alerting"} \ {s}
           /\ modem' = [modem EXCEPT !.stat = s]
    /\ UNCHANGED <<slot, queue, unseen, reading, callBounds>>

RemoteEnds ==
    /\ modem # NoCall
    /\ modem' = NoCall
    /\ Emit("release", "idle", 0)
    /\ UNCHANGED <<slot, reading, callBounds>>

\* lines without an event for voipd: idle lines that are not registered for it, or not
\* any more, the one that ends a call perhaps among them
Unseen ==
    /\ Troubles < MaxCallTroubles
    /\ gaps' = gaps + 1
    /\ modem' \in {modem, NoCall}
    /\ unseen' = TRUE
    /\ UNCHANGED <<slot, queue, reading, calls, withheld, lost, foreigns, tones, errors>>

\* the event after the first one shows the gap
WithGap(q) == IF q = <<>> THEN q ELSE [q EXCEPT ![1].gap = TRUE]

\* the ring overflows and loses its oldest line
Lose ==
    /\ Troubles < MaxCallTroubles /\ queue # <<>>
    /\ lost' = lost + 1
    /\ queue' = WithGap(Tail(queue))
    /\ unseen' = (unseen \/ queue' = <<>>)
    /\ reading' = (reading /\ queue' # <<>>)
    /\ UNCHANGED <<slot, modem, calls, withheld, gaps, foreigns, tones, errors>>

\* another client's command is answered OK
ForeignLine ==
    /\ Troubles < MaxCallTroubles
    /\ foreigns' = foreigns + 1
    /\ UNCHANGED modem
    /\ Emit("ok", "terminal", FreshId(slot, queue))
    /\ UNCHANGED <<slot, reading, calls, withheld, gaps, lost, tones, errors>>

-------------------------------------------------------------------------------
(* Methods                                                                 *)

Faulted(c) == [c EXCEPT !.state = "fault"]

\* a command that fails leaves a fault
Issue(name, c, q) ==
    \/ slot' = c /\ Command(name, c, q, TRUE)
    \/ slot' = Faulted(c) /\ Command(name, c, q, FALSE)

Method(name, c) ==
    /\ Room /\ Issue(name, c, queue)
    /\ UNCHANGED <<reading, withheld, gaps, lost, foreigns, tones>>

OriginateCall(e) ==
    /\ slot.state = "idle" /\ calls < MaxVoiceCalls
    /\ calls' = calls + 1
    /\ Method("ATD", [slot EXCEPT !.state = "outgoing_setup", !.origin = e, !.owner = "none",
                                  !.started = TRUE, !.misses = 0])

\* mutant: a call that is already answered can be answered again
Mut_Answerable(c) == c.state \in {"incoming_ringing", "early_media", "active"}

\* the first answer wins
Answerable(c) == c.owner = "none" /\ c.state \in {"incoming_ringing", "early_media"}

AnswerCall(e) ==
    /\ Answerable(slot)
    /\ Method("ATA", [slot EXCEPT !.state = "active", !.owner = e, !.started = TRUE])
    /\ UNCHANGED calls

\* hangup, and reject while it rings
Terminate ==
    /\ slot.state \notin {"idle", "disabled", "terminating"}
    /\ Method("CHUP", [slot EXCEPT !.state = "terminating"])
    /\ UNCHANGED calls

\* only an endpoint of the call sends tones; a tone that fails leaves the call alone
SendDtmf(e) ==
    /\ slot.state = "active" /\ e \in {slot.origin, slot.owner} /\ tones < MaxTones
    /\ tones' = tones + 1
    /\ Room /\ \E ok \in BOOLEAN : Command("VTS", slot, queue, ok)
    /\ UNCHANGED <<slot, reading, calls, withheld, gaps, lost, foreigns>>

\* enable_method, activation_timer: the call is unknown until a snapshot shows it
EnableMethod ==
    /\ slot.state = "disabled" /\ Room
    /\ LET c == [slot EXCEPT !.state = "recovering", !.pending = TRUE, !.id = 0]
       IN  \/ slot' = c /\ Command("CLCC", c, queue, TRUE)
           \/ slot' = [c EXCEPT !.state = "disabled", !.pending = FALSE]
              /\ Command("CLCC", c, queue, FALSE)
    /\ UNCHANGED <<reading, calls, withheld, gaps, lost, foreigns, tones>>

DisableMethod ==
    /\ slot.state # "disabled"
    /\ slot' = [slot EXCEPT !.state = "disabled", !.origin = "none", !.owner = "none",
                            !.started = FALSE, !.pending = FALSE]
    /\ UNCHANGED <<modem, queue, unseen, reading, callBounds>>

-------------------------------------------------------------------------------
(* qmodem_voip_line                                                        *)

Reconciled(c) == [c EXCEPT !.pending = FALSE, !.id = 0]

\* clear_call
Cleared(c) == [c EXCEPT !.state = "idle", !.origin = "none", !.owner = "none",
                        !.started = FALSE, !.misses = 0]

\* lines before this one are missing
HasGap(e) == slot.synced /\ e.gap

\* the end of the reconciliation; of any command, as long as no line of the
\* reconciliation was seen
Correlated(c, e) ==
    c.pending /\ e.corr = "terminal" /\ e.id # 0 /\ c.id \in {0, e.id}

\* mutant: one snapshot without the call is enough
Mut_Missed(c) == TRUE

\* the second snapshot in a row that does not show the call
Missed(c) == c.misses + 1 >= 2

OnOk(c) ==
    LET d == Reconciled([c EXCEPT !.idle_poll = FALSE])
    IN  CASE c.idle_poll /\ c.state = "idle" -> d
          [] c.state \in Setup \cup {"active"} /\ ~Missed(c) -> [d EXCEPT !.misses = @ + 1]
          [] OTHER -> Cleared(d)

OnError(c) == Reconciled([c EXCEPT !.idle_poll = FALSE])

\* a +CLCC that counts as the answer to the reconciliation
Snapshot(c, e) == c.pending /\ e.id # 0 /\ e.corr \in {"response", "terminal"}

\* an entry without a number in that answer
Phantom(c, e) == Snapshot(c, e) /\ c.id \in {0, e.id} /\ e.empty

Ignored(c, e) == c.pending /\ ~Snapshot(c, e)

\* A +CLCC line of a voice call; the modem lists one.  The line of a data call only sets
\* the id, like an entry without a number.
OnClcc(c, e) ==
    LET a == IF Snapshot(c, e) /\ c.id = 0 THEN [c EXCEPT !.id = e.id] ELSE c
        b == IF ~c.started /\ e.dir = "in"
             THEN [a EXCEPT !.origin = "cellular", !.started = TRUE] ELSE a
        d == [b EXCEPT !.pending = FALSE, !.misses = 0]
        to(s) == [d EXCEPT !.idle_poll = FALSE, !.state = s]
    IN  CASE Ignored(c, e) -> c
          [] Phantom(c, e) -> a
          [] ~Ignored(c, e) /\ ~Phantom(c, e) ->
             CASE c.state = "terminating" -> Reconciled(d)
               [] c.state # "terminating" /\ e.stat = "active" ->
                  [to("active") EXCEPT !.started = TRUE]
               [] c.state # "terminating" /\ e.stat = "dialing" -> to("outgoing_setup")
               [] c.state # "terminating" /\ e.stat = "alerting" -> to("early_media")
               [] c.state # "terminating" /\ e.stat = "incoming" ->
                  to(IF c.owner = "none" \/ c.state # "active"
                     THEN "incoming_ringing" ELSE "active")

\* a call that should be ending is still there
HangupAgain(c, e) ==
    e.kind = "clcc" /\ c.state = "terminating" /\ ~Ignored(c, e) /\ ~Phantom(c, e)

OnRing(c) ==
    IF c.state # "idle" THEN c
    ELSE [c EXCEPT !.state = "incoming_ringing", !.origin = "cellular", !.owner = "none",
                   !.started = TRUE]

Handled(c, e) ==
    CASE e.kind = "error" -> IF Correlated(c, e) THEN OnError(c) ELSE c
      [] e.kind = "ok" -> IF Correlated(c, e) THEN OnOk(c) ELSE c
      [] e.kind = "clcc" -> OnClcc(c, e)
      [] e.kind = "ring" -> OnRing(c)
      [] e.kind = "release" -> Cleared(c)

\* event_gap: the state is unknown until a snapshot shows it
OnGap(c) == [c EXCEPT !.state = "recovering", !.pending = TRUE, !.id = 0]

\* at_line_event, at_urc_event: an event that comes while voipd is disabled is
\* not even counted, so that the next one shows a gap
LineEvent ==
    /\ queue # <<>>
    /\ LET e == Head(queue)
           rest == Tail(queue)
           c == IF HasGap(e) THEN OnGap(slot) ELSE [slot EXCEPT !.synced = TRUE]
           d == Handled(c, e)
       IN  CASE slot.state = "disabled" ->
                  /\ queue' = WithGap(rest) /\ unseen' = (unseen \/ rest = <<>>)
                  /\ UNCHANGED <<slot, modem, errors>>
             [] slot.state # "disabled" /\ HasGap(e) -> Issue("CLCC", d, rest)
             [] slot.state # "disabled" /\ HangupAgain(c, e) /\ ~HasGap(e) ->
                  Issue("CHUP", d, rest)
             [] OTHER -> slot' = d /\ queue' = rest /\ UNCHANGED <<modem, unseen, errors>>
    /\ reading' = (queue' # <<>>)
    /\ UNCHANGED <<calls, withheld, gaps, lost, foreigns, tones>>

-------------------------------------------------------------------------------
(* qmodem_voip_call_timer                                                  *)

Timer ==
    /\ ~reading /\ Room
    /\ reading' = (queue' # <<>>)
    /\ UNCHANGED <<calls, withheld, gaps, lost, foreigns, tones>>

PollSetup ==
    /\ slot.state \in Setup /\ ~slot.pending
    /\ Issue("CLCC", [slot EXCEPT !.pending = TRUE, !.id = 0], queue)
    /\ Timer

\* mutant: a call that is ending is not polled
Mut_Polled == {"active"}

Polled == {"active", "terminating"}

\* a poll that fails is forgotten
PollActive ==
    /\ slot.state \in Polled /\ ~slot.pending
    /\ LET c == [slot EXCEPT !.pending = TRUE, !.id = 0]
       IN  \/ slot' = c /\ Command("CLCC", c, queue, TRUE)
           \/ slot' = Reconciled(c) /\ Command("CLCC", c, queue, FALSE)
    /\ Timer

\* the first poll goes through the adapter, the next ones straight to the AT
\* daemon, once and without waiting; one without an end is given up after 5 s
PollIdle ==
    /\ IdleClccPoll /\ slot.state = "idle" /\ (slot.pending => slot.idle_poll)
    /\ LET c == [slot EXCEPT !.pending = TRUE, !.id = 0, !.idle_poll = TRUE, !.idle_at = FALSE]
           id == FreshId(c, queue)
       IN  \/ slot' = c /\ Command("CLCC", c, queue, TRUE)
           \/ slot' = OnError(c) /\ Command("CLCC", c, queue, FALSE)
           \/ /\ ModemFails /\ slot' = c /\ UNCHANGED modem
              /\ queue' = Queued(queue, <<Error(id)>>) /\ unseen' = FALSE
           \/ /\ ModemFails /\ slot' = [c EXCEPT !.idle_at = TRUE]
              /\ UNCHANGED <<modem, queue, unseen>>
    /\ Timer

\* idle_at_complete: the AT daemon reports that the idle poll failed
IdleAtFailed ==
    /\ slot.idle_at
    /\ slot' = LET c == [slot EXCEPT !.idle_at = FALSE]
               IN  IF c.idle_poll THEN OnError(c) ELSE c
    /\ UNCHANGED <<modem, queue, unseen, reading, callBounds>>

-------------------------------------------------------------------------------
CallTimer == PollSetup \/ PollActive \/ PollIdle
Remote == Incoming \/ RemoteAccepts \/ RemoteEnds
User ==
    \/ Terminate \/ EnableMethod \/ DisableMethod
    \/ \E e \in Endpoints : OriginateCall(e) \/ AnswerCall(e) \/ SendDtmf(e)

CallNext ==
    \/ Remote \/ Unseen \/ Lose \/ ForeignLine
    \/ User \/ LineEvent \/ CallTimer \/ IdleAtFailed

CallSpec == CallInit /\ [][CallNext]_callVars

\* the main loop handles events and fires its timer
CallFairness == WF_callVars(LineEvent) /\ WF_callVars(CallTimer)
FairCallSpec == CallSpec /\ CallFairness
-------------------------------------------------------------------------------
(* Properties                                                              *)

\* The record of the call and the bound on misses.
CallTypeOK ==
    /\ slot.state \in States /\ slot.misses \in 0 .. 1
    /\ slot.origin \in Endpoints \cup {"none", "cellular"}
    /\ slot.owner \in Endpoints \cup {"none"}
    /\ {slot.pending, slot.started, slot.idle_poll, slot.idle_at, slot.synced,
        unseen, reading}
           \subseteq BOOLEAN
    /\ modem.stat \in {"none", "dialing", "alerting", "incoming", "active"}

\* "the first browser or LAN SIP answer wins atomically": the answer owner of a
\* call is never replaced by another, through gaps, recovery and faults.
OwnerKept == [][slot.owner # "none" => slot'.owner \in {slot.owner, "none"}]_callVars

\* An event makes voipd give up a call in setup or in progress only if the modem
\* had none when it sent the line: neither the end of another command nor a poll
\* that crosses the start of the call releases it, as long as it is the first call,
\* its number is shown, no lines are hidden, no other client sends commands and none
\* fails.
NoFalseRelease ==
    [][/\ calls <= 1 /\ Troubles = 0 /\ LineEvent
       /\ slot.state \in Setup \cup {"active"} /\ slot'.state = "idle"
       => Head(queue).free]_callVars

\* When the modem has no call any more, voipd does not keep one: it learns of the
\* end from a line or a poll, unless a line was lost: a recovery is not polled.  A
\* fault waits for the user, and so does a recovery that awaits no snapshot.
CallEndNoticed ==
    []<>(\/ modem # NoCall \/ lost > 0
         \/ slot.state \in {"idle", "disabled", "fault"}
         \/ slot.state = "recovering" /\ ~slot.pending)
===============================================================================
