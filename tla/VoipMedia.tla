------------------------------- MODULE VoipMedia -------------------------------
(***************************************************************************)
(* Who may use the audio of a call: the browser's WebSocket, an RTP peer   *)
(* or a local socket peer attach to the one media engine of the voip       *)
(* daemon, while the call moves on, ends and is followed by the next one,  *)
(* and the capture thread fills the engine's queue.  A frame is the number *)
(* of the call it was recorded in.  Every operation of the daemon is a     *)
(* function on the record m of its media state, as in the code, where each *)
(* takes the structures it works on.                                       *)
(***************************************************************************)
EXTENDS Integers, Sequences, FiniteSets

CONSTANTS
    Peers,          \* slots for socket peers
    SessionIds,     \* random ids of socket sessions
    Login,          \* a session of the web interface, which attaches too
    RtpSessions,    \* session numbers that callers of attach_rtp choose
    QueueFrames,    \* QMODEM_VOIP_MEDIA_QUEUE_FRAMES
    MaxCalls,       \* bound: calls
    MaxRevision,    \* bound: revisions of the call
    MaxTokens,      \* bound: tokens that wait to be used
    MaxTroubles     \* bound: expired tokens and sessions, failed binds, commands, engines,
                    \* and the steps that early and shared record

ASSUME QueueAssumption == QueueFrames \in Nat \ {0}

VARIABLES
    call,           \* [state, browser, answered, rev, id, fresh]: browser if it
                    \* originated or answered, fresh if clear_call has run since call id
    m,              \* the media state, see Init
    hold,           \* frame the capture thread has read and is about to queue, 0 if none
    troubles,
    early,          \* history: "minted" once a session was minted outside a call,
                    \* "attached" once a peer attached outside one, "no" before
    shared          \* history: an owner attached under the number of another one

vars == <<call, m, hold, troubles, early, shared>>

InMedia(c) == c.state \in {"setup", "early", "active"}
Over(c) == c.state \in {"idle", "terminating", "disabled", "fault"}

Init ==
    /\ call = [state |-> "disabled", browser |-> FALSE, answered |-> FALSE, rev |-> 1,
               id |-> 0, fresh |-> TRUE]
    /\ m = [ready |-> FALSE, session |-> 0, owner |-> "none", capture |-> FALSE,
            down |-> <<>>, up |-> <<>>,                     \* the engine
            listener |-> FALSE, rev |-> 0, attached |-> FALSE, tokens |-> {}, \* browser
            wsCall |-> 0,                                   \* history: call of the client
            rtp |-> FALSE,
            server |-> FALSE, sessions |-> {},
            peer |-> [p \in Peers |-> "closed"],            \* socket
            peerCall |-> [p \in Peers |-> 0]]              \* history: call of its session
    /\ hold = 0 /\ troubles = 0 /\ early = "no" /\ shared = FALSE

Trouble == troubles < MaxTroubles /\ troubles' = troubles + 1
Stray(happens) == IF happens THEN Trouble ELSE UNCHANGED troubles
-------------------------------------------------------------------------------
(* The engine                                                              *)

\* qmodem_voip_media_queue_push: the oldest frame makes room
Push(q, frame) ==
    Append(IF Len(q) = QueueFrames THEN Tail(q) ELSE q, frame)

\* mutant: any caller takes the engine over
Mut_MayAttach(s, session) == s.ready

\* qmodem_voip_media_attach: a session keeps others out
MayAttach(s, session) == s.ready /\ session # 0 /\ s.session \in {0, session}
Attach(s, session, owner) == [s EXCEPT !.session = session, !.owner = owner]

\* mutant: the queues keep what is in them
Mut_Detach(s) == [s EXCEPT !.session = 0, !.owner = "none", !.capture = FALSE]

\* qmodem_voip_media_detach
Detach(s) == [s EXCEPT !.session = 0, !.owner = "none", !.capture = FALSE,
                       !.down = <<>>, !.up = <<>>]

\* qmodem_voip_rtp_release
RtpRelease(s) == IF s.rtp THEN [Detach(s) EXCEPT !.rtp = FALSE] ELSE s

Attached(s) == {p \in Peers : s.peer[p] = "attached"}

\* qmodem_voip_media_socket_release
SocketRelease(s) ==
    LET d == IF Attached(s) # {} THEN Detach(s) ELSE s
    IN  [d EXCEPT !.sessions = {}, !.peerCall = [p \in Peers |-> 0],
                  !.peer = [p \in Peers |-> IF p \in Attached(s) THEN "open" ELSE s.peer[p]]]

\* qmodem_voip_media_socket_stop
SocketStop(s) ==
    LET d == IF Attached(s) # {} THEN Detach(s) ELSE s
    IN  [d EXCEPT !.server = FALSE, !.peer = [p \in Peers |-> "closed"],
                  !.peerCall = [p \in Peers |-> 0]]

\* mutant: tokens are left to expire
Mut_ResetCall(s) ==
    LET d == IF s.owner = "browser" THEN Detach(s) ELSE s
    IN  [d EXCEPT !.attached = FALSE, !.wsCall = 0, !.rev = 0, !.down = <<>>, !.up = <<>>]

\* qmodem_voip_browser_media_reset_call
ResetCall(s) ==
    LET d == IF s.owner = "browser" THEN Detach(s) ELSE s
    IN  [d EXCEPT !.attached = FALSE, !.wsCall = 0, !.rev = 0, !.tokens = {}, !.down = <<>>, !.up = <<>>]

\* qmodem_voip_browser_media_stop
BrowserStop(s) == [ResetCall(s) EXCEPT !.listener = FALSE]

\* qmodem_voip_media_sync: the listener lives as long as the engine, its context as
\* long as the browser's call
Sync(s, c) ==
    IF ~s.ready THEN IF s.listener THEN BrowserStop(s) ELSE s
    ELSE LET r == IF s.listener THEN s ELSE [s EXCEPT !.listener = TRUE, !.rev = 0]
         IN  IF InMedia(c) /\ c.browser THEN [r EXCEPT !.rev = c.rev]
             ELSE IF r.rev # 0 \/ r.attached THEN ResetCall(r) ELSE r

\* qmodem_voip_publish_event: what a change of the call does to its media
Publish(s, c) ==
    LET on == IF c.state \in {"early", "active"} THEN [s EXCEPT !.capture = TRUE] ELSE s
        off == IF Over(c) THEN [SocketRelease(RtpRelease(on)) EXCEPT !.capture = FALSE] ELSE on
    IN  Sync(off, c)
-------------------------------------------------------------------------------
(* The call                                                                *)

\* a change of the call and its publication; a call starts when a cleared one leaves idle
Change(state, browser, answered, s) ==
    LET starts == call.fresh /\ state \in {"setup", "early", "active", "ringing"}
        clears == state \in {"idle", "disabled"}
        c == [state |-> state, browser |-> browser /\ ~clears,
              answered |-> answered /\ ~clears, rev |-> call.rev + 1,
              id |-> call.id + (IF starts THEN 1 ELSE 0),
              fresh |-> clears \/ (call.fresh /\ ~starts)]
    IN  /\ call.rev < MaxRevision /\ c.id <= MaxCalls
        /\ call' = c /\ m' = Publish(s, c)

Move(state) == Change(state, call.browser, call.answered, m)
Enabled == call.state # "disabled"
Prepared == [m EXCEPT !.capture = FALSE]        \* qmodem_voip_serial_prepare_call

\* action_call, originate: the dial command may fail
Originate ==
    /\ call.state = "idle"
    /\ \E browser \in BOOLEAN :
          \/ Change("setup", browser, FALSE, Prepared) /\ UNCHANGED troubles
          \/ Trouble /\ Change("fault", browser, FALSE, Prepared)
    /\ UNCHANGED <<hold, early, shared>>

\* action_call, answer; one that is refused has prepared the port all the same
Answer ==
    /\ Enabled
    /\ IF call.state \in {"ringing", "early"} /\ ~call.answered
       THEN \E browser \in BOOLEAN :
               Change("active", call.browser \/ browser, TRUE, Prepared)
       ELSE m' = Prepared /\ UNCHANGED call
    /\ UNCHANGED <<hold, troubles, early, shared>>

\* terminate
Hangup ==
    /\ call.state \notin {"idle", "disabled", "terminating"}
    /\ Move("terminating")
    /\ UNCHANGED <<hold, troubles, early, shared>>

\* qmodem_voip_line: a CLCC row names the state of the call ...
Row ==
    /\ Enabled /\ call.state # "terminating"
    /\ \E state \in {"setup", "early", "active", "ringing"} \ {call.state} :
          /\ ~(state = "ringing" /\ call.answered /\ call.state = "active")
          /\ Move(state)
    /\ UNCHANGED <<hold, troubles, early, shared>>

\* ... a release line or an empty list ends it, from whatever state ...
Release ==
    /\ Enabled /\ Move("idle")
    /\ UNCHANGED <<hold, troubles, early, shared>>

\* ... RING and CLIP only publish it, and a gap makes it uncertain
Notice ==
    /\ Enabled
    /\ \/ call.state # "idle" /\ Move(call.state)
       \/ Move("recovering")
    /\ UNCHANGED <<hold, troubles, early, shared>>

\* a command or the serial arm fails
Fault ==
    /\ Enabled /\ Trouble /\ Move("fault")
    /\ UNCHANGED <<hold, early, shared>>

\* activate_runtime: the engine starts empty, the call with a recovery
Enable ==
    /\ call.state = "disabled"
    /\ Change("recovering", FALSE, FALSE, [m EXCEPT !.ready = TRUE])
    /\ UNCHANGED <<hold, troubles, early, shared>>

\* disable_method: release_runtime stops every part and the engine, its thread included
Disable ==
    /\ Enabled
    /\ LET stopped == Detach(SocketStop(RtpRelease(BrowserStop(m))))
       IN  Change("disabled", FALSE, FALSE, [stopped EXCEPT !.ready = FALSE])
    /\ hold' = 0
    /\ UNCHANGED <<troubles, early, shared>>

\* serial_failure: the capture thread or playback loses the modem's port
EngineFails ==
    /\ m.ready /\ Trouble
    /\ m' = [m EXCEPT !.ready = FALSE]
    /\ UNCHANGED <<call, hold, early, shared>>
-------------------------------------------------------------------------------
(* The browser                                                             *)

\* qmodem_voip_media_token_method, bound to the revision the call has now
MediaToken ==
    LET s == Sync(m, call)
    IN  /\ InMedia(call) /\ call.browser /\ s.ready /\ s.listener
        /\ Cardinality(s.tokens) < MaxTokens
        /\ m' = [s EXCEPT !.tokens = @ \cup {[rev |-> call.rev, call |-> call.id]}]
        /\ UNCHANGED <<call, hold, troubles, early, shared>>

\* qmodem_voip_browser_token_consume: what the listener still accepts
Consumable(t) == t.rev <= m.rev

\* browser_callback: a connection is filtered and established in one service pass
Connect ==
    /\ m.listener /\ ~m.attached
    /\ \E t \in m.tokens :
          LET s == [m EXCEPT !.tokens = @ \ {t}]
          IN  m' = IF Consumable(t) /\ MayAttach(s, s.rev)
                   THEN [Attach(s, s.rev, "browser") EXCEPT !.attached = TRUE, !.wsCall = t.call]
                   ELSE s
    /\ LET twice == m'.attached /\ m.session # 0 /\ m.owner # "browser"
       IN  shared' = (shared \/ twice) /\ Stray(twice)
    /\ UNCHANGED <<call, hold, early>>

\* LWS_CALLBACK_CLOSED: the engine is not detached
Closed ==
    /\ m.attached
    /\ m' = [m EXCEPT !.attached = FALSE, !.wsCall = 0]
    /\ UNCHANGED <<call, hold, troubles, early, shared>>

\* expire_tokens, session_expire
Expire ==
    /\ Trouble
    /\ \/ \E t \in m.tokens : m' = [m EXCEPT !.tokens = @ \ {t}]
       \/ \E s \in m.sessions : m' = [m EXCEPT !.sessions = @ \ {s}]
    /\ UNCHANGED <<call, hold, early, shared>>
-------------------------------------------------------------------------------
(* RTP and socket peers                                                    *)

\* the checks of qmodem_voip_rtp_attach_method
RtpAllowed == InMedia(call) /\ m.ready /\ ~m.attached

\* qmodem_voip_rtp_attach: the transport before it is released whatever follows
RtpAttach ==
    /\ RtpAllowed
    /\ LET s == RtpRelease(m)
       IN  \/ /\ \E n \in RtpSessions :
                    m' = IF MayAttach(s, n) THEN [Attach(s, n, "rtp") EXCEPT !.rtp = TRUE] ELSE s
              /\ LET twice == m'.rtp /\ s.session # 0
                 IN  shared' = (shared \/ twice) /\ Stray(twice)
           \/ Trouble /\ m' = s /\ UNCHANGED shared
    /\ UNCHANGED <<call, hold, early>>

RtpReleaseMethod ==
    /\ m.rtp
    /\ m' = RtpRelease(m)
    /\ UNCHANGED <<call, hold, troubles, early, shared>>

Minted == {s.id : s \in m.sessions} \cup {m.session}

\* qmodem_voip_socket_session_method: the state of the call is not looked at
SocketSession ==
    /\ m.ready /\ m.server
    /\ \E id \in SessionIds \ Minted :
          m' = [m EXCEPT !.sessions = @ \cup {[id |-> id, rev |-> call.rev, call |-> call.id]}]
    /\ early' = IF InMedia(call) \/ early = "attached" THEN early ELSE "minted"
    /\ Stray(~InMedia(call))
    /\ UNCHANGED <<call, hold, shared>>

\* channel_accept
PeerConnects(p) ==
    /\ m.server /\ m.peer[p] = "closed"
    /\ m' = [m EXCEPT !.peer[p] = "open"]
    /\ UNCHANGED <<call, hold, troubles, early, shared>>

\* mutant: a session minted for an earlier revision is taken
Mut_Valid(s) == TRUE

\* the revision test and qmodem_voip_media_socket_session_valid
Valid(s) == s.rev = call.rev

\* channel_peer, ATTACH
PeerAttaches(p) ==
    /\ m.peer[p] = "open"
    /\ \E s \in {x \in m.sessions : Valid(x)}
                \cup {[id |-> Login, rev |-> call.rev, call |-> call.id]} :
          /\ MayAttach(m, s.id)
          /\ m' = [Attach(m, s.id, "socket") EXCEPT !.peer[p] = "attached",
                                                    !.peerCall[p] = s.call]
          /\ shared' = (shared \/ m.session = s.id)
          /\ Stray(m.session = s.id \/ ~InMedia(call))
    /\ early' = IF InMedia(call) THEN early ELSE "attached"
    /\ UNCHANGED <<call, hold>>

\* channel_peer, DETACH, end of file or a malformed frame
PeerLeaves(p) ==
    /\ m.peer[p] # "closed"
    /\ \E left \in {"open", "closed"} :
          /\ left = "open" => m.peer[p] = "attached"
          /\ m' = [IF m.peer[p] = "attached" THEN Detach(m) ELSE m EXCEPT
                      !.peer[p] = left, !.peerCall[p] = 0]
    /\ UNCHANGED <<call, hold, troubles, early, shared>>
-------------------------------------------------------------------------------
(* Frames                                                                  *)

\* serial_capture_thread: a frame is read while somebody listens ...
CaptureReads ==
    /\ hold = 0 /\ m.ready /\ m.capture
    /\ hold' = call.id
    /\ UNCHANGED <<call, m, troubles, early, shared>>

\* ... and queued
CapturePushes ==
    /\ hold # 0
    /\ m' = [m EXCEPT !.down = Push(@, hold)] /\ hold' = 0
    /\ UNCHANGED <<call, troubles, early, shared>>

\* somebody attached sends a frame: the WebSocket, a peer, RTP while its call has media
Uplink ==
    /\ m.attached \/ Attached(m) # {} \/ (m.rtp /\ m.ready /\ InMedia(call))
    /\ m' = [m EXCEPT !.up = Push(@, call.id)]
    /\ UNCHANGED <<call, hold, troubles, early, shared>>

\* qmodem_voip_browser_timer: sync, the socket server, and a frame each way
BrowserTimer ==
    /\ Enabled
    /\ LET s == Sync(m, call)
           t == [s EXCEPT !.server = @ \/ s.ready]
           sent == t.down # <<>> /\ (t.attached \/ Attached(t) # {} \/ (m.rtp /\ m.ready /\ InMedia(call)))
           played == t.up # <<>> /\ m.ready
                     /\ \/ call.state = "active" /\ (m.attached \/ Attached(m) # {})
                        \/ m.rtp /\ InMedia(call)
       IN  m' = [t EXCEPT !.down = IF sent THEN Tail(@) ELSE @,
                          !.up = IF played THEN Tail(@) ELSE @]
    /\ UNCHANGED <<call, hold, troubles, early, shared>>

Next ==
    \/ Originate \/ Answer \/ Hangup \/ Row \/ Release \/ Notice \/ Fault
    \/ Enable \/ Disable \/ EngineFails
    \/ MediaToken \/ Connect \/ Closed \/ Expire
    \/ RtpAttach \/ RtpReleaseMethod \/ SocketSession
    \/ \E p \in Peers : PeerConnects(p) \/ PeerAttaches(p) \/ PeerLeaves(p)
    \/ CaptureReads \/ CapturePushes \/ Uplink \/ BrowserTimer

Spec == Init /\ [][Next]_vars
-------------------------------------------------------------------------------
(* Properties                                                              *)

TypeOK ==
    /\ m.owner \in {"none", "browser", "rtp", "socket"}
    /\ m.owner = "none" <=> m.session = 0
    /\ m.rev \in 0..call.rev
    /\ Len(m.down) <= QueueFrames /\ Len(m.up) <= QueueFrames

\* "Only one local media owner may attach to a call": whoever believes it is attached
\* is the one the engine serves, and nobody else believes so.
OneOwner ==
    ~shared =>
        /\ m.attached => m.owner = "browser"
        /\ m.rtp => m.owner = "rtp"
        /\ Attached(m) # {} => m.owner = "socket"
        /\ Cardinality(Attached(m)) <= 1

\* A browser or a socket peer uses the audio of the call its token or session was
\* issued for, however many revisions and calls have gone by since; a session that was
\* minted outside a call opens none.
OwnCallOnly ==
    /\ m.attached => m.wsCall = call.id
    /\ early # "attached" => \A p \in Attached(m) : m.peerCall[p] = call.id

\* "two consecutive calls without ... ownership leaks": the end of a call frees the
\* engine and voids every token and session.
NothingLeft ==
    call.state = "idle" /\ early = "no" /\ ~shared /\ m.ready =>
        m.session = 0 /\ m.tokens = {} /\ m.sessions = {} /\ ~m.attached /\ ~m.rtp

\* The far end never hears what was said in an earlier call.
UplinkOfThisCall ==
    InMedia(call) /\ early = "no" /\ ~shared => \A i \in 1..Len(m.up) : m.up[i] = call.id

\* "Session release clears application queues": no local endpoint hears what was said
\* in an earlier call.
DownlinkOfThisCall ==
    m.owner # "none" => \A i \in 1..Len(m.down) : m.down[i] = call.id
===============================================================================
