---------------------------- MODULE VoipMediaProofs ----------------------------
(* Proofs about the ownership of the media engine *)
EXTENDS VoipMedia, FiniteSetTheorems, TLAPS

\* The fields of the media state that ownership is about, and the record they are in
Fields == {"ready", "session", "owner", "capture", "down", "up", "listener", "rev",
           "attached", "tokens", "wsCall", "rtp", "server", "sessions", "peer", "peerCall"}
MediaState(s) ==
    /\ s = [f \in Fields |-> s[f]]
    /\ s.peer = [p \in Peers |-> s.peer[p]]
    /\ s.attached \in BOOLEAN /\ s.rtp \in BOOLEAN

\* OneOwner without cardinalities, and that the engine is free exactly without a session
Owned(s) ==
    /\ s.owner = "none" <=> s.session = 0
    /\ s.attached => s.owner = "browser"
    /\ s.rtp => s.owner = "rtp"
    /\ Attached(s) # {} => s.owner = "socket"
    /\ \A p, q \in Attached(s) : p = q

Good(s) == MediaState(s) /\ Owned(s)

\* ownership depends on these fields only, and a browser that leaves does not harm it
LEMMA Alike ==
    ASSUME NEW s, Good(s), NEW t, MediaState(t), t.owner = s.owner, t.session = s.session,
           t.attached => s.attached, t.rtp = s.rtp, Attached(t) = Attached(s)
    PROVE  Good(t)
  BY DEF Good, Owned

\* Each operation on the media state keeps ownership: a part that detaches the engine
\* was its owner, so no other part counted on it.
LEMMA DetachGood ==
    ASSUME NEW s, MediaState(s), ~s.attached, ~s.rtp, Attached(s) = {}
    PROVE  Good(Detach(s))
  BY Zenon DEF Good, MediaState, Owned, Detach, Attached, Fields

\* qmodem_voip_rtp_release: an attached RTP session gives the engine back
LEMMA RtpReleaseGood ==
    ASSUME NEW s, Good(s)
    PROVE  Good(RtpRelease(s)) /\ ~RtpRelease(s).rtp
  BY Zenon DEF Good, MediaState, Owned, Detach, RtpRelease, Attached, Fields

\* qmodem_voip_media_socket_release: an attached peer gives the engine back
LEMMA SocketReleaseGood ==
    ASSUME NEW s, Good(s)
    PROVE  Good(SocketRelease(s)) /\ Attached(SocketRelease(s)) = {}
  <1> DEFINE d == IF Attached(s) # {} THEN Detach(s) ELSE s
             ps == [p \in Peers |-> IF p \in Attached(s) THEN "open" ELSE s.peer[p]]
             r == [d EXCEPT !.sessions = {}, !.peerCall = [p \in Peers |-> 0], !.peer = ps]
  <1>1. /\ MediaState(d) /\ d.attached = s.attached /\ d.rtp = s.rtp
        /\ d.owner = IF Attached(s) # {} THEN "none" ELSE s.owner
        /\ d.session = IF Attached(s) # {} THEN 0 ELSE s.session
    BY Zenon DEF Good, MediaState, Detach, Fields
  <1>2. ps = [p \in Peers |-> ps[p]] /\ \A p \in Peers : ps[p] # "attached"
    BY DEF Attached
  <1>3. SocketRelease(s) = r
    BY DEF SocketRelease
  <1> HIDE DEF d, ps
  <1>4. /\ MediaState(r) /\ r.attached = d.attached /\ r.rtp = d.rtp /\ r.peer = ps
        /\ r.owner = d.owner /\ r.session = d.session
    BY <1>1, <1>2, Zenon DEF MediaState, Fields
  <1> HIDE DEF r
  <1>5. Attached(r) = {}
    BY <1>2, <1>4 DEF Attached
  <1>6. Owned(r)
    BY <1>1, <1>4, <1>5 DEF Good, Owned
  <1> QED BY <1>3, <1>4, <1>5, <1>6 DEF Good

\* qmodem_voip_browser_media_reset_call detaches the engine only if the browser owns it
LEMMA ResetCallGood ==
    ASSUME NEW s, Good(s)
    PROVE  Good(ResetCall(s)) /\ ~ResetCall(s).attached
  <1> DEFINE d == IF s.owner = "browser" THEN Detach(s) ELSE s
             r == [d EXCEPT !.attached = FALSE, !.wsCall = 0, !.rev = 0, !.tokens = {},
                            !.down = <<>>, !.up = <<>>]
  <1>1. /\ MediaState(d) /\ d.attached = s.attached /\ d.rtp = s.rtp /\ d.peer = s.peer
        /\ d.owner = IF s.owner = "browser" THEN "none" ELSE s.owner
        /\ d.session = IF s.owner = "browser" THEN 0 ELSE s.session
    BY Zenon DEF Good, MediaState, Detach, Fields
  <1> HIDE DEF d
  <1>2. /\ MediaState(r) /\ r.attached = FALSE /\ r.rtp = d.rtp /\ r.peer = d.peer
        /\ r.owner = d.owner /\ r.session = d.session
    BY <1>1, Zenon DEF MediaState, Fields
  <1>3. ResetCall(s) = r
    BY DEF ResetCall, d
  <1> HIDE DEF r
  <1>4. Attached(r) = Attached(s)
    BY <1>1, <1>2 DEF Attached
  <1>5. Owned(r)
    BY <1>1, <1>2, <1>4 DEF Good, Owned
  <1> QED BY <1>2, <1>3, <1>5 DEF Good

\* the same with the listener closed
LEMMA BrowserStopGood ==
    ASSUME NEW s, Good(s)
    PROVE  Good(BrowserStop(s)) /\ ~BrowserStop(s).attached
  <1> DEFINE r == ResetCall(s)
  <1>1. Good(r) /\ ~r.attached
    BY ResetCallGood
  <1>2. BrowserStop(s) = [r EXCEPT !.listener = FALSE]
    BY DEF BrowserStop
  <1> HIDE DEF r
  <1> QED BY <1>1, <1>2 DEF Good, MediaState, Owned, Attached, Fields

\* qmodem_voip_media_sync: the browser's context follows the call and the engine
LEMMA SyncGood ==
    ASSUME NEW s, Good(s), NEW c
    PROVE  Good(Sync(s, c))
  <1> DEFINE r == IF s.listener THEN s ELSE [s EXCEPT !.listener = TRUE, !.rev = 0]
  <1>1. Good(r)
    BY Zenon DEF Good, MediaState, Owned, Attached, Fields
  <1>2. Good([r EXCEPT !.rev = c.rev])
    <2> HIDE DEF r
    <2> QED BY <1>1 DEF Good, MediaState, Owned, Attached, Fields
  <1>3. Good(ResetCall(r)) /\ Good(BrowserStop(s))
    BY <1>1, ResetCallGood, BrowserStopGood
  <1>4. Sync(s, c) \in {s, BrowserStop(s), r, ResetCall(r), [r EXCEPT !.rev = c.rev]}
    BY DEF Sync
  <1> HIDE DEF r
  <1> QED BY <1>1, <1>2, <1>3, <1>4

\* starting and stopping the capture leaves ownership alone
LEMMA CaptureGood ==
    ASSUME NEW s, Good(s), NEW b
    PROVE  Good([s EXCEPT !.capture = b])
  BY DEF Good, MediaState, Owned, Attached, Fields

\* qmodem_voip_publish_event composes these
LEMMA PublishGood ==
    ASSUME NEW s, Good(s), NEW c
    PROVE  Good(Publish(s, c))
  <1> DEFINE on == IF c.state \in {"early", "active"} THEN [s EXCEPT !.capture = TRUE] ELSE s
             released == SocketRelease(RtpRelease(on))
             off == IF Over(c) THEN [released EXCEPT !.capture = FALSE] ELSE on
  <1>1. Good(on)
    BY CaptureGood
  <1>2. Good(released)
    <2> HIDE DEF on
    <2> QED BY <1>1, RtpReleaseGood, SocketReleaseGood
  <1>3. Good(off)
    <2> HIDE DEF on, released
    <2> QED BY <1>1, <1>2, CaptureGood
  <1>4. Publish(s, c) = Sync(off, c)
    BY DEF Publish
  <1> HIDE DEF off
  <1> QED BY <1>3, <1>4, SyncGood

\* What the stop of the runtime leaves: nobody believes it is attached
LEMMA StoppedGood ==
    ASSUME NEW s, Good(s), NEW b
    PROVE  Good([Detach(SocketStop(RtpRelease(BrowserStop(s)))) EXCEPT !.ready = b])
  <1> DEFINE r == RtpRelease(BrowserStop(s))
             t == SocketStop(r)
             d == Detach(t)
  <1>1. Good(BrowserStop(s)) /\ ~BrowserStop(s).attached
    BY BrowserStopGood
  <1>2. Good(r) /\ ~r.rtp
    BY <1>1, RtpReleaseGood
  <1>3. ~r.attached
    <2> DEFINE u == BrowserStop(s)
    <2>1. MediaState(u) /\ ~u.attached /\ r = RtpRelease(u)
      BY <1>1 DEF Good
    <2> HIDE DEF u, r
    <2> QED BY <2>1 DEF RtpRelease, Detach, MediaState, Fields
  <1>4. MediaState(t) /\ ~t.attached /\ ~t.rtp /\ Attached(t) = {}
    <2> HIDE DEF r
    <2> DEFINE e == IF Attached(r) # {} THEN Detach(r) ELSE r
               ps == [p \in Peers |-> "closed"]
    <2>1. MediaState(e) /\ ~e.attached /\ ~e.rtp
      BY <1>2, <1>3, Zenon DEF Good, MediaState, Detach, Fields
    <2>2. t = [e EXCEPT !.server = FALSE, !.peer = ps, !.peerCall = [p \in Peers |-> 0]]
      BY DEF SocketStop
    <2>3. ps = [p \in Peers |-> ps[p]] /\ \A p \in Peers : ps[p] # "attached"
      OBVIOUS
    <2> HIDE DEF e, t, ps
    <2>4. MediaState(t) /\ t.attached = e.attached /\ t.rtp = e.rtp /\ t.peer = ps
      BY <2>1, <2>2, <2>3, Zenon DEF MediaState, Fields
    <2> QED BY <2>1, <2>3, <2>4 DEF Attached
  <1>5. Good(d)
    <2> HIDE DEF t
    <2> QED BY <1>4, DetachGood
  <1> HIDE DEF d
  <1>6. Good([d EXCEPT !.ready = b])
    BY <1>5 DEF Good, MediaState, Owned, Attached, Fields
  <1> QED BY <1>6 DEF d

\* The inductive invariant: ownership holds until an owner attached under the session
\* number of another one
Inv == shared \in BOOLEAN /\ (~shared => Good(m))

\* at start nobody owns the engine
LEMMA InitInv == Init => Inv
  <1> SUFFICES ASSUME Init PROVE Inv
    OBVIOUS
  <1>1. m = [f \in Fields |-> m[f]]
    BY Zenon DEF Init, Fields
  <1>2. /\ m.peer = [p \in Peers |-> "closed"] /\ m.attached = FALSE /\ m.rtp = FALSE
        /\ m.owner = "none" /\ m.session = 0
    BY DEF Init
  <1> QED BY <1>1, <1>2, Zenon DEF Init, Inv, Good, MediaState, Owned, Attached

\* every change of the call keeps the invariant
LEMMA ChangeGood ==
    ASSUME NEW state, NEW browser, NEW answered, NEW s, Good(s),
           Change(state, browser, answered, s)
    PROVE  Good(m')
  <1>1. PICK c : m' = Publish(s, c)
    BY DEF Change
  <1> QED BY <1>1, PublishGood

\* the invariant is inductive
LEMMA NextInv == Inv /\ [Next]_vars => Inv'
  <1> SUFFICES ASSUME Inv, [Next]_vars PROVE Inv'
    OBVIOUS
  <1>0. CASE shared = TRUE
    BY <1>0, Zenon DEF Inv, Next, vars, Originate, Answer, Hangup, Row, Release, Notice, Fault, Enable,
       Disable, EngineFails, MediaToken, Connect, Closed, Expire, RtpAttach, RtpReleaseMethod,
       SocketSession, PeerConnects, PeerAttaches, PeerLeaves, CaptureReads, CapturePushes,
       Uplink, BrowserTimer
  <1>1. CASE shared = FALSE
    <2>0. Good(m)
      BY <1>1 DEF Inv
    <2> SUFFICES shared' \in BOOLEAN /\ (~shared' => Good(m'))
      BY DEF Inv, Good, MediaState, Owned, Attached
    <2>p. Good(Prepared)
      BY <2>0, CaptureGood DEF Prepared
    <2>1. CASE Originate
      BY <1>1, <2>1, <2>p, ChangeGood, Zenon DEF Originate
    <2>2. CASE Answer
      BY <1>1, <2>2, <2>p, ChangeGood, Zenon DEF Answer
    <2>3. CASE Hangup
      BY <1>1, <2>3, <2>0, ChangeGood, Zenon DEF Hangup, Move
    <2>4. CASE Row
      BY <1>1, <2>4, <2>0, ChangeGood, Zenon DEF Row, Move
    <2>5. CASE Release
      BY <1>1, <2>5, <2>0, ChangeGood, Zenon DEF Release, Move
    <2>6. CASE Notice
      BY <1>1, <2>6, <2>0, ChangeGood, Zenon DEF Notice, Move
    <2>7. CASE Fault
      BY <1>1, <2>7, <2>0, ChangeGood, Zenon DEF Fault, Move
    <2>8. CASE Enable
      <3>1. Good([m EXCEPT !.ready = TRUE])
        BY <2>0, Zenon DEF Good, MediaState, Owned, Attached, Fields
      <3> QED BY <1>1, <2>8, <3>1, ChangeGood, Zenon DEF Enable
    <2>9. CASE Disable
      BY <1>1, <2>9, <2>0, StoppedGood, ChangeGood, Zenon DEF Disable
    <2>10. CASE EngineFails
      BY <1>1, <2>0, <2>10, Zenon DEF EngineFails, Good, MediaState, Owned, Attached, Fields
    <2>11. CASE MediaToken
      <3> DEFINE t == Sync(m, call)
      <3>1. Good(t)
        BY <2>0, SyncGood
      <3>2. PICK k : m' = [t EXCEPT !.tokens = k]
        BY <2>11, Zenon DEF MediaToken
      <3> HIDE DEF t
      <3>3. Good(m')
        BY <3>1, <3>2 DEF Good, MediaState, Owned, Attached, Fields
      <3> QED BY <1>1, <2>11, <3>3, Zenon DEF MediaToken
    <2>12. CASE Connect
      <3>1. PICK t \in m.tokens :
              LET s == [m EXCEPT !.tokens = @ \ {t}]
              IN  m' = IF Consumable(t) /\ MayAttach(s, s.rev)
                       THEN [Attach(s, s.rev, "browser") EXCEPT !.attached = TRUE, !.wsCall = t.call]
                       ELSE s
        BY <2>12, Zenon DEF Connect
      <3> DEFINE s == [m EXCEPT !.tokens = @ \ {t}]
      <3>2. Good(s) /\ s.session = m.session /\ s.owner = m.owner /\ s.attached = m.attached
        BY <2>0 DEF Good, MediaState, Owned, Attached, Fields
      <3>3. CASE m' = s
        BY <1>1, <2>12, <3>2, <3>3 DEF Connect
      <3>4. CASE /\ s.session \in {0, s.rev} /\ s.rev # 0
                 /\ m' = [s EXCEPT !.session = s.rev, !.owner = "browser",
                                   !.attached = TRUE, !.wsCall = t.call]
        <4> HIDE DEF s
        <4>1. m'.attached
          BY <3>2, <3>4 DEF Good, MediaState, Fields
        <4>2. shared' = (shared \/ (m.session # 0 /\ m.owner # "browser"))
          BY <2>12, <4>1 DEF Connect
        <4>3. ~shared' => s.owner \in {"none", "browser"}
          BY <1>1, <4>2, <3>2, Zenon DEF Good, Owned
        <4>4. s.owner \in {"none", "browser"} => Good(m')
          BY <3>2, <3>4, Zenon DEF Good, MediaState, Owned, Attached, Fields
        <4> QED BY <1>1, <4>2, <4>3, <4>4
      <3> QED BY <3>1, <3>3, <3>4 DEF MayAttach, Attach
    <2>13. CASE Closed
      <3>1. m' = [m EXCEPT !.attached = FALSE, !.wsCall = 0] /\ shared' = shared
        BY <2>13 DEF Closed
      <3>2. /\ MediaState(m') /\ m'.attached = FALSE /\ m'.rtp = m.rtp /\ m'.peer = m.peer
            /\ m'.owner = m.owner /\ m'.session = m.session
        BY <2>0, <3>1, Zenon DEF Good, MediaState, Fields
      <3>3. Attached(m') = Attached(m)
        BY <3>2 DEF Attached
      <3> QED BY <1>1, <2>0, <3>1, <3>2, <3>3, Alike, Zenon
    <2>14. CASE Expire
      <3>1. shared' = shared /\ \E k : m' = [m EXCEPT !.tokens = k] \/ m' = [m EXCEPT !.sessions = k]
        BY <2>14 DEF Expire
      <3>2. PICK k : m' = [m EXCEPT !.tokens = k] \/ m' = [m EXCEPT !.sessions = k]
        BY <3>1
      <3>3. /\ MediaState(m') /\ m'.attached = m.attached /\ m'.rtp = m.rtp /\ m'.peer = m.peer
            /\ m'.owner = m.owner /\ m'.session = m.session
        BY <2>0, <3>2 DEF Good, MediaState, Fields
      <3>4. Attached(m') = Attached(m)
        BY <3>3 DEF Attached
      <3> QED BY <1>1, <2>0, <3>1, <3>3, <3>4, Alike, Zenon
    <2>15. CASE RtpAttach
      <3> DEFINE s == RtpRelease(m)
      <3>1. Good(s) /\ ~s.rtp
        BY <2>0, RtpReleaseGood
      <3>2. CASE m' = s
        BY <1>1, <2>15, <3>1, <3>2, Zenon DEF RtpAttach
      <3>3. ASSUME NEW n, n # 0, s.session \in {0, n},
                   m' = [s EXCEPT !.session = n, !.owner = "rtp", !.rtp = TRUE],
                   shared' = (shared \/ (m'.rtp /\ s.session # 0))
            PROVE  shared' \in BOOLEAN /\ (~shared' => Good(m'))
        <4> HIDE DEF s
        <4>1. m'.rtp
          BY <3>1, <3>3 DEF Good, MediaState, Fields
        <4>2. ~shared' => s.owner = "none"
          BY <1>1, <3>1, <3>3, <4>1, Zenon DEF Good, Owned
        <4>3. s.owner = "none" => Good(m')
          BY <3>1, <3>3, Zenon DEF Good, MediaState, Owned, Attached, Fields
        <4> QED BY <1>1, <3>3, <4>1, <4>2, <4>3
      <3> QED BY <2>15, <3>2, <3>3, Zenon DEF RtpAttach, MayAttach, Attach
    <2>16. CASE RtpReleaseMethod
      BY <1>1, <2>0, <2>16, RtpReleaseGood, Zenon DEF RtpReleaseMethod
    <2>17. CASE SocketSession
      <3>1. PICK k : m' = [m EXCEPT !.sessions = k]
        BY <2>17, Zenon DEF SocketSession
      <3>2. Good(m')
        BY <2>0, <3>1 DEF Good, MediaState, Owned, Attached, Fields
      <3> QED BY <1>1, <2>17, <3>2, Zenon DEF SocketSession
    <2>18. ASSUME NEW p \in Peers, PeerConnects(p)
           PROVE  shared' \in BOOLEAN /\ (~shared' => Good(m'))
      <3>1. /\ m.peer[p] = "closed" /\ m' = [m EXCEPT !.peer[p] = "open"]
            /\ shared' = shared
        BY <2>18 DEF PeerConnects
      <3>2. /\ MediaState(m') /\ m'.attached = m.attached /\ m'.rtp = m.rtp
            /\ m'.peer = [m.peer EXCEPT ![p] = "open"]
            /\ m'.owner = m.owner /\ m'.session = m.session
        BY <2>0, <3>1 DEF Good, MediaState, Fields
      <3>3. Attached(m') = Attached(m)
        BY <2>0, <3>1, <3>2 DEF Good, MediaState, Attached
      <3> QED BY <1>1, <2>0, <3>1, <3>2, <3>3, Alike, Zenon
    <2>19. ASSUME NEW p \in Peers, PeerAttaches(p)
           PROVE  shared' \in BOOLEAN /\ (~shared' => Good(m'))
      <3>1. PICK s : /\ MayAttach(m, s.id)
                     /\ m' = [Attach(m, s.id, "socket") EXCEPT !.peer[p] = "attached",
                                                               !.peerCall[p] = s.call]
                     /\ shared' = (shared \/ m.session = s.id)
        BY <2>19, Zenon DEF PeerAttaches
      <3>2. ~shared' => m.owner = "none"
        BY <1>1, <2>0, <3>1, Zenon DEF Good, Owned, MayAttach
      <3>3. m.owner = "none" => Good(m')
        BY <2>0, <3>1, Zenon DEF Good, MediaState, Owned, Attached, Fields, MayAttach, Attach
      <3> QED BY <1>1, <3>1, <3>2, <3>3
    <2>20. ASSUME NEW p \in Peers, PeerLeaves(p)
           PROVE  shared' \in BOOLEAN /\ (~shared' => Good(m'))
      <3> DEFINE d == IF m.peer[p] = "attached" THEN Detach(m) ELSE m
      <3>1. PICK left \in {"open", "closed"} :
              m' = [d EXCEPT !.peer[p] = left, !.peerCall[p] = 0]
        BY <2>20, Zenon DEF PeerLeaves
      <3>2. /\ MediaState(d) /\ d.peer = m.peer /\ d.attached = m.attached /\ d.rtp = m.rtp
            /\ d.owner = IF m.peer[p] = "attached" THEN "none" ELSE m.owner
            /\ d.session = IF m.peer[p] = "attached" THEN 0 ELSE m.session
        BY <2>0, Zenon DEF Good, MediaState, Detach, Fields
      <3> HIDE DEF d
      <3>3. /\ MediaState(m') /\ m'.peer = [m.peer EXCEPT ![p] = left]
            /\ m'.attached = m.attached /\ m'.rtp = m.rtp
            /\ m'.owner = d.owner /\ m'.session = d.session
        BY <2>0, <3>1, <3>2, Zenon DEF Good, MediaState, Fields
      <3>4. Attached(m') = Attached(m) \ {p}
        BY <2>0, <3>3 DEF Good, MediaState, Attached
      <3>5. m.peer[p] = "attached" <=> p \in Attached(m)
        BY DEF Attached
      <3>6. Owned(m')
        BY <2>0, <3>2, <3>3, <3>4, <3>5 DEF Good, Owned
      <3> QED BY <1>1, <2>20, <3>3, <3>6, Zenon DEF PeerLeaves, Good
    <2>21. CASE CaptureReads
      BY <1>1, <2>0, <2>21, Zenon DEF CaptureReads
    <2>22. CASE CapturePushes
      BY <1>1, <2>0, <2>22, Zenon DEF CapturePushes, Good, MediaState, Owned, Attached, Fields
    <2>23. CASE Uplink
      BY <1>1, <2>0, <2>23, Zenon DEF Uplink, Good, MediaState, Owned, Attached, Fields
    <2>24. CASE BrowserTimer
      <3> DEFINE t == Sync(m, call)
      <3>1. Good(t)
        BY <2>0, SyncGood
      <3>2. PICK a, b, c : m' = [t EXCEPT !.server = a, !.down = b, !.up = c]
        BY <2>24, Zenon DEF BrowserTimer
      <3> HIDE DEF t
      <3>3. Good(m')
        BY <3>1, <3>2, Zenon DEF Good, MediaState, Owned, Attached, Fields
      <3> QED BY <1>1, <2>24, <3>3, Zenon DEF BrowserTimer
    <2>25. CASE UNCHANGED vars
      BY <1>1, <2>0, <2>25, Zenon DEF vars
    <2> QED
      BY <2>1, <2>2, <2>3, <2>4, <2>5, <2>6, <2>7, <2>8, <2>9, <2>10, <2>11, <2>12, <2>13, <2>14,
         <2>15, <2>16, <2>17, <2>18, <2>19, <2>20, <2>21, <2>22, <2>23, <2>24, <2>25 DEF Next
  <1> QED BY <1>0, <1>1, Zenon DEF Inv

\* "Only one local media owner may attach to a call", for any number of peers, calls and
\* revisions: whichever of the browser, RTP and a socket peer believes it is attached owns
\* the engine, unless one attached under the session number of another.
THEOREM Ownership == Spec => []OneOwner
  <1>1. Inv => OneOwner
    <2> SUFFICES ASSUME Owned(m) PROVE Cardinality(Attached(m)) <= 1
      BY DEF Inv, Good, Owned, OneOwner
    <2>1. CASE Attached(m) = {}
      BY <2>1, FS_EmptySet
    <2>2. CASE Attached(m) # {}
      <3>1. PICK p : Attached(m) = {p}
        BY <2>2 DEF Owned
      <3> QED BY <3>1, FS_Singleton
    <2> QED BY <2>1, <2>2
  <1> QED BY <1>1, InitInv, NextInv, PTL DEF Spec
-------------------------------------------------------------------------------
(* Whose call it is                                                        *)

\* the engine's owner has its seat, and the browser's context, with its tokens and its
\* client, is of call id and is void without a revision
Fit(s, id) ==
    /\ MediaState(s) /\ s.peerCall = [p \in Peers |-> s.peerCall[p]]
    /\ s.owner \in {"none", "browser", "rtp", "socket"} /\ (s.owner = "none" <=> s.session = 0)
    /\ s.owner = "browser" => s.rev # 0
    /\ s.owner = "rtp" => s.rtp
    /\ s.owner = "socket" => Attached(s) # {}
    /\ s.rev = 0 => s.tokens = {} /\ ~s.attached
    /\ ~s.listener => s.rev = 0
    /\ \A t \in s.tokens : t.call = id
    /\ s.attached => s.wsCall = id

\* what waits to be played was said in call id, and nothing waits in a free engine
Heard(s, id) ==
    /\ s.up \in Seq(Nat) /\ \A i \in 1..Len(s.up) : s.up[i] = id
    /\ s.owner = "none" => s.up = <<>>

\* a call that is cleared has no media, and a new one starts with nothing of the last
CallInv ==
    /\ call.rev \in Nat \ {0} /\ call.id \in Nat /\ call.fresh \in BOOLEAN
    /\ call.state \in {"setup", "early", "active", "ringing"} => ~call.fresh
    /\ Fit(m, call.id) /\ (m.rev # 0 => InMedia(call))
    /\ \A s \in m.sessions : s.rev \in 0..call.rev /\ (s.rev = call.rev => s.call = call.id)
    /\ early # "attached" =>
          /\ call.fresh => m.owner = "none"
          /\ \A p \in Attached(m) : m.peerCall[p] = call.id /\ ~call.fresh
    /\ early # "attached" /\ ~shared => Heard(m, call.id)
    /\ call.state = "idle" /\ early = "no" => m.sessions = {} /\ m.session = 0 /\ ~m.rtp

\* t is s after some of its users gave up what they had
Gives(s, t, id) ==
    /\ Fit(t, id) /\ (Heard(s, id) => Heard(t, id))
    /\ t.sessions \subseteq s.sessions /\ t.owner \in {s.owner, "none"} /\ (t.rtp => s.rtp)
    /\ \A p \in Attached(t) : p \in Attached(s) /\ t.peerCall[p] = s.peerCall[p]

LEMMA GivesMore ==
    ASSUME NEW s, NEW t, NEW u, NEW id, Gives(s, t, id), Gives(t, u, id)
    PROVE  Gives(s, u, id)
  BY DEF Gives

\* the users of the engine do not mind who captures, serves or plays
LEMMA Indifferent ==
    ASSUME NEW s, NEW id, Fit(s, id), NEW t, MediaState(t), t.owner = s.owner,
           t.session = s.session, t.listener = s.listener, t.rev = s.rev,
           t.attached = s.attached, t.wsCall = s.wsCall, t.rtp = s.rtp, t.peer = s.peer,
           t.peerCall = s.peerCall, t.sessions \subseteq s.sessions,
           t.tokens \subseteq s.tokens, Heard(s, id) => Heard(t, id)
    PROVE  Gives(s, t, id)
  <1>1. Attached(t) = Attached(s)
    BY DEF Attached
  <1>2. Fit(t, id)
    BY <1>1 DEF Fit
  <1> QED BY <1>1, <1>2 DEF Gives

\* the engine is given back: nothing waits in it
LEMMA DetachGives ==
    ASSUME NEW s, NEW id, Fit(s, id)
    PROVE  /\ Gives(s, Detach(s), id) /\ Detach(s).owner = "none" /\ Detach(s).up = <<>>
           /\ \A f \in Fields \ {"session", "owner", "capture", "down", "up"} : Detach(s)[f] = s[f]
  <1> DEFINE d == Detach(s)
  <1>1. /\ MediaState(d) /\ d.owner = "none" /\ d.session = 0 /\ d.up = <<>>
        /\ \A f \in Fields \ {"session", "owner", "capture", "down", "up"} : d[f] = s[f]
    BY Zenon DEF Fit, MediaState, Detach, Fields
  <1> HIDE DEF d
  <1>2. /\ d.rev = s.rev /\ d.tokens = s.tokens /\ d.attached = s.attached /\ d.rtp = s.rtp
        /\ d.listener = s.listener /\ d.wsCall = s.wsCall /\ d.peer = s.peer
        /\ d.peerCall = s.peerCall /\ d.sessions = s.sessions
    BY <1>1 DEF Fields
  <1>3. Attached(d) = Attached(s)
    BY <1>2 DEF Attached
  <1>4. Fit(d, id)
    BY <1>1, <1>2, <1>3 DEF Fit
  <1>5. Gives(s, d, id)
    BY <1>1, <1>2, <1>3, <1>4 DEF Gives, Heard
  <1> QED BY <1>1, <1>5 DEF d

LEMMA RtpReleaseGives ==
    ASSUME NEW s, NEW id, Fit(s, id)
    PROVE  Gives(s, RtpRelease(s), id) /\ ~RtpRelease(s).rtp
  <1>1. CASE ~s.rtp
    BY <1>1, Indifferent DEF RtpRelease, Fit, Gives
  <1>2. CASE s.rtp
    <2> DEFINE d == Detach(s)
               r == [d EXCEPT !.rtp = FALSE]
    <2>1. Gives(s, d, id) /\ d.owner = "none" /\ d.up = <<>>
      BY DetachGives
    <2> HIDE DEF d
    <2>2. /\ MediaState(r) /\ r.rtp = FALSE
          /\ \A f \in Fields \ {"rtp"} : r[f] = d[f]
      BY <2>1, Zenon DEF Gives, Fit, MediaState, Fields
    <2>3. RtpRelease(s) = r
      BY <1>2 DEF RtpRelease, d
    <2> HIDE DEF r
    <2>4. /\ r.rev = d.rev /\ r.tokens = d.tokens /\ r.attached = d.attached
          /\ r.owner = d.owner /\ r.session = d.session /\ r.up = d.up
          /\ r.listener = d.listener /\ r.wsCall = d.wsCall /\ r.peer = d.peer
          /\ r.peerCall = d.peerCall /\ r.sessions = d.sessions
      BY <2>2 DEF Fields
    <2>5. Attached(r) = Attached(d)
      BY <2>4 DEF Attached
    <2>6. Fit(r, id)
      BY <2>1, <2>2, <2>4, <2>5 DEF Gives, Fit
    <2> QED BY <2>1, <2>2, <2>3, <2>4, <2>5, <2>6 DEF Gives, Heard
  <1> QED BY <1>1, <1>2

\* what stop and release of the socket server have in common
LEMMA PeersGive ==
    ASSUME NEW s, NEW id, Fit(s, id), NEW r, NEW d,
           d = IF Attached(s) # {} THEN Detach(s) ELSE s,
           MediaState(r), r.peerCall = [p \in Peers |-> 0], Attached(r) = {},
           r.sessions \subseteq d.sessions,
           \A f \in Fields \ {"peer", "peerCall", "sessions", "server"} : r[f] = d[f]
    PROVE  Gives(s, r, id)
  <1>1. Gives(s, d, id) /\ d.owner # "socket"
    <2>1. CASE Attached(s) # {}
      BY <2>1, DetachGives
    <2>2. CASE Attached(s) = {}
      BY <2>2 DEF Gives, Fit
    <2> QED BY <2>1, <2>2
  <1>2. /\ r.rev = d.rev /\ r.tokens = d.tokens /\ r.attached = d.attached /\ r.rtp = d.rtp
        /\ r.owner = d.owner /\ r.session = d.session /\ r.up = d.up
        /\ r.listener = d.listener /\ r.wsCall = d.wsCall
    BY DEF Fields
  <1>3. Fit(r, id)
    BY <1>1, <1>2 DEF Gives, Fit
  <1> QED BY <1>1, <1>2, <1>3, SMTT(30) DEF Gives, Heard

LEMMA SocketReleaseGives ==
    ASSUME NEW s, NEW id, Fit(s, id)
    PROVE  /\ Gives(s, SocketRelease(s), id) /\ Attached(SocketRelease(s)) = {}
           /\ SocketRelease(s).sessions = {} /\ SocketRelease(s).rtp = s.rtp
  <1> DEFINE d == IF Attached(s) # {} THEN Detach(s) ELSE s
             ps == [p \in Peers |-> IF p \in Attached(s) THEN "open" ELSE s.peer[p]]
             r == [d EXCEPT !.sessions = {}, !.peerCall = [p \in Peers |-> 0], !.peer = ps]
  <1>1. MediaState(d) /\ d.rtp = s.rtp
    BY Zenon DEF Fit, MediaState, Detach, Fields
  <1>2. ps = [p \in Peers |-> ps[p]] /\ \A p \in Peers : ps[p] # "attached"
    BY DEF Attached
  <1>3. SocketRelease(s) = r
    BY DEF SocketRelease
  <1> HIDE DEF d, ps
  <1>4. /\ MediaState(r) /\ r.peer = ps /\ r.sessions = {} /\ r.peerCall = [p \in Peers |-> 0]
        /\ r.rtp = s.rtp
        /\ \A f \in Fields \ {"peer", "peerCall", "sessions", "server"} : r[f] = d[f]
    BY <1>1, <1>2, Zenon DEF MediaState, Fields
  <1> HIDE DEF r
  <1>5. Attached(r) = {}
    BY <1>2, <1>4 DEF Attached
  <1>6. Gives(s, r, id)
    BY <1>4, <1>5, PeersGive DEF d
  <1> QED BY <1>3, <1>4, <1>5, <1>6

LEMMA SocketStopGives ==
    ASSUME NEW s, NEW id, Fit(s, id)
    PROVE  Gives(s, SocketStop(s), id)
  <1> DEFINE d == IF Attached(s) # {} THEN Detach(s) ELSE s
             ps == [p \in Peers |-> "closed"]
             r == [d EXCEPT !.server = FALSE, !.peer = ps, !.peerCall = [p \in Peers |-> 0]]
  <1>1. MediaState(d)
    BY Zenon DEF Fit, MediaState, Detach, Fields
  <1>2. ps = [p \in Peers |-> ps[p]] /\ \A p \in Peers : ps[p] # "attached"
    OBVIOUS
  <1>3. SocketStop(s) = r
    BY DEF SocketStop
  <1> HIDE DEF d, ps
  <1>4. /\ MediaState(r) /\ r.peer = ps /\ r.sessions = d.sessions
        /\ r.peerCall = [p \in Peers |-> 0]
        /\ \A f \in Fields \ {"peer", "peerCall", "sessions", "server"} : r[f] = d[f]
    BY <1>1, <1>2, Zenon DEF MediaState, Fields
  <1> HIDE DEF r
  <1>5. Attached(r) = {}
    BY <1>2, <1>4 DEF Attached
  <1>6. Gives(s, r, id)
    BY <1>4, <1>5, PeersGive DEF d
  <1> QED BY <1>3, <1>6

\* the browser's context is void
LEMMA ResetCallGives ==
    ASSUME NEW s, NEW id, Fit(s, id)
    PROVE  /\ Gives(s, ResetCall(s), id) /\ ResetCall(s).rev = 0
           /\ ResetCall(s).rtp = s.rtp /\ Attached(ResetCall(s)) = Attached(s)
           /\ ResetCall(s).listener = s.listener
  <1> DEFINE d == IF s.owner = "browser" THEN Detach(s) ELSE s
             r == [d EXCEPT !.attached = FALSE, !.wsCall = 0, !.rev = 0, !.tokens = {},
                            !.down = <<>>, !.up = <<>>]
  <1>1. /\ Gives(s, d, id) /\ d.owner # "browser" /\ d.rtp = s.rtp /\ d.peer = s.peer
        /\ d.listener = s.listener
    <2>1. CASE s.owner = "browser"
      BY <2>1, DetachGives DEF Fields
    <2>2. CASE s.owner # "browser"
      BY <2>2 DEF Gives
    <2> QED BY <2>1, <2>2
  <1>2. ResetCall(s) = r
    BY DEF ResetCall
  <1> HIDE DEF d
  <1>3. /\ MediaState(r) /\ r.attached = FALSE /\ r.rev = 0 /\ r.tokens = {} /\ r.up = <<>>
        /\ \A f \in Fields \ {"attached", "wsCall", "rev", "tokens", "down", "up"} : r[f] = d[f]
    BY <1>1, Zenon DEF Gives, Fit, MediaState, Fields
  <1> HIDE DEF r
  <1>4. /\ r.owner = d.owner /\ r.session = d.session /\ r.rtp = d.rtp /\ r.peer = d.peer
        /\ r.peerCall = d.peerCall /\ r.sessions = d.sessions /\ r.listener = d.listener
    BY <1>3 DEF Fields
  <1>5. Attached(r) = Attached(d) /\ Attached(r) = Attached(s)
    BY <1>1, <1>4 DEF Attached
  <1>6. Fit(r, id)
    BY <1>1, <1>3, <1>4, <1>5 DEF Gives, Fit
  <1>7. Gives(s, r, id)
    <2>1. Heard(r, id)
      BY <1>3 DEF Heard
    <2> QED BY <1>1, <1>4, <1>5, <1>6, <2>1 DEF Gives
  <1> QED BY <1>1, <1>2, <1>3, <1>4, <1>5, <1>7

LEMMA BrowserStopGives ==
    ASSUME NEW s, NEW id, Fit(s, id)
    PROVE  /\ Gives(s, BrowserStop(s), id) /\ BrowserStop(s).rev = 0
           /\ BrowserStop(s).rtp = s.rtp /\ Attached(BrowserStop(s)) = Attached(s)
  <1> DEFINE d == ResetCall(s)
             r == [d EXCEPT !.listener = FALSE]
  <1>1. Gives(s, d, id) /\ d.rev = 0 /\ d.rtp = s.rtp /\ Attached(d) = Attached(s)
    BY ResetCallGives
  <1>2. BrowserStop(s) = r
    BY DEF BrowserStop
  <1> HIDE DEF d
  <1>3. MediaState(r) /\ r.listener = FALSE /\ \A f \in Fields \ {"listener"} : r[f] = d[f]
    BY <1>1, Zenon DEF Gives, Fit, MediaState, Fields
  <1> HIDE DEF r
  <1>4. /\ r.rev = d.rev /\ r.tokens = d.tokens /\ r.attached = d.attached /\ r.rtp = d.rtp
        /\ r.owner = d.owner /\ r.session = d.session /\ r.up = d.up /\ r.wsCall = d.wsCall
        /\ r.peer = d.peer /\ r.peerCall = d.peerCall /\ r.sessions = d.sessions
    BY <1>3 DEF Fields
  <1>5. Attached(r) = Attached(d)
    BY <1>4 DEF Attached
  <1>6. Fit(r, id)
    BY <1>1, <1>3, <1>4, <1>5, Zenon DEF Gives, Fit
  <1>7. Gives(s, r, id)
    BY <1>1, <1>4, <1>5, <1>6 DEF Gives, Heard
  <1> QED BY <1>1, <1>2, <1>4, <1>5, <1>7

\* qmodem_voip_media_sync leaves the browser a context only while its call has media
LEMMA SyncGives ==
    ASSUME NEW s, NEW id, Fit(s, id), NEW c, c.rev # 0
    PROVE  /\ Gives(s, Sync(s, c), id) /\ (Sync(s, c).rev # 0 => InMedia(c))
           /\ Sync(s, c).rtp = s.rtp /\ Attached(Sync(s, c)) = Attached(s)
           /\ s.ready /\ InMedia(c) /\ c.browser => Sync(s, c).rev = c.rev
  <1> DEFINE r == IF s.listener THEN s ELSE [s EXCEPT !.listener = TRUE, !.rev = 0]
             n == [r EXCEPT !.rev = c.rev]
  <1>0. Gives(s, s, id)
    BY DEF Gives
  <1>1. /\ Gives(s, r, id) /\ r.rtp = s.rtp /\ Attached(r) = Attached(s)
        /\ r.listener
    <2>1. CASE s.listener
      BY <1>0, <2>1
    <2>2. CASE ~s.listener
      <3> DEFINE t == [s EXCEPT !.listener = TRUE, !.rev = 0]
      <3>1. /\ MediaState(t) /\ t.listener = TRUE /\ t.rev = 0
            /\ \A f \in Fields \ {"listener", "rev"} : t[f] = s[f]
        BY Zenon DEF Fit, MediaState, Fields
      <3>0. r = t
        BY <2>2
      <3> HIDE DEF r, t
      <3>2. /\ t.tokens = s.tokens /\ t.attached = s.attached /\ t.rtp = s.rtp
            /\ t.owner = s.owner /\ t.session = s.session /\ t.up = s.up /\ t.wsCall = s.wsCall
            /\ t.peer = s.peer /\ t.peerCall = s.peerCall /\ t.sessions = s.sessions
        BY <3>1 DEF Fields
      <3>3. Attached(t) = Attached(s) /\ s.rev = 0
        BY <2>2, <3>2 DEF Attached, Fit
      <3>4. Fit(t, id)
        BY <3>1, <3>2, <3>3 DEF Fit
      <3>5. Gives(s, t, id)
        BY <3>2, <3>3, <3>4 DEF Gives, Heard
      <3>6. t.listener
        BY <3>1
      <3> QED BY <3>0, <3>2, <3>3, <3>5, <3>6
    <2> QED BY <2>1, <2>2
  <1> HIDE DEF r
  <1>2. Gives(s, n, id) /\ n.rev = c.rev /\ n.rtp = s.rtp /\ Attached(n) = Attached(s)
    <2>1. MediaState(n) /\ n.rev = c.rev /\ \A f \in Fields \ {"rev"} : n[f] = r[f]
      BY <1>1 DEF Gives, Fit, MediaState, Fields
    <2> HIDE DEF n
    <2>2. /\ n.tokens = r.tokens /\ n.attached = r.attached /\ n.rtp = r.rtp
          /\ n.owner = r.owner /\ n.session = r.session /\ n.up = r.up /\ n.wsCall = r.wsCall
          /\ n.peer = r.peer /\ n.peerCall = r.peerCall /\ n.sessions = r.sessions
          /\ n.listener = r.listener
      BY <2>1 DEF Fields
    <2>3. Attached(n) = Attached(r) /\ Fit(r, id)
      BY <1>1, <2>2 DEF Attached, Gives
    <2>4. Fit(n, id)
      BY <1>1, <2>1, <2>2, <2>3, Zenon DEF Fit
    <2>5. Gives(r, n, id)
      BY <2>2, <2>3, <2>4 DEF Gives, Heard
    <2> QED BY <1>1, <2>1, <2>2, <2>3, <2>5, GivesMore
  <1> HIDE DEF n
  <1>3. /\ Gives(s, ResetCall(r), id) /\ ResetCall(r).rev = 0
        /\ ResetCall(r).rtp = s.rtp /\ Attached(ResetCall(r)) = Attached(s)
    <2>1. Fit(r, id)
      BY <1>1 DEF Gives
    <2> QED BY <1>1, <2>1, ResetCallGives, GivesMore
  <1>4. CASE ~s.ready
    <2>1. CASE s.listener
      <3>1. Sync(s, c) = BrowserStop(s)
        BY <1>4, <2>1 DEF Sync
      <3> QED BY <1>4, <3>1, BrowserStopGives
    <2>2. CASE ~s.listener
      <3>1. Sync(s, c) = s /\ s.rev = 0
        BY <1>4, <2>2 DEF Sync, Fit
      <3> QED BY <1>0, <1>4, <3>1
    <2> QED BY <2>1, <2>2
  <1>5. CASE s.ready
    <2>1. Sync(s, c) = IF InMedia(c) /\ c.browser THEN n
                       ELSE IF r.rev # 0 \/ r.attached THEN ResetCall(r) ELSE r
      BY <1>5 DEF Sync, r, n
    <2>2. CASE InMedia(c) /\ c.browser
      BY <1>2, <2>1, <2>2
    <2>3. CASE ~(InMedia(c) /\ c.browser)
      <3>1. Sync(s, c) = ResetCall(r) \/ (Sync(s, c) = r /\ r.rev = 0)
        BY <2>1, <2>3
      <3> QED BY <1>1, <1>3, <2>3, <3>1
    <2> QED BY <2>2, <2>3
  <1> QED BY <1>4, <1>5

LEMMA CaptureGives ==
    ASSUME NEW s, NEW id, Fit(s, id), NEW b
    PROVE  /\ Gives(s, [s EXCEPT !.capture = b], id) /\ [s EXCEPT !.capture = b].rev = s.rev
           /\ [s EXCEPT !.capture = b].rtp = s.rtp
           /\ Attached([s EXCEPT !.capture = b]) = Attached(s)
           /\ [s EXCEPT !.capture = b].sessions = s.sessions
  <1> DEFINE t == [s EXCEPT !.capture = b]
  <1>1. MediaState(t) /\ \A f \in Fields \ {"capture"} : t[f] = s[f]
    BY DEF Fit, MediaState, Fields
  <1> HIDE DEF t
  <1>2. /\ t.tokens = s.tokens /\ t.attached = s.attached /\ t.rtp = s.rtp /\ t.rev = s.rev
        /\ t.owner = s.owner /\ t.session = s.session /\ t.up = s.up /\ t.wsCall = s.wsCall
        /\ t.peer = s.peer /\ t.peerCall = s.peerCall /\ t.sessions = s.sessions
        /\ t.listener = s.listener
    BY <1>1 DEF Fields
  <1>3. Gives(s, t, id)
    <2>1. Heard(s, id) => Heard(t, id)
      BY <1>2 DEF Heard
    <2> QED BY <1>1, <1>2, <2>1, Indifferent
  <1>4. Attached(t) = Attached(s)
    BY <1>2 DEF Attached
  <1> QED BY <1>2, <1>3, <1>4 DEF t

LEMMA ReadyGives ==
    ASSUME NEW s, NEW id, Fit(s, id), NEW b
    PROVE  Gives(s, [s EXCEPT !.ready = b], id) /\ [s EXCEPT !.ready = b].rev = s.rev
  <1> DEFINE t == [s EXCEPT !.ready = b]
  <1>1. MediaState(t) /\ \A f \in Fields \ {"ready"} : t[f] = s[f]
    BY DEF Fit, MediaState, Fields
  <1> HIDE DEF t
  <1>2. /\ t.tokens = s.tokens /\ t.attached = s.attached /\ t.rtp = s.rtp /\ t.rev = s.rev
        /\ t.owner = s.owner /\ t.session = s.session /\ t.up = s.up /\ t.wsCall = s.wsCall
        /\ t.peer = s.peer /\ t.peerCall = s.peerCall /\ t.sessions = s.sessions
        /\ t.listener = s.listener
    BY <1>1 DEF Fields
  <1>3. Heard(s, id) => Heard(t, id)
    BY <1>2 DEF Heard
  <1>4. Gives(s, t, id)
    BY <1>1, <1>2, <1>3, Indifferent
  <1> QED BY <1>2, <1>4 DEF t

\* qmodem_voip_publish_event: after the end of a call nobody has the engine
LEMMA PublishGives ==
    ASSUME NEW s, NEW id, Fit(s, id), NEW c, c.rev # 0
    PROVE  /\ Gives(s, Publish(s, c), id) /\ (Publish(s, c).rev # 0 => InMedia(c))
           /\ Over(c) => /\ Publish(s, c).owner = "none" /\ Publish(s, c).sessions = {}
                         /\ ~Publish(s, c).rtp /\ Attached(Publish(s, c)) = {}
  <1> DEFINE on == IF c.state \in {"early", "active"} THEN [s EXCEPT !.capture = TRUE] ELSE s
             rtp == RtpRelease(on)
             peers == SocketRelease(rtp)
             quiet == [peers EXCEPT !.capture = FALSE]
             off == IF Over(c) THEN quiet ELSE on
  <1>1. Gives(s, on, id) /\ Fit(on, id)
    <2>1. Gives(s, s, id)
      BY DEF Gives
    <2>2. Gives(s, [s EXCEPT !.capture = TRUE], id)
      BY CaptureGives
    <2>3. Gives(s, on, id)
      BY <2>1, <2>2
    <2> HIDE DEF on
    <2> QED BY <2>3 DEF Gives
  <1> HIDE DEF on
  <1>2. Gives(s, rtp, id) /\ Fit(rtp, id) /\ ~rtp.rtp
    <2>1. Gives(on, rtp, id) /\ ~rtp.rtp
      BY <1>1, RtpReleaseGives
    <2> HIDE DEF rtp
    <2>2. Gives(s, rtp, id)
      BY <1>1, <2>1, GivesMore
    <2> QED BY <2>1, <2>2 DEF Gives
  <1> HIDE DEF rtp
  <1>3. /\ Gives(s, peers, id) /\ Fit(peers, id) /\ ~peers.rtp
        /\ Attached(peers) = {} /\ peers.sessions = {}
    <2>1. /\ Gives(rtp, peers, id) /\ peers.rtp = rtp.rtp
          /\ Attached(peers) = {} /\ peers.sessions = {}
      BY <1>2, SocketReleaseGives
    <2> HIDE DEF peers
    <2>2. Gives(s, peers, id)
      BY <1>2, <2>1, GivesMore
    <2> QED BY <1>2, <2>1, <2>2 DEF Gives
  <1> HIDE DEF peers
  <1>4. /\ Gives(s, quiet, id) /\ Fit(quiet, id) /\ ~quiet.rtp
        /\ Attached(quiet) = {} /\ quiet.sessions = {}
    <2>1. /\ Gives(peers, quiet, id) /\ quiet.rtp = peers.rtp
          /\ Attached(quiet) = Attached(peers) /\ quiet.sessions = peers.sessions
      BY <1>3, CaptureGives
    <2> HIDE DEF quiet
    <2>2. Gives(s, quiet, id)
      BY <1>3, <2>1, GivesMore
    <2> QED BY <1>3, <2>1, <2>2 DEF Gives
  <1> HIDE DEF quiet
  <1>5. /\ Gives(s, off, id) /\ Fit(off, id)
        /\ Over(c) => ~off.rtp /\ Attached(off) = {} /\ off.sessions = {}
    BY <1>1, <1>4
  <1>6. Publish(s, c) = Sync(off, c)
    BY DEF Publish, off, on, quiet, peers, rtp
  <1> HIDE DEF off
  <1> DEFINE t == Sync(off, c)
  <1>7. /\ Gives(off, t, id) /\ (t.rev # 0 => InMedia(c))
        /\ t.rtp = off.rtp /\ Attached(t) = Attached(off)
    BY <1>5, SyncGives
  <1> HIDE DEF t
  <1>8. Gives(s, t, id)
    BY <1>5, <1>7, GivesMore
  <1>9. Over(c) => /\ t.owner = "none" /\ t.sessions = {} /\ ~t.rtp /\ Attached(t) = {}
    <2> SUFFICES ASSUME Over(c)
                 PROVE  /\ t.owner = "none" /\ t.sessions = {} /\ ~t.rtp /\ Attached(t) = {}
      OBVIOUS
    <2>1. t.sessions = {} /\ ~t.rtp /\ Attached(t) = {}
      BY <1>5, <1>7 DEF Gives
    <2>2. t.rev = 0
      BY <1>7 DEF Over, InMedia
    <2> QED BY <1>7, <2>1, <2>2 DEF Gives, Fit
  <1> QED BY <1>6, <1>7, <1>8, <1>9 DEF t

LEMMA StoppedGives ==
    ASSUME NEW s, NEW id, Fit(s, id), NEW b
    PROVE  Gives(s, [Detach(SocketStop(RtpRelease(BrowserStop(s)))) EXCEPT !.ready = b], id)
  <1> DEFINE u == BrowserStop(s)
             r == RtpRelease(u)
             t == SocketStop(r)
             d == Detach(t)
  <1>1. Gives(s, u, id)
    BY BrowserStopGives
  <1>2. Gives(u, r, id)
    <2> HIDE DEF u
    <2> QED BY <1>1, RtpReleaseGives DEF Gives
  <1>3. Gives(r, t, id)
    <2> HIDE DEF r
    <2> QED BY <1>2, SocketStopGives DEF Gives
  <1>4. Gives(t, d, id)
    <2> HIDE DEF t
    <2> QED BY <1>3, DetachGives, Zenon DEF Gives
  <1> HIDE DEF u, r, t, d
  <1>5. Gives(s, d, id)
    BY <1>1, <1>2, <1>3, <1>4, GivesMore
  <1>6. Gives(d, [d EXCEPT !.ready = b], id)
    BY <1>5, ReadyGives DEF Gives
  <1> QED BY <1>5, <1>6, GivesMore DEF d, t, r, u

\* every change of the call: a new call takes over nothing, and a call that ends leaves
\* nothing
LEMMA ChangeInv ==
    ASSUME CallInv, NEW state, NEW browser, NEW answered, NEW s,
           \A id : Fit(m, id) => Gives(m, s, id),
           Change(state, browser, answered, s), UNCHANGED <<early, shared>>
    PROVE  CallInv'
  <1> DEFINE live == state \in {"setup", "early", "active", "ringing"}
             clears == state \in {"idle", "disabled"}
  <1>1. PICK c : /\ call' = c /\ m' = Publish(s, c) /\ c.state = state /\ c.rev = call.rev + 1
                 /\ c.id = call.id + (IF call.fresh /\ live THEN 1 ELSE 0)
                 /\ c.fresh = (clears \/ (call.fresh /\ ~(call.fresh /\ live)))
    BY DEF Change
  <1>2. /\ c.rev \in Nat \ {0} /\ c.id \in Nat /\ c.rev > call.rev
        /\ c.id # call.id => call.fresh /\ live
    BY <1>1 DEF CallInv
  <1>3. c.fresh \in BOOLEAN /\ (live => ~c.fresh) /\ (c.fresh => clears \/ call.fresh)
    BY <1>1, Zenon
  <1>4. clears => Over(c)
    BY <1>1 DEF Over
  <1> HIDE DEF live, clears
  <1>5. Fit(m, c.id) /\ (early # "attached" /\ ~shared => Heard(m, c.id))
    <2>1. CASE c.id = call.id
      BY <2>1 DEF CallInv
    <2>2. CASE c.id # call.id
      <3>1. m.rev = 0 /\ Fit(m, call.id)
        BY <1>2, <2>2 DEF CallInv, InMedia
      <3>2. Fit(m, c.id)
        BY <3>1, Zenon DEF Fit
      <3>3. early # "attached" /\ ~shared => m.up = <<>> /\ m.owner = "none"
        BY <1>2, <2>2, Zenon DEF CallInv, Heard
      <3>4. <<>> \in Seq(Nat) /\ Len(<<>>) = 0
        OBVIOUS
      <3>5. m.up = <<>> => Heard(m, c.id)
        BY <3>4 DEF Heard
      <3> QED BY <3>2, <3>3, <3>5
    <2> QED BY <2>1, <2>2
  <1>6. /\ Gives(m, m', c.id) /\ (m'.rev # 0 => InMedia(c))
        /\ Over(c) => m'.owner = "none" /\ m'.sessions = {} /\ ~m'.rtp /\ Attached(m') = {}
    <2>1. Gives(m, s, c.id)
      BY <1>5
    <2>2. Fit(s, c.id) /\ c.rev # 0
      BY <1>2, <2>1 DEF Gives
    <2>3. Gives(s, m', c.id) /\ (m'.rev # 0 => InMedia(c))
      BY <1>1, <2>2, PublishGives, Zenon
    <2>4. Over(c) => m'.owner = "none" /\ m'.sessions = {} /\ ~m'.rtp /\ Attached(m') = {}
      BY <1>1, <2>2, PublishGives, Zenon
    <2> QED BY <2>1, <2>3, <2>4, GivesMore
  <1>7. \A x \in m'.sessions : x.rev \in 0..c.rev /\ (x.rev = c.rev => x.call = c.id)
    <2> SUFFICES ASSUME NEW x \in m'.sessions PROVE x.rev \in 0..c.rev /\ x.rev # c.rev
      OBVIOUS
    <2>1. x.rev \in 0..call.rev /\ call.rev \in Nat
      BY <1>6, Zenon DEF CallInv, Gives
    <2> QED BY <1>2, <2>1
  <1>8. early # "attached" => /\ c.fresh => m'.owner = "none"
                              /\ \A p \in Attached(m') : m'.peerCall[p] = c.id /\ ~c.fresh
    <2> SUFFICES ASSUME early # "attached"
                 PROVE  /\ c.fresh => m'.owner = "none"
                        /\ \A p \in Attached(m') : m'.peerCall[p] = c.id /\ ~c.fresh
      OBVIOUS
    <2>1. c.fresh => m'.owner = "none"
      BY <1>3, <1>4, <1>6, Zenon DEF CallInv, Gives
    <2>2. ASSUME NEW p \in Attached(m') PROVE m'.peerCall[p] = c.id /\ ~c.fresh
      <3>1. m'.peerCall[p] = call.id /\ ~call.fresh
        BY <1>6, Zenon DEF CallInv, Gives
      <3>2. ~clears
        BY <1>4, <1>6, Zenon
      <3> QED BY <1>2, <1>3, <3>1, <3>2, Zenon
    <2> QED BY <2>1, <2>2, Zenon
  <1>9. c.state = "idle" => m'.sessions = {} /\ m'.session = 0 /\ ~m'.rtp
    BY <1>6, Zenon DEF Over, Gives, Fit
  <1>10. early # "attached" /\ ~shared => Heard(m', c.id)
    BY <1>5, <1>6, Zenon DEF Gives
  <1>11. c.state \in {"setup", "early", "active", "ringing"} => ~c.fresh
    BY <1>1, <1>3 DEF live
  <1>12. Fit(m', c.id)
    BY <1>6, Zenon DEF Gives
  <1> QED BY <1>1, <1>2, <1>3, <1>6, <1>7, <1>8, <1>9, <1>10, <1>11, <1>12, Zenon
          DEF CallInv, Fit, Heard, MediaState, Attached, InMedia

\* what a step within a call has to keep
LEMMA WithinCall ==
    ASSUME CallInv, UNCHANGED call, Fit(m', call.id), m'.rev # 0 => InMedia(call),
           \A x \in m'.sessions : x.rev \in 0..call.rev /\ (x.rev = call.rev => x.call = call.id),
           early' # "attached" =>
              /\ call.fresh => m'.owner = "none"
              /\ \A p \in Attached(m') : m'.peerCall[p] = call.id /\ ~call.fresh,
           early' # "attached" /\ ~shared' => Heard(m', call.id),
           call.state = "idle" /\ early' = "no" => m'.sessions = {} /\ m'.session = 0 /\ ~m'.rtp
    PROVE  CallInv'
  <1>1. /\ call'.rev \in Nat \ {0} /\ call'.id \in Nat /\ call'.fresh \in BOOLEAN
        /\ call'.state \in {"setup", "early", "active", "ringing"} => ~call'.fresh
    BY Zenon DEF CallInv
  <1>2. Fit(m, call.id)' /\ (m.rev # 0 => InMedia(call))'
    BY DEF Fit, MediaState, Attached, InMedia
  <1>3. (early # "attached" =>
          /\ call.fresh => m.owner = "none"
          /\ \A p \in Attached(m) : m.peerCall[p] = call.id /\ ~call.fresh)'
    BY Zenon DEF Attached
  <1>4. (early # "attached" /\ ~shared => Heard(m, call.id))'
    BY Zenon DEF Heard
  <1>5. (call.state = "idle" /\ early = "no" => m.sessions = {} /\ m.session = 0 /\ ~m.rtp)'
    BY Zenon
  <1>6. (\A x \in m.sessions : x.rev \in 0..call.rev /\ (x.rev = call.rev => x.call = call.id))'
    BY Zenon
  <1> QED BY <1>1, <1>2, <1>3, <1>4, <1>5, <1>6, Zenon DEF CallInv

\* a step within a call that only gives something up
LEMMA SameCallInv ==
    ASSUME CallInv, UNCHANGED <<call, early, shared>>, Gives(m, m', call.id),
           m'.rev # 0 => InMedia(call)
    PROVE  CallInv'
  <1>1. Fit(m', call.id) /\ (call.state = "idle" /\ early = "no" => m'.session = 0)
    BY Zenon DEF CallInv, Gives, Fit
  <1>2. early # "attached" /\ ~shared => Heard(m', call.id)
    BY Zenon DEF CallInv, Gives
  <1>3. \A x \in m'.sessions : x.rev \in 0..call.rev /\ (x.rev = call.rev => x.call = call.id)
    BY Zenon DEF CallInv, Gives
  <1>4. early # "attached" => /\ call.fresh => m'.owner = "none"
                              /\ \A p \in Attached(m') : m'.peerCall[p] = call.id /\ ~call.fresh
    BY Zenon DEF CallInv, Gives
  <1>5. call.state = "idle" /\ early = "no" => m'.sessions = {} /\ ~m'.rtp
    BY DEF CallInv, Gives
  <1> QED BY <1>1, <1>2, <1>3, <1>4, <1>5, WithinCall, Zenon

LEMMA InitCallInv == Init => CallInv
  <1> SUFFICES ASSUME Init PROVE CallInv
    OBVIOUS
  <1>1. m = [f \in Fields |-> m[f]]
    BY Zenon DEF Init, Fields
  <1>2. /\ m.peer = [p \in Peers |-> "closed"] /\ m.peerCall = [p \in Peers |-> 0]
        /\ m.attached = FALSE /\ m.rtp = FALSE /\ m.listener = FALSE /\ m.rev = 0
        /\ m.owner = "none" /\ m.session = 0 /\ m.tokens = {} /\ m.sessions = {} /\ m.up = <<>>
        /\ call.rev = 1 /\ call.id = 0 /\ call.fresh = TRUE /\ call.state = "disabled"
    BY DEF Init
  <1>3. Attached(m) = {}
    BY <1>2 DEF Attached
  <1>4. Fit(m, call.id)
    BY <1>1, <1>2, <1>3, Zenon DEF Fit, MediaState
  <1>5. Heard(m, call.id)
    BY <1>2 DEF Heard
  <1>6. call.rev \in Nat \ {0} /\ call.id \in Nat /\ call.fresh \in BOOLEAN
    <2>1. call.fresh \in BOOLEAN
      BY <1>2, Zenon
    <2> QED BY <1>2, <2>1
  <1>7. call.state \notin {"setup", "early", "active", "ringing", "idle"}
    BY <1>2
  <1>8. \A s \in m.sessions : s.rev \in 0..call.rev /\ (s.rev = call.rev => s.call = call.id)
    BY <1>2
  <1> QED BY <1>2, <1>3, <1>4, <1>5, <1>6, <1>7, <1>8, Zenon DEF CallInv

\* qmodem_voip_media_token_method: the token is of the call there is
LEMMA TokenInv == CallInv /\ MediaToken => CallInv'
  <1> SUFFICES ASSUME CallInv, MediaToken PROVE CallInv'
    OBVIOUS
  <1> DEFINE s == Sync(m, call)
             k == s.tokens \cup {[rev |-> call.rev, call |-> call.id]}
  <1>1. /\ InMedia(call) /\ call.browser /\ s.ready /\ m' = [s EXCEPT !.tokens = k]
        /\ UNCHANGED <<call, early, shared>>
    BY DEF MediaToken
  <1>2. Fit(m, call.id) /\ call.rev # 0
    BY Zenon DEF CallInv
  <1>3. Gives(m, s, call.id)
    BY <1>2, SyncGives
  <1>4. s.rev # 0
    <2>1. CASE m.ready
      BY <1>1, <1>2, <2>1, SyncGives
    <2>2. CASE ~m.ready
      <3>1. CASE m.listener
        <4>1. s = BrowserStop(m)
          BY <2>2, <3>1 DEF Sync
        <4>2. BrowserStop(m).ready = m.ready
          BY <1>2 DEF BrowserStop, ResetCall, Detach, Fit, MediaState, Fields
        <4> QED BY <1>1, <2>2, <4>1, <4>2
      <3>2. CASE ~m.listener
        BY <1>1, <2>2, <3>2 DEF Sync
      <3> QED BY <3>1, <3>2
    <2> QED BY <2>1, <2>2
  <1>5. \A t \in k : t.call = call.id
    BY <1>3 DEF Gives, Fit
  <1> HIDE DEF s, k
  <1>6. MediaState(m') /\ m'.tokens = k /\ \A f \in Fields \ {"tokens"} : m'[f] = s[f]
    BY <1>1, <1>3 DEF Gives, Fit, MediaState, Fields
  <1>7. /\ m'.attached = s.attached /\ m'.rtp = s.rtp /\ m'.rev = s.rev
        /\ m'.owner = s.owner /\ m'.session = s.session /\ m'.up = s.up /\ m'.wsCall = s.wsCall
        /\ m'.peer = s.peer /\ m'.peerCall = s.peerCall /\ m'.sessions = s.sessions
        /\ m'.listener = s.listener
    BY <1>6 DEF Fields
  <1>8. Attached(m') = Attached(s)
    BY <1>7 DEF Attached
  <1>9. Fit(m', call.id)
    BY <1>3, <1>4, <1>5, <1>6, <1>7, <1>8, Zenon DEF Gives, Fit
  <1>10. Gives(m, m', call.id)
    BY <1>3, <1>7, <1>8, <1>9 DEF Gives, Heard
  <1> QED BY <1>1, <1>10, SameCallInv

\* browser_callback: only a token of this call is left to connect with
LEMMA ConnectInv == CallInv /\ Connect => CallInv'
  <1> SUFFICES ASSUME CallInv, Connect PROVE CallInv'
    OBVIOUS
  <1>1. PICK t \in m.tokens :
          LET s == [m EXCEPT !.tokens = @ \ {t}]
          IN  m' = IF Consumable(t) /\ MayAttach(s, s.rev)
                   THEN [Attach(s, s.rev, "browser") EXCEPT !.attached = TRUE, !.wsCall = t.call]
                   ELSE s
    BY Zenon DEF Connect
  <1> DEFINE s == [m EXCEPT !.tokens = @ \ {t}]
             n == [s EXCEPT !.session = s.rev, !.owner = "browser", !.attached = TRUE,
                            !.wsCall = t.call]
  <1>2. m' = s \/ (m' = n /\ s.rev # 0)
    BY <1>1 DEF MayAttach, Attach
  <1>3. UNCHANGED <<call, early>> /\ (shared => shared')
    BY Zenon DEF Connect
  <1>4. Fit(m, call.id) /\ t.call = call.id /\ m.rev # 0 /\ InMedia(call)
    BY Zenon DEF CallInv, Fit
  <1>5. MediaState(s) /\ s.tokens \subseteq m.tokens /\ \A f \in Fields \ {"tokens"} : s[f] = m[f]
    BY <1>4, Zenon DEF Fit, MediaState, Fields
  <1> HIDE DEF s
  <1>6. /\ s.attached = m.attached /\ s.rtp = m.rtp /\ s.rev = m.rev
        /\ s.owner = m.owner /\ s.session = m.session /\ s.up = m.up /\ s.wsCall = m.wsCall
        /\ s.peer = m.peer /\ s.peerCall = m.peerCall /\ s.sessions = m.sessions
        /\ s.listener = m.listener
    BY <1>5 DEF Fields
  <1>7. Gives(m, s, call.id)
    <2>1. Heard(m, call.id) => Heard(s, call.id)
      BY <1>6 DEF Heard
    <2> QED BY <1>4, <1>5, <1>6, <2>1, Indifferent, Zenon
  <1>8. /\ MediaState(n) /\ n.session = s.rev /\ n.owner = "browser" /\ n.attached = TRUE
        /\ n.wsCall = t.call
        /\ \A f \in Fields \ {"session", "owner", "attached", "wsCall"} : n[f] = s[f]
    BY <1>5, Zenon DEF MediaState, Fields
  <1> HIDE DEF n
  <1>9. /\ n.tokens = s.tokens /\ n.rtp = s.rtp /\ n.rev = s.rev /\ n.up = s.up
        /\ n.peer = s.peer /\ n.peerCall = s.peerCall /\ n.sessions = s.sessions
        /\ n.listener = s.listener
    BY <1>8 DEF Fields
  <1>10. Attached(s) = Attached(m) /\ Attached(n) = Attached(m)
    BY <1>6, <1>9 DEF Attached
  <1>11. Fit(n, call.id)
    BY <1>4, <1>6, <1>7, <1>8, <1>9, <1>10, Zenon DEF Gives, Fit
  <1>12. /\ Fit(m', call.id) /\ m'.up = m.up /\ m'.owner \in {m.owner, "browser"}
         /\ m'.sessions = m.sessions /\ m'.peerCall = m.peerCall /\ Attached(m') = Attached(m)
    BY <1>2, <1>6, <1>7, <1>8, <1>9, <1>10, <1>11, Zenon DEF Gives
  <1>13. Heard(m, call.id) => Heard(m', call.id)
    BY <1>12, Zenon DEF Heard
  <1>14. ~call.fresh /\ call.state # "idle"
    BY <1>4, Zenon DEF CallInv, InMedia
  <1>15. early # "attached" => \A p \in Attached(m') : m'.peerCall[p] = call.id
    BY <1>12, Zenon DEF CallInv
  <1>16. early # "attached" /\ ~shared' => Heard(m', call.id)
    BY <1>3, <1>13, Zenon DEF CallInv
  <1>17. \A x \in m'.sessions : x.rev \in 0..call.rev /\ (x.rev = call.rev => x.call = call.id)
    BY <1>12, Zenon DEF CallInv
  <1> QED BY <1>3, <1>4, <1>12, <1>14, <1>15, <1>16, <1>17, WithinCall, Zenon

\* qmodem_voip_rtp_attach: it is refused outside a call
LEMMA RtpAttachInv == CallInv /\ RtpAttach => CallInv'
  <1> SUFFICES ASSUME CallInv, RtpAttach PROVE CallInv'
    OBVIOUS
  <1> DEFINE s == RtpRelease(m)
  <1>1. PICK n : m' = s \/ (m' = [s EXCEPT !.session = n, !.owner = "rtp", !.rtp = TRUE] /\ n # 0)
    BY Zenon DEF RtpAttach, MayAttach, Attach
  <1> DEFINE r == [s EXCEPT !.session = n, !.owner = "rtp", !.rtp = TRUE]
  <1>2. UNCHANGED <<call, early>> /\ (shared => shared') /\ InMedia(call)
    <2>1. UNCHANGED <<call, early>> /\ InMedia(call)
      BY DEF RtpAttach, RtpAllowed
    <2>2. (\E b : shared' = (shared \/ b)) \/ UNCHANGED shared
      BY Zenon DEF RtpAttach
    <2>3. shared => shared'
      BY <2>2, Zenon
    <2> QED BY <2>1, <2>3
  <1>3. Fit(m, call.id) /\ ~call.fresh /\ call.state # "idle"
    BY <1>2 DEF CallInv, InMedia
  <1>4. Gives(m, s, call.id)
    BY <1>3, RtpReleaseGives
  <1> HIDE DEF s
  <1>5. /\ MediaState(r) /\ r.session = n /\ r.owner = "rtp" /\ r.rtp = TRUE
        /\ \A f \in Fields \ {"session", "owner", "rtp"} : r[f] = s[f]
    BY <1>4, Zenon DEF Gives, Fit, MediaState, Fields
  <1> HIDE DEF r
  <1>6. /\ r.tokens = s.tokens /\ r.attached = s.attached /\ r.rev = s.rev /\ r.up = s.up
        /\ r.peer = s.peer /\ r.peerCall = s.peerCall /\ r.sessions = s.sessions
        /\ r.listener = s.listener /\ r.wsCall = s.wsCall
    BY <1>5 DEF Fields
  <1>7. Attached(r) = Attached(s)
    BY <1>6 DEF Attached
  <1>8. n # 0 => Fit(r, call.id)
    BY <1>4, <1>5, <1>6, <1>7, Zenon DEF Gives, Fit
  <1>9. Heard(m, call.id) => Heard(r, call.id)
    BY <1>4, <1>5, <1>6 DEF Gives, Heard
  <1>10. /\ Fit(m', call.id) /\ (Heard(m, call.id) => Heard(m', call.id))
         /\ m'.sessions \subseteq m.sessions
         /\ \A p \in Attached(m') : p \in Attached(m) /\ m'.peerCall[p] = m.peerCall[p]
    <2>1. CASE m' = s
      BY <1>4, <2>1 DEF Gives
    <2>2. CASE m' = r /\ n # 0
      BY <1>4, <1>6, <1>7, <1>8, <1>9, <2>2, Zenon DEF Gives
    <2> QED BY <1>1, <2>1, <2>2 DEF r
  <1>11. early # "attached" => \A p \in Attached(m') : m'.peerCall[p] = call.id
    BY <1>10, Zenon DEF CallInv
  <1>12. early # "attached" /\ ~shared' => Heard(m', call.id)
    BY <1>2, <1>10, Zenon DEF CallInv
  <1>13. \A x \in m'.sessions : x.rev \in 0..call.rev /\ (x.rev = call.rev => x.call = call.id)
    BY <1>10, Zenon DEF CallInv
  <1> QED BY <1>2, <1>3, <1>10, <1>11, <1>12, <1>13, WithinCall, Zenon

\* qmodem_voip_socket_session_method: outside a call the session is early, and at the
\* next revision of the call it is void
LEMMA SocketSessionInv == CallInv /\ SocketSession => CallInv'
  <1> SUFFICES ASSUME CallInv, SocketSession PROVE CallInv'
    OBVIOUS
  <1>1. PICK id : m' = [m EXCEPT !.sessions =
                          @ \cup {[id |-> id, rev |-> call.rev, call |-> call.id]}]
    BY DEF SocketSession
  <1> DEFINE x == [id |-> id, rev |-> call.rev, call |-> call.id]
  <1>2. /\ UNCHANGED <<call, shared>> /\ (early' # "attached" => early # "attached")
        /\ (early' = "no" => InMedia(call))
    BY DEF SocketSession
  <1>3. Fit(m, call.id) /\ call.rev \in Nat
    BY DEF CallInv
  <1>4. x.rev = call.rev /\ x.call = call.id
    OBVIOUS
  <1> HIDE DEF x
  <1>5. /\ MediaState(m') /\ m'.sessions = m.sessions \cup {x}
        /\ \A f \in Fields \ {"sessions"} : m'[f] = m[f]
    BY <1>1, <1>3, Zenon DEF Fit, MediaState, Fields, x
  <1>6. /\ m'.tokens = m.tokens /\ m'.attached = m.attached /\ m'.rev = m.rev /\ m'.up = m.up
        /\ m'.peer = m.peer /\ m'.peerCall = m.peerCall /\ m'.owner = m.owner
        /\ m'.listener = m.listener /\ m'.wsCall = m.wsCall /\ m'.rtp = m.rtp
        /\ m'.session = m.session
    BY <1>5 DEF Fields
  <1>7. Attached(m') = Attached(m)
    BY <1>6 DEF Attached
  <1>8. Fit(m', call.id)
    BY <1>3, <1>5, <1>6, <1>7, Zenon DEF Fit
  <1>9. early' # "attached" /\ ~shared => Heard(m', call.id)
    BY <1>2, <1>6, Zenon DEF CallInv, Heard
  <1>10. \A y \in m'.sessions : y.rev \in 0..call.rev /\ (y.rev = call.rev => y.call = call.id)
    <2> SUFFICES ASSUME NEW y \in m'.sessions
                 PROVE  y.rev \in 0..call.rev /\ (y.rev = call.rev => y.call = call.id)
      OBVIOUS
    <2>1. CASE y = x
      BY <1>3, <1>4, <2>1
    <2>2. CASE y \in m.sessions
      BY <2>2, Zenon DEF CallInv
    <2> QED BY <1>5, <2>1, <2>2
  <1>11. early' # "attached" => /\ call.fresh => m'.owner = "none"
                                /\ \A p \in Attached(m') : m'.peerCall[p] = call.id /\ ~call.fresh
    BY <1>2, <1>6, <1>7, Zenon DEF CallInv
  <1>12. call.state = "idle" => early' # "no"
    BY <1>2 DEF InMedia
  <1>13. m'.rev # 0 => InMedia(call)
    BY <1>6, Zenon DEF CallInv
  <1> QED BY <1>2, <1>8, <1>9, <1>10, <1>11, <1>12, <1>13, WithinCall, Zenon

\* channel_peer, ATTACH: the session is of this revision, so of this call
LEMMA PeerAttachesInv ==
    ASSUME CallInv, NEW p \in Peers, PeerAttaches(p)
    PROVE  CallInv'
  <1>1. PICK s \in {x \in m.sessions : Valid(x)}
                   \cup {[id |-> Login, rev |-> call.rev, call |-> call.id]} :
          /\ MayAttach(m, s.id)
          /\ m' = [m EXCEPT !.session = s.id, !.owner = "socket", !.peer[p] = "attached",
                            !.peerCall[p] = s.call]
    BY Zenon DEF PeerAttaches, Attach
  <1>2. s.call = call.id /\ s.id # 0
    BY <1>1 DEF Valid, CallInv, MayAttach
  <1>3. /\ UNCHANGED call /\ (shared => shared')
        /\ (early' # "attached" => early # "attached" /\ InMedia(call))
        /\ (early' = "no" => InMedia(call))
    BY Zenon DEF PeerAttaches
  <1>4. Fit(m, call.id)
    BY Zenon DEF CallInv
  <1>5. /\ MediaState(m') /\ m'.session = s.id /\ m'.owner = "socket"
        /\ m'.peer = [m.peer EXCEPT ![p] = "attached"]
        /\ m'.peerCall = [m.peerCall EXCEPT ![p] = s.call]
        /\ \A f \in Fields \ {"session", "owner", "peer", "peerCall"} : m'[f] = m[f]
    BY <1>1, <1>4, Zenon DEF Fit, MediaState, Fields
  <1>6. /\ m'.tokens = m.tokens /\ m'.attached = m.attached /\ m'.rev = m.rev /\ m'.up = m.up
        /\ m'.listener = m.listener /\ m'.wsCall = m.wsCall /\ m'.rtp = m.rtp
        /\ m'.sessions = m.sessions
    BY <1>5, Zenon DEF Fields
  <1>7. Attached(m') = Attached(m) \cup {p}
    BY <1>4, <1>5, Zenon DEF Attached, Fit, MediaState
  <1>8. /\ m'.peerCall = [q \in Peers |-> m'.peerCall[q]] /\ m'.peerCall[p] = call.id
        /\ \A q \in Peers \ {p} : m'.peerCall[q] = m.peerCall[q]
    BY <1>2, <1>4, <1>5, Zenon DEF Fit
  <1>9. Fit(m', call.id)
    BY <1>2, <1>4, <1>5, <1>6, <1>7, <1>8, Zenon DEF Fit
  <1>10. early' # "attached" /\ ~shared' => Heard(m', call.id)
    BY <1>3, <1>5, <1>6, Zenon DEF CallInv, Heard
  <1>11. InMedia(call) => ~call.fresh /\ call.state # "idle"
    BY Zenon DEF CallInv, InMedia
  <1>12. early' # "attached" => \A q \in Attached(m') : m'.peerCall[q] = call.id /\ ~call.fresh
    <2>1. early # "attached" => \A q \in Attached(m) : q \in Peers /\ m.peerCall[q] = call.id
      BY Zenon DEF CallInv, Attached
    <2> QED BY <1>3, <1>7, <1>8, <1>11, <2>1, Zenon
  <1>13. /\ m'.rev # 0 => InMedia(call)
         /\ \A x \in m'.sessions : x.rev \in 0..call.rev /\ (x.rev = call.rev => x.call = call.id)
    BY <1>6, Zenon DEF CallInv
  <1> QED BY <1>3, <1>9, <1>10, <1>11, <1>12, <1>13, WithinCall, Zenon

\* channel_accept and the end of a peer: an attached one gives the engine back
LEMMA PeerInv ==
    ASSUME CallInv, NEW p \in Peers, PeerConnects(p) \/ PeerLeaves(p)
    PROVE  CallInv'
  <1>1. Fit(m, call.id) /\ UNCHANGED <<call, early, shared>> /\ (m.rev # 0 => InMedia(call))
    BY DEF CallInv, PeerConnects, PeerLeaves
  <1>2. PICK d, left, k :
          /\ m' = [d EXCEPT !.peer[p] = left, !.peerCall[p] = k] /\ left # "attached"
          /\ d = IF m.peer[p] = "attached" THEN Detach(m) ELSE m
    <2>1. CASE PeerConnects(p)
      <3>1. m' = [m EXCEPT !.peer[p] = "open"] /\ m.peer[p] # "attached"
        BY <2>1 DEF PeerConnects
      <3>2. m' = [m EXCEPT !.peer[p] = "open", !.peerCall[p] = m.peerCall[p]]
        BY <1>1, <3>1, Zenon DEF Fit, MediaState, Fields
      <3> QED BY <3>1, <3>2, Zenon
    <2>2. CASE PeerLeaves(p)
      BY <2>2, Zenon DEF PeerLeaves
    <2> QED BY <2>1, <2>2, Zenon
  <1>3. /\ Gives(m, d, call.id) /\ d.peer = m.peer /\ d.peerCall = m.peerCall /\ d.rev = m.rev
        /\ m.peer[p] = "attached" => d.owner = "none"
    <2>1. CASE m.peer[p] = "attached"
      <3>1. d = Detach(m)
        BY <1>2, <2>1
      <3>2. /\ Gives(m, d, call.id) /\ d.owner = "none"
            /\ \A f \in Fields \ {"session", "owner", "capture", "down", "up"} : d[f] = m[f]
        BY <1>1, <3>1, DetachGives
      <3> QED BY <3>2 DEF Fields
    <2>2. CASE m.peer[p] # "attached"
      BY <1>1, <1>2, <2>2 DEF Gives
    <2> QED BY <2>1, <2>2, Zenon
  <1>4. /\ MediaState(m') /\ m'.peer = [m.peer EXCEPT ![p] = left]
        /\ m'.peerCall = [m.peerCall EXCEPT ![p] = k]
        /\ \A f \in Fields \ {"peer", "peerCall"} : m'[f] = d[f]
    BY <1>1, <1>2, <1>3, Zenon DEF Gives, Fit, MediaState, Fields
  <1>5. /\ m'.tokens = d.tokens /\ m'.attached = d.attached /\ m'.rev = d.rev /\ m'.up = d.up
        /\ m'.listener = d.listener /\ m'.wsCall = d.wsCall /\ m'.rtp = d.rtp
        /\ m'.sessions = d.sessions /\ m'.owner = d.owner /\ m'.session = d.session
    BY <1>4, Zenon DEF Fields
  <1>6. /\ Attached(d) = Attached(m) /\ Attached(m') = Attached(m) \ {p}
        /\ m'.peerCall = [q \in Peers |-> m'.peerCall[q]]
        /\ \A q \in Peers \ {p} : m'.peerCall[q] = m.peerCall[q]
    <2>1. Attached(d) = Attached(m)
      BY <1>3, Zenon DEF Attached
    <2>2. /\ m.peer = [q \in Peers |-> m.peer[q]]
          /\ m.peerCall = [q \in Peers |-> m.peerCall[q]]
      BY <1>1 DEF Fit, MediaState
    <2>3. m'.peer[p] = left /\ \A q \in Peers \ {p} : m'.peer[q] = m.peer[q]
      BY <1>4, <2>2
    <2>4. Attached(m') = Attached(m) \ {p}
      BY <1>2, <2>3 DEF Attached
    <2> QED BY <1>4, <2>1, <2>2, <2>4, Zenon
  <1>7. m'.owner = "socket" => Attached(m') # {}
    BY <1>3, <1>5, <1>6 DEF Attached, Gives, Fit
  <1>8. Fit(m', call.id)
    BY <1>3, <1>4, <1>5, <1>6, <1>7, Zenon DEF Gives, Fit
  <1>9. Gives(m, m', call.id)
    <2>1. Heard(m, call.id) => Heard(m', call.id)
      BY <1>3, <1>5, Zenon DEF Gives, Heard
    <2>2. \A q \in Attached(m') : q \in Attached(m) /\ m'.peerCall[q] = m.peerCall[q]
      BY <1>6, Zenon DEF Attached
    <2>3. /\ m'.sessions \subseteq m.sessions /\ m'.owner \in {m.owner, "none"}
          /\ m'.rtp => m.rtp
      BY <1>3, <1>5, Zenon DEF Gives
    <2> QED BY <1>8, <2>1, <2>2, <2>3, Zenon DEF Gives
  <1> QED BY <1>1, <1>3, <1>5, <1>9, SameCallInv, Zenon

\* What is said is said in this call, and only an owner says anything
LEMMA UplinkInv == Inv /\ CallInv /\ Uplink => CallInv'
  <1> SUFFICES ASSUME Inv, CallInv, Uplink PROVE CallInv'
    OBVIOUS
  <1> DEFINE q == IF Len(m.up) = QueueFrames THEN Tail(m.up) ELSE m.up
             u == Append(q, call.id)
  <1>1. /\ UNCHANGED <<call, early, shared>> /\ m' = [m EXCEPT !.up = u]
        /\ m.attached \/ Attached(m) # {} \/ m.rtp
    BY DEF Uplink, Push
  <1>2. Fit(m, call.id) /\ call.id \in Nat
    BY Zenon DEF CallInv
  <1> HIDE DEF u
  <1>3. MediaState(m') /\ m'.up = u /\ \A f \in Fields \ {"up"} : m'[f] = m[f]
    BY <1>1, <1>2, Zenon DEF Fit, MediaState, Fields
  <1>4. /\ m'.tokens = m.tokens /\ m'.attached = m.attached /\ m'.rev = m.rev
        /\ m'.peer = m.peer /\ m'.peerCall = m.peerCall /\ m'.owner = m.owner
        /\ m'.listener = m.listener /\ m'.wsCall = m.wsCall /\ m'.rtp = m.rtp
        /\ m'.session = m.session /\ m'.sessions = m.sessions
    BY <1>3 DEF Fields
  <1>5. Attached(m') = Attached(m)
    BY <1>4 DEF Attached
  <1>6. Fit(m', call.id)
    BY <1>2, <1>3, <1>4, <1>5, Zenon DEF Fit
  <1>7. ~shared => m.owner # "none"
    BY <1>1 DEF Inv, Good, Owned
  <1>8. Heard(m, call.id) /\ ~shared => Heard(m', call.id)
    <2> SUFFICES ASSUME Heard(m, call.id), ~shared PROVE Heard(m', call.id)
      OBVIOUS
    <2>1. m.up \in Seq(Nat) /\ \A i \in 1..Len(m.up) : m.up[i] = call.id
      BY DEF Heard
    <2>2. QueueFrames \in Nat \ {0}
      BY QueueAssumption
    <2>3. q \in Seq(Nat) /\ \A i \in 1..Len(q) : q[i] = call.id
      <3>1. CASE Len(m.up) = QueueFrames
        <4>1. m.up # <<>>
          BY <2>1, <2>2, <3>1
        <4>2. /\ Tail(m.up) \in Seq(Nat) /\ Len(Tail(m.up)) = Len(m.up) - 1
              /\ \A i \in 1..Len(Tail(m.up)) : Tail(m.up)[i] = m.up[i + 1]
          BY <2>1, <4>1
        <4>3. \A i \in 1..Len(Tail(m.up)) : i + 1 \in 1..Len(m.up)
          BY <2>1, <4>2
        <4> QED BY <2>1, <3>1, <4>2, <4>3
      <3>2. CASE Len(m.up) # QueueFrames
        BY <2>1, <3>2
      <3> QED BY <3>1, <3>2, Zenon
    <2> HIDE DEF q
    <2>4. u \in Seq(Nat) /\ \A i \in 1..Len(u) : u[i] = call.id
      BY <1>2, <2>3 DEF u
    <2> QED BY <1>3, <1>4, <1>7, <2>4, Zenon DEF Heard
  <1>9. early # "attached" /\ ~shared => Heard(m', call.id)
    BY <1>8, Zenon DEF CallInv
  <1>10. early # "attached" => /\ call.fresh => m'.owner = "none"
                               /\ \A p \in Attached(m') : m'.peerCall[p] = call.id /\ ~call.fresh
    BY <1>4, <1>5, Zenon DEF CallInv
  <1>11. /\ call.state = "idle" /\ early = "no" => m'.sessions = {} /\ m'.session = 0 /\ ~m'.rtp
         /\ m'.rev # 0 => InMedia(call)
         /\ \A x \in m'.sessions : x.rev \in 0..call.rev /\ (x.rev = call.rev => x.call = call.id)
    BY <1>4, Zenon DEF CallInv
  <1> QED BY <1>1, <1>6, <1>9, <1>10, <1>11, WithinCall

\* qmodem_voip_browser_timer: a frame that is sent or played leaves the others
LEMMA TimerInv == CallInv /\ BrowserTimer => CallInv'
  <1> SUFFICES ASSUME CallInv, BrowserTimer PROVE CallInv'
    OBVIOUS
  <1> DEFINE s == Sync(m, call)
  <1>1. UNCHANGED <<call, early, shared>> /\ Fit(m, call.id) /\ call.rev # 0
    BY DEF BrowserTimer, CallInv
  <1>2. Gives(m, s, call.id) /\ (s.rev # 0 => InMedia(call))
    BY <1>1, SyncGives, Zenon
  <1>3. PICK b, q, u : /\ m' = [s EXCEPT !.server = b, !.down = q, !.up = u]
                       /\ u = s.up \/ (s.up # <<>> /\ u = Tail(s.up))
    <2> DEFINE t == [s EXCEPT !.server = @ \/ s.ready]
    <2>1. PICK sent \in BOOLEAN, played \in BOOLEAN :
            /\ m' = [t EXCEPT !.down = IF sent THEN Tail(@) ELSE @,
                              !.up = IF played THEN Tail(@) ELSE @]
            /\ played => t.up # <<>>
      BY Zenon DEF BrowserTimer
    <2>2. MediaState(s)
      BY <1>2, Zenon DEF Gives, Fit
    <2> HIDE DEF s
    <2>3. t = [s EXCEPT !.server = s.server \/ s.ready] /\ t.down = s.down /\ t.up = s.up
      BY <2>2 DEF MediaState, Fields
    <2>4. m' = [s EXCEPT !.server = s.server \/ s.ready,
                         !.down = IF sent THEN Tail(s.down) ELSE s.down,
                         !.up = IF played THEN Tail(s.up) ELSE s.up]
      BY <2>1, <2>3
    <2> DEFINE bb == s.server \/ s.ready
               qq == IF sent THEN Tail(s.down) ELSE s.down
               uu == IF played THEN Tail(s.up) ELSE s.up
    <2>5. /\ m' = [s EXCEPT !.server = bb, !.down = qq, !.up = uu]
          /\ uu = s.up \/ (s.up # <<>> /\ uu = Tail(s.up))
      BY <2>1, <2>3, <2>4
    <2> HIDE DEF bb, qq, uu
    <2> QED BY <2>5, Zenon
  <1> HIDE DEF s
  <1>4. MediaState(m') /\ m'.up = u /\ \A f \in Fields \ {"server", "down", "up"} : m'[f] = s[f]
    BY <1>2, <1>3, Zenon DEF Gives, Fit, MediaState, Fields
  <1>5. /\ m'.tokens = s.tokens /\ m'.attached = s.attached /\ m'.rev = s.rev
        /\ m'.peer = s.peer /\ m'.peerCall = s.peerCall /\ m'.owner = s.owner
        /\ m'.listener = s.listener /\ m'.wsCall = s.wsCall /\ m'.rtp = s.rtp
        /\ m'.session = s.session /\ m'.sessions = s.sessions
    BY <1>4, Zenon DEF Fields
  <1>6. Heard(s, call.id) => Heard(m', call.id)
    <2> SUFFICES ASSUME Heard(s, call.id) PROVE Heard(m', call.id)
      OBVIOUS
    <2>1. CASE u = s.up
      BY <1>4, <1>5, <2>1 DEF Heard
    <2>2. CASE s.up # <<>> /\ u = Tail(s.up)
      <3>1. s.up \in Seq(Nat) /\ \A i \in 1..Len(s.up) : s.up[i] = call.id
        BY DEF Heard
      <3>2. /\ u \in Seq(Nat) /\ Len(u) = Len(s.up) - 1
            /\ \A i \in 1..Len(u) : u[i] = s.up[i + 1]
        BY <2>2, <3>1
      <3>3. \A i \in 1..Len(u) : i + 1 \in 1..Len(s.up)
        BY <3>1, <3>2
      <3>4. s.owner # "none"
        BY <2>2 DEF Heard
      <3> QED BY <1>4, <1>5, <3>1, <3>2, <3>3, <3>4 DEF Heard
    <2> QED BY <1>3, <2>1, <2>2
  <1>7. Gives(s, m', call.id)
    BY <1>2, <1>4, <1>5, <1>6, Indifferent, Zenon DEF Gives
  <1> QED BY <1>1, <1>2, <1>5, <1>7, GivesMore, SameCallInv, Zenon

\* steps that only drop or rearrange what the daemon has
LEMMA QuietInv ==
    ASSUME CallInv, \/ EngineFails \/ Closed \/ Expire \/ RtpReleaseMethod
                    \/ CaptureReads \/ CapturePushes
    PROVE  CallInv'
  <1>1. UNCHANGED <<call, early, shared>> /\ Fit(m, call.id) /\ (m.rev # 0 => InMedia(call))
    BY DEF EngineFails, Closed, Expire, RtpReleaseMethod, CaptureReads, CapturePushes, CallInv
  <1>2. Gives(m, m', call.id) /\ m'.rev = m.rev
    <2>1. CASE EngineFails
      BY <1>1, <2>1, ReadyGives DEF EngineFails
    <2>2. CASE Closed
      <3>1. /\ MediaState(m') /\ m'.attached = FALSE
            /\ \A f \in Fields \ {"attached", "wsCall"} : m'[f] = m[f]
        BY <1>1, <2>2, Zenon DEF Closed, Fit, MediaState, Fields
      <3>2. /\ m'.tokens = m.tokens /\ m'.rev = m.rev /\ m'.up = m.up
            /\ m'.peer = m.peer /\ m'.peerCall = m.peerCall /\ m'.owner = m.owner
            /\ m'.listener = m.listener /\ m'.rtp = m.rtp
            /\ m'.session = m.session /\ m'.sessions = m.sessions
        BY <3>1, Zenon DEF Fields
      <3>3. Attached(m') = Attached(m)
        BY <3>2, Zenon DEF Attached
      <3>4. Fit(m', call.id)
        BY <1>1, <3>1, <3>2, <3>3, Zenon DEF Fit
      <3> QED BY <3>2, <3>3, <3>4, Zenon DEF Gives, Heard
    <2>3. CASE Expire \/ CapturePushes
      <3>1. PICK k, ss, q : /\ m' = [m EXCEPT !.tokens = k, !.sessions = ss, !.down = q]
                            /\ k \subseteq m.tokens /\ ss \subseteq m.sessions
        <4>1. \A k, ss, q :
                /\ [m EXCEPT !.tokens = k] = [m EXCEPT !.tokens = k, !.sessions = m.sessions,
                                                       !.down = m.down]
                /\ [m EXCEPT !.sessions = ss] = [m EXCEPT !.tokens = m.tokens, !.sessions = ss,
                                                          !.down = m.down]
                /\ [m EXCEPT !.down = q] = [m EXCEPT !.tokens = m.tokens,
                                                     !.sessions = m.sessions, !.down = q]
          BY <1>1, Zenon DEF Fit, MediaState, Fields
        <4>2. \/ \E k : k \subseteq m.tokens /\ m' = [m EXCEPT !.tokens = k]
              \/ \E ss : ss \subseteq m.sessions /\ m' = [m EXCEPT !.sessions = ss]
              \/ \E q : m' = [m EXCEPT !.down = q]
          BY <2>3 DEF Expire, CapturePushes
        <4> DEFINE Shape(k, ss, q) ==
                     /\ m' = [m EXCEPT !.tokens = k, !.sessions = ss, !.down = q]
                     /\ k \subseteq m.tokens /\ ss \subseteq m.sessions
        <4>3. CASE \E k : k \subseteq m.tokens /\ m' = [m EXCEPT !.tokens = k]
          <5>1. PICK k : k \subseteq m.tokens /\ m' = [m EXCEPT !.tokens = k]
            BY <4>3
          <5>2. Shape(k, m.sessions, m.down)
            BY <4>1, <5>1, Zenon
          <5> QED BY <5>2, Zenon
        <4>4. CASE \E ss : ss \subseteq m.sessions /\ m' = [m EXCEPT !.sessions = ss]
          <5>1. PICK ss : ss \subseteq m.sessions /\ m' = [m EXCEPT !.sessions = ss]
            BY <4>4
          <5>2. Shape(m.tokens, ss, m.down)
            BY <4>1, <5>1, Zenon
          <5> QED BY <5>2, Zenon
        <4>5. CASE \E q : m' = [m EXCEPT !.down = q]
          BY <4>1, <4>5, Zenon
        <4> QED BY <4>2, <4>3, <4>4, <4>5, Zenon
      <3>2. /\ MediaState(m') /\ m'.tokens = k /\ m'.sessions = ss
            /\ \A f \in Fields \ {"tokens", "sessions", "down"} : m'[f] = m[f]
        BY <1>1, <3>1, Zenon DEF Fit, MediaState, Fields
      <3>3. /\ m'.attached = m.attached /\ m'.rev = m.rev /\ m'.up = m.up
            /\ m'.peer = m.peer /\ m'.peerCall = m.peerCall /\ m'.owner = m.owner
            /\ m'.listener = m.listener /\ m'.rtp = m.rtp /\ m'.wsCall = m.wsCall
            /\ m'.session = m.session
        BY <3>2 DEF Fields
      <3>4. Heard(m, call.id) => Heard(m', call.id)
        BY <3>3 DEF Heard
      <3> QED BY <1>1, <3>1, <3>2, <3>3, <3>4, Indifferent, Zenon
    <2>4. CASE RtpReleaseMethod
      <3>1. m' = RtpRelease(m) /\ m.rtp
        BY <2>4 DEF RtpReleaseMethod
      <3>2. RtpRelease(m).rev = m.rev
        BY <1>1, <3>1 DEF RtpRelease, Detach, Fit, MediaState, Fields
      <3> QED BY <1>1, <3>1, <3>2, RtpReleaseGives
    <2>5. CASE CaptureReads
      BY <1>1, <2>5, Zenon DEF CaptureReads, Gives, Heard
    <2> QED BY <2>1, <2>2, <2>3, <2>4, <2>5, Zenon
  <1> QED BY <1>1, <1>2, SameCallInv

LEMMA NextCallInv == Inv /\ CallInv /\ [Next]_vars => CallInv'
  <1> SUFFICES ASSUME Inv, CallInv, [Next]_vars PROVE CallInv'
    OBVIOUS
  <1>1. /\ \A id : Fit(m, id) => Gives(m, m, id) /\ Gives(m, Prepared, id)
        /\ \A id : Fit(m, id) => Gives(m, [m EXCEPT !.ready = TRUE], id)
    <2>1. \A id : Fit(m, id) => Gives(m, m, id)
      BY DEF Gives
    <2> QED BY <2>1, CaptureGives, ReadyGives DEF Prepared
  <1>2. CASE Originate
    <2>1. PICK browser, state : Change(state, browser, FALSE, Prepared)
      BY <1>2, Zenon DEF Originate
    <2>2. UNCHANGED <<early, shared>>
      BY <1>2 DEF Originate
    <2> HIDE DEF Prepared
    <2> QED BY <1>1, <2>1, <2>2, ChangeInv, Zenon
  <1>3. CASE Answer
    <2>1. UNCHANGED <<early, shared>>
      BY <1>3 DEF Answer
    <2>2. CASE \E browser : Change("active", call.browser \/ browser, TRUE, Prepared)
      BY <1>1, <2>1, <2>2, ChangeInv, Zenon
    <2>3. CASE m' = Prepared /\ UNCHANGED call
      <3>1. Fit(m, call.id) /\ (m.rev # 0 => InMedia(call))
        BY Zenon DEF CallInv
      <3>2. Prepared.rev = m.rev
        BY <3>1, CaptureGives DEF Prepared
      <3> QED BY <1>1, <2>1, <2>3, <3>1, <3>2, SameCallInv
    <2> QED BY <1>3, <2>2, <2>3, Zenon DEF Answer
  <1>4. CASE Hangup \/ Row \/ Release \/ Notice \/ Fault
    <2>1. (\E state : Move(state)) /\ UNCHANGED <<early, shared>>
      BY <1>4 DEF Hangup, Row, Release, Notice, Fault
    <2> QED BY <1>1, <2>1, ChangeInv DEF Move
  <1>5. CASE Enable
    BY <1>1, <1>5, ChangeInv, Zenon DEF Enable
  <1>6. CASE Disable
    <2> DEFINE s == [Detach(SocketStop(RtpRelease(BrowserStop(m)))) EXCEPT !.ready = FALSE]
    <2>1. Change("disabled", FALSE, FALSE, s) /\ UNCHANGED <<early, shared>>
      BY <1>6, Zenon DEF Disable
    <2>2. \A id : Fit(m, id) => Gives(m, s, id)
      BY StoppedGives
    <2> HIDE DEF s
    <2> QED BY <2>1, <2>2, ChangeInv, Zenon
  <1>7. CASE EngineFails \/ Closed \/ Expire \/ RtpReleaseMethod \/ CaptureReads \/ CapturePushes
    BY <1>7, QuietInv
  <1>8. CASE MediaToken
    BY <1>8, TokenInv
  <1>9. CASE Connect
    BY <1>9, ConnectInv
  <1>10. CASE RtpAttach
    BY <1>10, RtpAttachInv
  <1>11. CASE SocketSession
    BY <1>11, SocketSessionInv
  <1>12. CASE \E p \in Peers : PeerConnects(p) \/ PeerAttaches(p) \/ PeerLeaves(p)
    BY <1>12, PeerInv, PeerAttachesInv
  <1>13. CASE Uplink
    BY <1>13, UplinkInv
  <1>14. CASE BrowserTimer
    BY <1>14, TimerInv
  <1>15. CASE UNCHANGED vars
    BY <1>15, Zenon DEF vars, CallInv, Fit, Heard, MediaState, Attached, InMedia
  <1> QED BY <1>2, <1>3, <1>4, <1>5, <1>6, <1>7, <1>8, <1>9, <1>10, <1>11, <1>12, <1>13,
             <1>14, <1>15 DEF Next

\* the two invariants together, since what is said takes an owner
LEMMA AlwaysCallInv == Spec => [](Inv /\ CallInv)
  BY InitInv, InitCallInv, NextInv, NextCallInv, PTL DEF Spec

\* A client that is attached talks and listens in the call its token or session was
\* issued for: browser_callback checks the revision, channel_peer the session, and
\* publish_event voids both before the next call.
THEOREM AudioOfOwnCall == Spec => []OwnCallOnly
  <1>1. CallInv => OwnCallOnly
    BY Zenon DEF CallInv, Fit, OwnCallOnly
  <1> QED BY <1>1, AlwaysCallInv, PTL

\* The end of a call gives the engine back and voids every token and session, whoever
\* used it and however the call ended.
THEOREM CallsLeaveNothing == Spec => []NothingLeft
  <1>1. CallInv => NothingLeft
    <2> SUFFICES ASSUME CallInv, call.state = "idle", early = "no"
                 PROVE  m.session = 0 /\ m.tokens = {} /\ m.sessions = {} /\ ~m.attached /\ ~m.rtp
      BY DEF NothingLeft
    <2>1. m.rev = 0 /\ Fit(m, call.id)
      BY Zenon DEF CallInv, InMedia
    <2> QED BY <2>1, Zenon DEF CallInv, Fit
  <1> QED BY <1>1, AlwaysCallInv, PTL

\* The far end hears nothing that was said in an earlier call: the queue is emptied
\* whenever the engine is given back, and filled by an owner only.
THEOREM FarEndHearsThisCall == Spec => []UplinkOfThisCall
  <1>1. CallInv => UplinkOfThisCall
    BY Zenon DEF CallInv, Heard, UplinkOfThisCall
  <1> QED BY <1>1, AlwaysCallInv, PTL
===============================================================================
