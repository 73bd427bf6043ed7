------------------------------ MODULE MCVoipMedia ------------------------------
(* A small instance of VoipMedia.  One of the RTP sessions is also a call revision. *)
EXTENDS VoipMedia, TLC

CONSTANTS p1, p2, s1, login
PeersValue == {p1, p2}
SessionIdsValue == {s1}
RtpSessionsValue == {4, 100}
PeerSymmetry == Permutations(PeersValue)
===============================================================================
