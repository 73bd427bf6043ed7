------------------------------- MODULE MCCallState -------------------------------
(* CallState for TLC.                                                       *)
EXTENDS CallState

CONSTANTS browser, lan_sip
EndpointsValue == {browser, lan_sip}
===============================================================================
