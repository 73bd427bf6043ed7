------------------------------- MODULE MCSmsSend -------------------------------
(* Small instances of SmsSend *)
EXTENDS SmsSend, TLC

CONSTANTS r1, r2, p1, p2
RequestsValue == {r1, r2}
PayloadsValue == {p1, p2}
PartsValue == p1 :> 1 @@ p2 :> 2
===============================================================================
