----------------------------- MODULE MCLineEvents -----------------------------
(* Two ports sharing a ring of two entries; one of them is created anew.   *)
EXTENDS LineEvents

CONSTANTS p1, p2

PortsValue == {p1, p2}
RenewableValue == {p1}
===============================================================================
