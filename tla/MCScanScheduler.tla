---------------------------- MODULE MCScanScheduler ----------------------------
(* Small instances of ScanScheduler *)
EXTENDS ScanScheduler

CONSTANTS s1, s2, w1, w2

SlotsValue == {s1, s2}
OneSlot == {s1}
OwnSlots == [s \in Slots |-> s]
WorkersValue == {w1, w2}
===============================================================================
