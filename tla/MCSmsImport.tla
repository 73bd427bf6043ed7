------------------------------ MODULE MCSmsImport ------------------------------
(* Small instances of SmsImport *)
EXTENDS SmsImport, TLC

CONSTANTS a1, a2, c, w, m1, m2

Msg(m, ref, n, name) == [modem |-> m, reference |-> ref, total |-> n, name |-> name]
PartValue == a1 :> 1 @@ a2 :> 2 @@ c :> 1 @@ w :> 3

\* a message in two parts, one in one part, and a part with a number out of range
TwoMessages == {a1, a2, c, w}
OneModem == {m1}
TwoModems == {m1, m2}

OneModemMessages ==
    a1 :> Msg(m1, 1, 2, "a") @@ a2 :> Msg(m1, 1, 2, "a") @@ c :> Msg(m1, 0, 1, "c")
    @@ w :> Msg(m1, 1, 2, "a")
\* message a on one modem, message c on the other
TwoModemMessages ==
    a1 :> Msg(m1, 1, 2, "a") @@ a2 :> Msg(m1, 1, 2, "a") @@ c :> Msg(m2, 0, 1, "c")
    @@ w :> Msg(m1, 1, 2, "a")
===============================================================================
