----------------------------- MODULE MCModemSafety -----------------------------
(* Small instances of ModemSafety: a modem that had IMS on before voice mode *)
EXTENDS ModemSafety

BaselineValue == [k \in Settings |-> IF k = "ims" THEN "voip" ELSE "base"]
===============================================================================
