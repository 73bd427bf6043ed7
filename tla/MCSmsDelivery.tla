----------------------------- MODULE MCSmsDelivery -----------------------------
(* Small instances of SmsDelivery *)
EXTENDS SmsDelivery

CONSTANTS web, sip
TargetsValue == {web, sip}
===============================================================================
