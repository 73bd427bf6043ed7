------------------------------ MODULE MCAtCommand ------------------------------
(* Small instances of AtCommand *)
EXTENDS AtCommand

\* a query and an SMS prompt; a call that ends is announced by NO CARRIER
CommandTypesValue == {[answer |-> <<"data", "ok">>, flags |-> {"ok", "no_carrier"}],
                      [answer |-> <<"prompt">>, flags |-> {"prompt"}]}
UrcKindsValue == {"no_carrier", "ring"}
===============================================================================
