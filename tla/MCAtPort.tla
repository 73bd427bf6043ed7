-------------------------------- MODULE MCAtPort --------------------------------
(* AtPort for TLC: the constants are given in the configurations.           *)
EXTENDS AtPort
===============================================================================
