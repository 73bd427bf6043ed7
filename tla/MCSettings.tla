------------------------------- MODULE MCSettings -------------------------------
(* Settings for TLC: the constants are given in the configurations.         *)
EXTENDS Settings
===============================================================================
