------------------------------ MODULE MCService ------------------------------
(* Instances of Service with one value: what is voted for plays no part.    *)
EXTENDS Service

CONSTANT block
==============================================================================
