------------------------------ MODULE MCCatchup ------------------------------
(* Instances of Catchup: small pipelines around a protocol upgrade.         *)
EXTENDS Catchup
=============================================================================
