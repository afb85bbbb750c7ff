---------------------- MODULE MCFinalizationRegistry ----------------------
(* Instances of FinalizationRegistry for TLC.                              *)
EXTENDS FinalizationRegistry
=============================================================================
