------------------------------ MODULE MCLifetime ------------------------------
(* An instance of ProcessLifetime.                                           *)
EXTENDS ProcessLifetime
=============================================================================
