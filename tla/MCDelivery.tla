------------------------------ MODULE MCDelivery ------------------------------
(* An instance of SampleDelivery: identifiers with the invalid zero, one     *)
(* coordinate that is finite and one that is not, times on both sides of the *)
(* epoch, one status too many.  Several samples where an order matters.      *)
EXTENDS SampleDelivery

MCMilliseconds == -1..0
MCMaxArrivals ==
  [t \in Topics |-> CASE t = "interception_commands" -> 3
                      [] t = "assignments" -> 2
                      [] OTHER -> 1]
=============================================================================
