-------------------------------- MODULE MCTime --------------------------------
(* An instance of SimulatedTime with four-bit integers; 2 overflows in four steps, 5 in two. *)
EXTENDS SimulatedTime

MCIntervals == {2, 5}
=============================================================================
