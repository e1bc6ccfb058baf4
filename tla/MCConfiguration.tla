--------------------------- MODULE MCConfiguration ---------------------------
(* An instance of ProcessConfiguration: every option, numbers at the limits  *)
(* of the domain identifiers and of the interval, and names at the limits of *)
(* a plain and of a composed name.                                           *)
EXTENDS ProcessConfiguration, TLC

MCNumberOf ==
  ("0" :> 0) @@ ("232" :> 232) @@ ("233" :> 233) @@ ("too-long-a-tick" :> 1001)
    @@ [t \in Texts |-> NotANumber]

MCLengthOf ==
  ("" :> 0) @@ ("name" :> 4) @@ ("name-of-37-characters" :> 37)
    @@ ("name-of-38-characters" :> 38) @@ ("name-of-56-characters" :> 56)
    @@ ("drone_interceptor_1" :> 19)
    @@ ("assignment-writer" :> 17) @@ ("assignment-reader" :> 17)
    @@ [t \in {"explosion-reader", "command-writer", "explosion-writer",
               "command-reader", "target-reader", "drone_observer",
               "drone_console"} \cup Texts |-> 14]
=============================================================================
