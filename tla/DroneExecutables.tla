--------------------------- MODULE DroneExecutables ---------------------------
(***************************************************************************)
(* The three programs of the repository, and what the main.cpp of each     *)
(* fixes before it looks at the command line.  The parser and the life of  *)
(* a process are modelled apart, about the same executable.                *)
(***************************************************************************)
VARIABLE executable  \* which program the process runs

Executables == {"observer", "console", "interceptor"}

\* The specification each executable hands to the parser.
Specification ==
  [observer |-> [defaultParticipantName |-> "drone_observer", defaultTickInterval |-> 250,
                 acceptsTickCount |-> TRUE, acceptsAutomatedPursuit |-> FALSE],
   console |-> [defaultParticipantName |-> "drone_console", defaultTickInterval |-> 50,
                acceptsTickCount |-> FALSE, acceptsAutomatedPursuit |-> TRUE],
   interceptor |-> [defaultParticipantName |-> "drone_interceptor_1",
                    defaultTickInterval |-> 100,
                    acceptsTickCount |-> FALSE, acceptsAutomatedPursuit |-> FALSE]]

\* The endpoint suffixes an executable composes names with, in order.
EndpointSuffixes ==
  [observer |-> <<>>,
   console |-> <<"", "explosion-reader", "assignment-writer", "command-writer">>,
   interceptor |-> <<"", "explosion-writer", "assignment-reader", "command-reader",
                     "target-reader">>]
===============================================================================
