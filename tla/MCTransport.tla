----------------------------- MODULE MCTransport -----------------------------
(* Instance of TransportEndpoints: two readers on one participant, as in the *)
(* ConsoleSubscriber, the most that any participant has.                     *)
EXTENDS TransportEndpoints
=============================================================================
