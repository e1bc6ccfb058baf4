---------------------------- MODULE MCInterceptor ----------------------------
(* Instance of Interceptor: this drone and another one, two targets, two     *)
(* command identities, a stride of one position and a clock of a few ticks.  *)
EXTENDS Interceptor

MCPositions == {0, 2}
MCStartPosition == 0
MCTolerance == 0
=============================================================================
