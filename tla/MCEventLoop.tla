---------------------------- MODULE MCEventLoop ----------------------------
(***************************************************************************)
(* Connections are interchangeable: nothing orders them.                   *)
(***************************************************************************)
EXTENDS EventLoop

Symmetry == Permutations(Conns)
=============================================================================
