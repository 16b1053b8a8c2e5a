----------------------------- MODULE MCRequests -----------------------------
(* Two requests with two tokens; a cache that holds one verdict before it   *)
(* is emptied.  Neither requests nor tokens are told apart, and nothing     *)
(* about liveness is checked.                                               *)
EXTENDS Requests, TLC
Symmetry == Permutations(Req) \cup Permutations(Token)
=============================================================================
