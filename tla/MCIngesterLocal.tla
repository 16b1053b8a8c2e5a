-------------------------- MODULE MCIngesterLocal --------------------------
(* Two calls and a rotation, archived on this machine. *)
EXTENDS Ingester

MCCall == {1, 2}
MCScript == <<<<"billing", "chunk">>, <<"request", "ginFail">>>>
============================================================================
