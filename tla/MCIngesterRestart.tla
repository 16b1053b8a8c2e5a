---- MODULE MCIngesterRestart ----
(* One call, killed once at any point, archived on this machine. *)
EXTENDS Ingester

MCCall == {1}
MCScript == <<<<"request", "billing">>>>

(* The second line is over maxEntry. *)
MCHugeScript == <<<<"request", "huge", "billing">>>>
====
