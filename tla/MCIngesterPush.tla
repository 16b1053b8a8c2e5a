---- MODULE MCIngesterPush ----
(* Two calls pushed to another pod over a link that fails, and a restart;   *)
(* the second call is of the next day.                                      *)
EXTENDS Ingester

MCCall == {1, 2}
MCScript == <<<<"request", "gin">>, <<"billing">>>>
MCNextDay == {<<2, 1>>}
====
