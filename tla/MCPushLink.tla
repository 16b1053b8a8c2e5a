----------------------------- MODULE MCPushLink -----------------------------
(* Two records in batches of at most two, the newest of which the receiver  *)
(* may be unable to store; a delay of 2 seconds, then of 3, where doubling  *)
(* again would no longer fit.                                               *)
EXTENDS PushLink
MCRecords == 1..2
MCUnstorable == {2}
=============================================================================
