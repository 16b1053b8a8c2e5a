----------------------------- MODULE MCArchive -----------------------------
(* One process; two versions of a call and a call of the next day, with     *)
(* parts in common.                                                         *)
EXTENDS Archive, TLC

CONSTANTS viewer, import, first, fixed, other, day1, day2, idA, idB, x

MCDayOf == first :> day1 @@ fixed :> day1 @@ other :> day2
MCRidOf == first :> idA @@ fixed :> idA @@ other :> idB
MCBlobOf == first :> x @@ fixed :> x @@ other :> None
============================================================================
