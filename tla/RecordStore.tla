----------------------------- MODULE RecordStore -----------------------------
(***************************************************************************)
(* What the archive promises its readers: each day is a list of records    *)
(* that only grows, a record that was acknowledged can be read back or has *)
(* been superseded by one with its id, and a crash takes from the end of a *)
(* day only what was not acknowledged.                                     *)
(***************************************************************************)
EXTENDS Naturals

CONSTANTS
  Record,    \* versions of calls
  Day,
  DayOf,     \* the day file a record belongs to
  RidOf,     \* its request id
  Position   \* places in a day: natural numbers, in order

VARIABLES
  shown,     \* the records a reader finds in each day, at their places
  acked      \* <<day, id>> of the acknowledged ones

Key(r) == <<DayOf[r], RidOf[r]>>

Shows(list, key) ==
  \E p \in list[key[1]] : RidOf[p[2]] = key[2]

Init == shown = [d \in Day |-> {}] /\ acked = {}

Store(r) ==
  /\ \E i \in Position :
       /\ \A p \in shown[DayOf[r]] : p[1] < i
       /\ shown' = [shown EXCEPT ![DayOf[r]] = @ \cup {<<i, r>>}]
  /\ acked' = acked

Acknowledge(r) ==
  /\ Shows(shown, Key(r))
  /\ acked' = acked \cup {Key(r)}
  /\ shown' = shown

Lose ==
  /\ DOMAIN shown' = Day
  /\ \A d \in Day :
       /\ shown'[d] \subseteq shown[d]
       /\ \A p \in shown'[d] : \A q \in shown[d] \ shown'[d] : p[1] < q[1]
  /\ \A key \in acked : Shows(shown', key)
  /\ acked' = acked

Next == Lose \/ \E r \in Record : Store(r) \/ Acknowledge(r)

Spec == Init /\ [][Next]_<<shown, acked>>
============================================================================
