---------------------------- MODULE Maintenance ----------------------------
(***************************************************************************)
(* The commands that work on an archive: -repair, -reindex, -reingest and  *)
(* -import (repair.go, reindex.go, reingest.go, import.go), record by      *)
(* record, with a failure or a kill between any two, and run again after;  *)
(* and what the page shows in every state they leave (Query, Stats).       *)
(* -repair and -reindex run with the viewer stopped, as their comments     *)
(* require; the other two beside it.  An append is one step here, and at   *)
(* the right offset: Archive has its steps.                                *)
(*                                                                         *)
(* Bounds: each record of `Arriving' arrives once, a day has at most       *)
(* MaxEntries entries, and at most MaxRot records become unreadable.       *)
(***************************************************************************)
EXTENDS Stats

CONSTANTS
  Repaired,    \* what repairRecord makes of a record: itself if there is nothing to do
  First,       \* the archive at the start
  Source,      \* the archive -import and -reingest read
  Arriving,    \* records the viewer appends
  MaxEntries, MaxRot

ASSUME CommandAssumption ==
  /\ Repaired \in [Record -> Record]
  /\ \A r \in Record : /\ Repaired[Repaired[r]] = Repaired[r]
                       /\ Repaired[r].rid = r.rid /\ Repaired[r].day = r.day
  /\ First \in [Day -> Seq(Entry)] /\ Source \in [Day -> Seq(Entry)]
  /\ \A d \in Day : \A e \in Range(First[d]) \cup Range(Source[d]) : e.rec.day = d
  /\ Arriving \subseteq Record /\ MaxEntries \in Nat /\ MaxRot \in Nat

VARIABLES
  job,       \* the command running
  arrived,   \* records the viewer has appended
  rot,       \* how many records became unreadable
  completed  \* history: the day a command has just ended well

vars == <<arc, job, arrived, rot, completed>>

(* `days' are the days left, newest first; of the first of them, `list' is  *)
(* the index as it was read, `at' how much of it is done, `ids' what        *)
(* archive.rids holds once it is `loaded', and `rebuilt' the temporary file *)
(* of -reindex.                                                             *)
NoJob == [cmd |-> "none", days |-> <<>>, list |-> <<>>, at |-> 0, loaded |-> FALSE,
          ids |-> {}, rebuilt |-> <<>>]
Nothing == [cmd |-> "none", day |-> 0]

Init ==
  /\ arc = First /\ job = NoJob /\ arrived = {} /\ rot = 0 /\ completed = Nothing

-----------------------------------------------------------------------------
Offline == job.cmd \in {"repair", "reindex"}
IdsOf(d) == {arc[d][i].rec.rid : i \in DOMAIN arc[d]}

New(rec) == [rec |-> rec, good |-> TRUE, age |-> "new"]
Stored(rec) ==
  /\ Len(arc[rec.day]) < MaxEntries
  /\ arc' = [arc EXCEPT ![rec.day] = Append(@, New(rec))]

(* The viewer appends a record, another version of a call perhaps. *)
Arrive(rec) ==
  /\ ~Offline /\ rec \notin arrived
  /\ Stored(rec)
  /\ arrived' = arrived \cup {rec} /\ completed' = Nothing
  /\ UNCHANGED <<job, rot>>

(* A record can no longer be read back. *)
Rot(d, i) ==
  /\ rot < MaxRot /\ rot' = rot + 1
  /\ arc[d][i].good /\ arc' = [arc EXCEPT ![d][i].good = FALSE]
  /\ UNCHANGED <<job, arrived, completed>>

-----------------------------------------------------------------------------
(* A command begins with the days there are, or one of them. *)

From(cmd) == IF cmd \in {"import", "reingest"} THEN Source ELSE arc
DaysOf(a) == {d \in Day : a[d] # <<>>}
DayLists(S) ==
  {q \in [1..Cardinality(S) -> S] : \A i, j \in DOMAIN q : i < j => q[i] > q[j]}

Begin(cmd, S) ==
  /\ job.cmd = "none"
  /\ S # {} /\ S \subseteq DaysOf(From(cmd))
  /\ S = DaysOf(From(cmd)) \/ Cardinality(S) = 1
  /\ cmd = "reingest" => Cardinality(S) = 1
  /\ \E order \in DayLists(S) :
       job' = [NoJob EXCEPT !.cmd = cmd, !.days = order, !.list = From(cmd)[Head(order)]]
  /\ completed' = Nothing
  /\ UNCHANGED <<arc, arrived, rot>>

Working(cmd) == job.cmd = cmd /\ job.at < Len(job.list)
Current == job.list[job.at + 1]
Advanced == [job EXCEPT !.at = @ + 1]

(* The last version of each id in the index as it was read; the variant     *)
(* takes every version. *)
AnyVersion(i) == TRUE
Newest(i) ==
  \A j \in DOMAIN job.list : j > i => job.list[j].rec.rid # job.list[i].rec.rid

(* repairDay: a damaged record is appended once more, corrected; a record   *)
(* that cannot be read is left.  What can be read is looked up when it is   *)
(* read. *)
Fetchable == IF job.cmd \in {"import", "reingest"} THEN Current.good
             ELSE arc[Head(job.days)][job.at + 1].good
Damaged(rec) == Repaired[rec] # rec

RepairOne ==
  /\ Working("repair")
  /\ IF Newest(job.at + 1) /\ Fetchable /\ Damaged(Current.rec)
     THEN Stored(Repaired[Current.rec])
     ELSE UNCHANGED arc
  /\ job' = Advanced
  /\ completed' = Nothing /\ UNCHANGED <<arrived, rot>>

(* reindexDay: every entry is written again from its record, superseded     *)
(* ones too, and the first record that cannot be read ends the command.     *)
(* The variant leaves the superseded ones out.                              *)
Rebuilt(e) == [e EXCEPT !.age = "rebuilt"]
OnlyNewest(e) == IF Newest(job.at + 1) THEN <<Rebuilt(e)>> ELSE <<>>
Projected(e) == <<Rebuilt(e)>>
ReindexOne ==
  /\ Working("reindex") /\ Fetchable
  /\ job' = [Advanced EXCEPT !.rebuilt = @ \o Projected(Current)]
  /\ completed' = Nothing /\ UNCHANGED <<arc, arrived, rot>>

(* importArchive: what the destination does not have yet of the newest      *)
(* versions that can be read, through AppendNew, which loads the ids of a   *)
(* day once and then knows its own appends.                                 *)
Ids == IF job.loaded THEN job.ids ELSE IdsOf(Head(job.days))
Knowing(ids) == [Advanced EXCEPT !.loaded = TRUE, !.ids = ids]
Known(rid) == rid \in Ids
ImportOne ==
  /\ Working("import")
  /\ LET rid == Current.rec.rid IN
     IF Newest(job.at + 1) /\ Fetchable
     THEN IF Known(rid)
          THEN arc' = arc /\ job' = Knowing(Ids)
          ELSE Stored(Current.rec) /\ job' = Knowing(Ids \cup {rid})
     ELSE arc' = arc /\ job' = Advanced
  /\ completed' = Nothing /\ UNCHANGED <<arrived, rot>>

(* reingest: the newest versions of the source, whatever the destination    *)
(* has. *)
ReingestOne ==
  /\ Working("reingest")
  /\ IF Newest(job.at + 1)
     THEN Fetchable /\ Stored(Current.rec)
     ELSE UNCHANGED arc
  /\ job' = Advanced
  /\ completed' = Nothing /\ UNCHANGED <<arrived, rot>>

(* The end of a day: -reindex renames its file over the index, and the next *)
(* day begins.  The variant forgets to.                                     *)
Rename(d) ==
  [arc EXCEPT ![d] = [i \in DOMAIN job.rebuilt |->
                        [job.rebuilt[i] EXCEPT !.good = arc[d][i].good]]]
NotRenamed(d) == arc
Replaced(d) == IF job.cmd = "reindex" THEN Rename(d) ELSE arc
EndDay ==
  /\ job.cmd # "none" /\ job.at = Len(job.list)
  /\ arc' = Replaced(Head(job.days))
  /\ completed' = [cmd |-> job.cmd, day |-> Head(job.days)]
  /\ LET rest == Tail(job.days)
     IN job' = IF rest = <<>> THEN NoJob
               ELSE [NoJob EXCEPT !.cmd = job.cmd, !.days = rest,
                                  !.list = From(job.cmd)[Head(rest)]]
  /\ UNCHANGED <<arrived, rot>>

(* An append or a read that fails ends the command, and so does a kill:     *)
(* what was appended stays, and the temporary file is not the index; in the *)
(* variant the index itself is written.                                     *)
InPlace(d) == IF job.cmd = "reindex" THEN [arc EXCEPT ![d] = job.rebuilt] ELSE arc
Discarded(d) == arc
Stop ==
  /\ job.cmd # "none"
  /\ arc' = Discarded(Head(job.days))
  /\ job' = NoJob
  /\ completed' = Nothing /\ UNCHANGED <<arrived, rot>>

Next ==
  \/ \E rec \in Arriving : Arrive(rec)
  \/ \E d \in Day : \E i \in DOMAIN arc[d] : Rot(d, i)
  \/ \E cmd \in {"repair", "reindex", "reingest", "import"}, S \in SUBSET Day : Begin(cmd, S)
  \/ RepairOne \/ ReindexOne \/ ImportOne \/ ReingestOne \/ EndDay \/ Stop

Spec == Init /\ [][Next]_vars

-----------------------------------------------------------------------------
TypeOK ==
  /\ arc \in [Day -> Seq(Entry)]
  /\ job.cmd \in {"none", "repair", "reindex", "reingest", "import"}
  /\ job.days \in Seq(Day) /\ job.list \in Seq(Entry) /\ job.at \in 0..Len(job.list)
  /\ job.rebuilt \in Seq(Entry) /\ Len(job.rebuilt) <= job.at
  /\ job.cmd = "reindex" => Len(job.rebuilt) = job.at
  /\ arrived \subseteq Arriving /\ rot \in 0..MaxRot
  /\ completed.day \in Day \cup {0}

(* No command takes anything away, wherever it is stopped: every entry      *)
(* stays, in its place, with its record, and only entries are added         *)
(* (repair.go:32-35, reindex.go:19-21, reingest.go:18-20).                  *)
Same(e, g) == e.rec = g.rec /\ (g.good => e.good)
NothingLost ==
  [][\A d \in Day : /\ Len(arc'[d]) >= Len(arc[d])
                    /\ \A i \in DOMAIN arc[d] : Same(arc[d][i], arc'[d][i])]_vars

(* A command that ended well for a day has done what it says to all of it,  *)
(* after any number of attempts that were stopped half way: no damaged      *)
(* record is shown, every line is rebuilt, every readable call of the       *)
(* source is here, or is what is shown (but for what the viewer stores).    *)
Shown(d) == {arc[d][i] : i \in Latest(d)}
SourceShown(d) ==
  {Source[d][i] : i \in {k \in DOMAIN Source[d] :
     \A j \in DOMAIN Source[d] : j > k => Source[d][j].rec.rid # Source[d][k].rec.rid}}
CompletedMeansDone ==
  LET d == completed.day IN
  CASE completed.cmd = "repair" -> \A e \in Shown(d) : e.good => ~Damaged(e.rec)
    [] completed.cmd = "reindex" -> \A i \in DOMAIN arc[d] : arc[d][i].age = "rebuilt"
    [] completed.cmd = "import" -> \A e \in SourceShown(d) : e.good => e.rec.rid \in IdsOf(d)
    [] completed.cmd = "reingest" ->
         \A e \in SourceShown(d) : \E i \in DOMAIN arc[d] :
           /\ arc[d][i].rec = e.rec
           /\ \A j \in DOMAIN arc[d] :
                j > i /\ arc[d][j].rec.rid = e.rec.rid => arc[d][j].rec \in arrived
    [] OTHER -> TRUE

(* Running a command again adds nothing: an import never adds a call its    *)
(* archive has, unless the viewer stored it since the import opened the     *)
(* day, and a repair never a version of a call that needs none.  (-reingest *)
(* does add its versions again.)                                            *)
Added(d) == arc'[d][Len(arc'[d])].rec
Overtaken(rid) == \E r \in arrived : r.rid = rid
AddsOnlyWhatIsMissing ==
  [][\A d \in Day : Len(arc'[d]) > Len(arc[d]) =>
       /\ job.cmd = "import" /\ arrived' = arrived =>
            Added(d).rid \notin IdsOf(d) \/ Overtaken(Added(d).rid)
       /\ job.cmd = "repair" =>
            \E e \in Shown(d) : e.rec.rid = Added(d).rid /\ Damaged(e.rec)]_vars

-----------------------------------------------------------------------------
(* What the page shows, over every archive the commands can leave.  They    *)
(* are looked at when no command runs or has just ended: beginning one and  *)
(* stopping it leads there from every state, with the archive as it is.     *)
Served == job.cmd = "none" /\ completed = Nothing

(* A range means what it says.  No day file is passed over that holds an    *)
(* entry the filter accepts (archive.go:525-529); without a lower bound a   *)
(* range has every call up to the upper one; a named range has the calls of *)
(* its calendar days by the clock of the log, also across a day with an     *)
(* hour more (server.go:228-238). *)
RangeLosesNothing ==
  Served => /\ \A f \in Filters : WholeRange(f)
            /\ \A until \in Hour \cup {0} : NoLowerBound(until)
            /\ \A name \in DOMAIN Span : NamedDays(name)

(* A call is one row in its day, whatever was corrected, and each row is on *)
(* exactly one page. *)
PagesCover ==
  Served => \A f \in Filters : /\ OneRowPerCall(f)
                              /\ \A size \in PageSizes : OnOnePage(f, size)

(* Opening a row shows the version the row was drawn from, if that version  *)
(* can be read and the call is in one day only (query.go:71-74); if it      *)
(* cannot be read an older one is opened, never a newer. *)
GetAgrees == Served => \A m \in AllLatest : OpensItsRow(m)

(* The breakdowns and the hours reconcile with the totals, folded or not,   *)
(* in requests and in every sum (stats.go:360-364); every request has one   *)
(* of three outcomes, and is in a bucket of the time axis, and in one only, *)
(* unless it is in an hour the clock shows twice.                           *)
BreakdownsAddUp == Served => \A f \in Filters : Reconciles(f) /\ OnTheAxis(f)

(* The statistics and the list never disagree about which calls exist       *)
(* (stats.go:514-516), about what is a success, or about whose a call is;   *)
(* and a name offered to filter by finds something when it is chosen, in an *)
(* index of mixed age too (query.go:253-256). *)
ViewsAgree == Served => \A f \in Filters : AgreesWithList(f) /\ OptionsFind(f)
=============================================================================
