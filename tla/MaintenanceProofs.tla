-------------------------- MODULE MaintenanceProofs --------------------------
(***************************************************************************)
(* Proofs about the maintenance commands, for every archive, source,       *)
(* calendar and set of records, wherever the commands are stopped, and     *)
(* about what the page then reads from the archive: which entries a range  *)
(* of time shows, which version of a call a detail view opens, that the    *)
(* pages of a list have each call once, that the list and the statistics   *)
(* agree and that the statistics add up, for every set of filters.         *)
(***************************************************************************)
EXTENDS Maintenance, SetFacts, FiniteSetTheorems, SequenceTheorems, TLAPS

Commands == {"repair", "reindex", "reingest", "import"}
Rids == {r.rid : r \in Record}
Job == [cmd : Commands \cup {"none"}, days : Seq(Day), list : Seq(Entry), at : Nat,
        loaded : BOOLEAN, ids : SUBSET Rids, rebuilt : Seq(Entry)]
Today == Head(job.days)

(* The types, with what they leave unsaid: a record is in the file of its   *)
(* day, and a command that runs has a day.                                  *)
InItsDay(a) == \A d \in Day : \A i \in DOMAIN a[d] : a[d][i].rec.day = d
Typed ==
  /\ arc \in [Day -> Seq(Entry)] /\ InItsDay(arc)
  /\ job \in Job /\ job.at <= Len(job.list)
  /\ arrived \subseteq Arriving /\ rot \in 0..MaxRot
  /\ completed \in [cmd : Commands \cup {"none"}, day : Day \cup {0}]
  /\ job.cmd # "none" => job.days # <<>>
  /\ job.cmd # "reindex" => job.rebuilt = <<>>
  /\ completed.cmd # "none" => completed.day \in Day

(* A command that runs alone finds in the archive what it listed, ... *)
Listed == Offline =>
  /\ Len(job.list) <= Len(arc[Today])
  /\ \A i \in DOMAIN job.list : arc[Today][i].rec = job.list[i].rec

(* ... -reindex has projected as much of it as it has done, ... *)
Reindexing == job.cmd = "reindex" =>
  /\ Len(arc[Today]) = Len(job.list) /\ Len(job.rebuilt) = job.at
  /\ \A i \in DOMAIN job.rebuilt :
       job.rebuilt[i].rec = job.list[i].rec /\ job.rebuilt[i].age = "rebuilt"

(* ... -repair has appended the corrections of what it has done, and        *)
(* nothing else; ...                                                        *)
Corrects(k, i) ==
  /\ Newest(i) /\ Damaged(job.list[i].rec) /\ arc[Today][k].rec = Repaired[job.list[i].rec]
Repairing == job.cmd = "repair" =>
  /\ \A k \in DOMAIN arc[Today] : k > Len(job.list) => \E i \in 1..job.at : Corrects(k, i)
  /\ \A i \in 1..job.at :
       Newest(i) /\ arc[Today][i].good /\ Damaged(job.list[i].rec) =>
         \E k \in DOMAIN arc[Today] : k > Len(job.list) /\ Corrects(k, i)

(* ... -import knows the ids of the day but for those that arrived since,   *)
(* and has what it has done; ...                                            *)
ArrivedIds == {r.rid : r \in arrived}
Importing == job.cmd = "import" =>
  /\ job.list = Source[Today]
  /\ Ids \subseteq IdsOf(Today) /\ IdsOf(Today) \subseteq Ids \cup ArrivedIds
  /\ \A i \in 1..job.at : Newest(i) /\ job.list[i].good => job.list[i].rec.rid \in IdsOf(Today)

(* ... and so has -reingest, with nothing but arrivals behind it. *)
Prevails(rec, d) ==
  \E k \in DOMAIN arc[d] :
    /\ arc[d][k].rec = rec
    /\ \A j \in DOMAIN arc[d] :
         j > k /\ arc[d][j].rec.rid = rec.rid => arc[d][j].rec \in arrived
Reingesting == job.cmd = "reingest" =>
  /\ job.list = Source[Today]
  /\ \A i \in 1..job.at : Newest(i) => Prevails(job.list[i].rec, Today)

IInv ==
  /\ Typed /\ Listed /\ Reindexing /\ Repairing /\ Importing /\ Reingesting
  /\ CompletedMeansDone

-----------------------------------------------------------------------------
(* The calendar and the constants. *)

(* A record carries its day. *)
LEMMA RecordDay == \A r \in Record : r.day \in Day
<1> SUFFICES ASSUME NEW r \in Record PROVE r.day \in Day
  OBVIOUS
<1>1. CASE r.epoch = 0
  BY <1>1, CalendarAssumption
<1>2. CASE r.epoch # 0
  <2>1. r.epoch \in Hour /\ Wall[r.epoch] = [day |-> r.day, hour |-> r.hour]
    BY <1>2, CalendarAssumption
  <2>2. Wall[r.epoch].day = r.day
    BY <2>1
  <2> QED BY <2>1, <2>2 DEF Day
<1> QED BY <1>1, <1>2

(* The calendar has finitely many hours, so it has finitely many days. *)
LEMMA FiniteDays == IsFiniteSet(Day)
<1> DEFINE dayAt == [t \in Hour |-> Wall[t].day]
<1>1. IsFiniteSet(Hour)
  BY CalendarAssumption
<1>2. dayAt \in Surjection(Hour, Day)
  BY DEF Day, Surjection
<1> QED BY <1>1, <1>2, FS_Surjection

(* A list of a nonempty set of days is a nonempty sequence of them. *)
LEMMA ListOfDays ==
  ASSUME NEW S \in SUBSET Day, S # {}, NEW q \in DayLists(S)
  PROVE  q \in Seq(Day) /\ q # <<>> /\ Head(q) \in S
<1>1. Cardinality(S) \in Nat /\ Cardinality(S) # 0
  BY FiniteDays, FS_Subset, FS_CardinalityType, FS_EmptySet
<1>2. q \in [1..Cardinality(S) -> S]
  BY DEF DayLists
<1>3. q \in Seq(S) /\ Len(q) = Cardinality(S)
  BY <1>1, <1>2
<1>4. q # <<>> /\ Head(q) \in S
  BY <1>1, <1>3
<1>5. q \in Seq(Day)
  BY <1>1, <1>2
<1> QED BY <1>4, <1>5

(* What the commands work from. *)
LEMMA Given ==
  /\ First \in [Day -> Seq(Entry)] /\ InItsDay(First)
  /\ Source \in [Day -> Seq(Entry)] /\ InItsDay(Source)
  /\ Arriving \subseteq Record /\ MaxRot \in Nat
  /\ \A r \in Record : /\ Repaired[r] \in Record /\ ~Damaged(Repaired[r])
                       /\ Repaired[r].rid = r.rid /\ Repaired[r].day = r.day
BY CommandAssumption DEF InItsDay, Range, Damaged

(* The parts of an entry of a day. *)
LEMMA EntryParts ==
  ASSUME NEW e \in Entry
  PROVE  e.rec \in Record /\ e.good \in BOOLEAN /\ e.rec.day \in Day /\ e.rec.rid \in Rids
BY RecordDay DEF Entry, Rids

(* A record that is appended makes an entry. *)
LEMMA NewEntry ==
  ASSUME NEW r \in Record
  PROVE  New(r) \in Entry /\ New(r).rec = r
BY DEF New, Entry

-----------------------------------------------------------------------------
(* What a step does to the archive. *)

(* An append adds one entry at the end of its day. *)
LEMMA StoredAdds ==
  ASSUME Typed, NEW r \in Record, Stored(r)
  PROVE  /\ arc' \in [Day -> Seq(Entry)] /\ InItsDay(arc)'
         /\ \A d \in Day : d # r.day => arc'[d] = arc[d]
         /\ Len(arc'[r.day]) = Len(arc[r.day]) + 1
         /\ \A i \in DOMAIN arc[r.day] : arc'[r.day][i] = arc[r.day][i]
         /\ arc'[r.day][Len(arc[r.day]) + 1].rec = r
<1> DEFINE q == arc[r.day]
<1>1. r.day \in Day /\ q \in Seq(Entry) /\ New(r) \in Entry /\ New(r).rec = r
  BY RecordDay, NewEntry DEF Typed
<1>2. arc' = [arc EXCEPT ![r.day] = Append(q, New(r))]
  BY DEF Stored
<1>3. /\ Append(q, New(r)) \in Seq(Entry) /\ Len(Append(q, New(r))) = Len(q) + 1
      /\ \A i \in DOMAIN q : Append(q, New(r))[i] = q[i]
      /\ Append(q, New(r))[Len(q) + 1] = New(r)
      /\ DOMAIN Append(q, New(r)) = 1..Len(q) + 1 /\ DOMAIN q = 1..Len(q) /\ Len(q) \in Nat
  BY <1>1
<1>4. arc' \in [Day -> Seq(Entry)] /\ arc'[r.day] = Append(q, New(r))
      /\ \A d \in Day : d # r.day => arc'[d] = arc[d]
  BY <1>1, <1>2, <1>3 DEF Typed
<1>5. InItsDay(arc)'
  <2> SUFFICES ASSUME NEW d \in Day, NEW i \in DOMAIN arc'[d] PROVE arc'[d][i].rec.day = d
    BY DEF InItsDay
  <2>1. CASE d # r.day
    BY <1>4, <2>1 DEF Typed, InItsDay
  <2>2. CASE d = r.day
    <3>1. CASE i = Len(q) + 1
      BY <1>1, <1>3, <1>4, <2>2, <3>1
    <3>2. CASE i # Len(q) + 1
      <4>1. i \in DOMAIN q
        BY <1>3, <1>4, <2>2, <3>2
      <4> QED BY SMTT(20), <1>3, <1>4, <2>2, <4>1 DEF Typed, InItsDay
    <3> QED BY <3>1, <3>2
  <2> QED BY <2>1, <2>2
<1> QED BY <1>1, <1>3, <1>4, <1>5

(* Rot and the rename of -reindex keep every entry in its place with its    *)
(* record. *)
SameRecords ==
  /\ arc' \in [Day -> Seq(Entry)]
  /\ \A d \in Day : Len(arc'[d]) = Len(arc[d]) /\ DOMAIN arc'[d] = DOMAIN arc[d]
  /\ \A d \in Day : \A i \in DOMAIN arc[d] :
       arc'[d][i].rec = arc[d][i].rec /\ (arc'[d][i].good => arc[d][i].good)

(* A record that becomes unreadable keeps its entry. *)
LEMMA RotKeeps ==
  ASSUME Typed, NEW d \in Day, NEW i \in DOMAIN arc[d], Rot(d, i)
  PROVE  /\ SameRecords
         /\ \A x \in Day : \A k \in DOMAIN arc[x] : arc'[x][k].age = arc[x][k].age
<1>1. arc[d] \in Seq(Entry) /\ arc[d][i] \in Entry
  BY DEF Typed
<1> DEFINE e == [arc[d][i] EXCEPT !.good = FALSE]
           q == [arc[d] EXCEPT ![i] = e]
<1>2. e \in Entry /\ e.rec = arc[d][i].rec /\ e.age = arc[d][i].age /\ e.good = FALSE
  BY <1>1 DEF Entry
<1>3. q \in Seq(Entry) /\ Len(q) = Len(arc[d]) /\ DOMAIN q = DOMAIN arc[d]
      /\ q[i] = e /\ \A k \in DOMAIN arc[d] : k # i => q[k] = arc[d][k]
  BY <1>1, <1>2
<1>4. arc' = [arc EXCEPT ![d] = q]
  BY DEF Rot
<1>5. arc' \in [Day -> Seq(Entry)] /\ arc'[d] = q /\ \A x \in Day : x # d => arc'[x] = arc[x]
  BY <1>3, <1>4 DEF Typed
<1> HIDE DEF q, e
<1>6. \A x \in Day : Len(arc'[x]) = Len(arc[x]) /\ DOMAIN arc'[x] = DOMAIN arc[x]
  BY <1>3, <1>5
<1>7. ASSUME NEW x \in Day, NEW k \in DOMAIN arc[x]
      PROVE  /\ arc'[x][k].rec = arc[x][k].rec /\ arc'[x][k].age = arc[x][k].age
             /\ (arc'[x][k].good => arc[x][k].good)
  BY <1>2, <1>3, <1>5
<1> QED BY <1>5, <1>6, <1>7 DEF SameRecords

-----------------------------------------------------------------------------
(* The invariant, one group of actions after the other. *)

LEMMA Initially == Init => IInv
<1> SUFFICES ASSUME Init PROVE IInv
  OBVIOUS
<1>1. job = NoJob /\ completed = Nothing /\ arc = First /\ arrived = {} /\ rot = 0
  BY DEF Init
<1>2. Typed
  BY <1>1, Given DEF Typed, NoJob, Nothing, Job
<1>3. Listed /\ Reindexing /\ Repairing /\ Importing /\ Reingesting
  BY <1>1 DEF NoJob, Listed, Offline, Reindexing, Repairing, Importing, Reingesting
<1>4. CompletedMeansDone
  BY <1>1 DEF Nothing, CompletedMeansDone
<1> QED BY <1>2, <1>3, <1>4 DEF IInv

(* With no command the parts about commands say nothing. *)
LEMMA Idle ==
  ASSUME job'.cmd = "none"
  PROVE  Listed' /\ Reindexing' /\ Repairing' /\ Importing' /\ Reingesting'
BY DEF Listed, Offline, Reindexing, Repairing, Importing, Reingesting

LEMMA NothingCompleted == ASSUME completed' = Nothing PROVE CompletedMeansDone'
BY DEF Nothing, CompletedMeansDone

(* A new id comes with the new entry, and only that one. *)
LEMMA IdsGrow ==
  ASSUME Typed, NEW r \in Record, Stored(r)
  PROVE  \A d \in Day : IdsOf(d)' = IF d = r.day THEN IdsOf(d) \cup {r.rid} ELSE IdsOf(d)
<1>1. \A d \in Day : d # r.day => IdsOf(d)' = IdsOf(d)
  BY StoredAdds DEF IdsOf
<1>2. IdsOf(r.day)' = IdsOf(r.day) \cup {r.rid}
  <2> DEFINE q == arc[r.day]
             p == arc'[r.day]
  <2>1. q \in Seq(Entry) /\ p \in Seq(Entry) /\ Len(p) = Len(q) + 1
        /\ \A i \in DOMAIN q : p[i] = q[i]
    BY StoredAdds, RecordDay DEF Typed
  <2>2. p[Len(q) + 1].rec = r
    BY StoredAdds
  <2>3. DOMAIN p = DOMAIN q \cup {Len(q) + 1} /\ DOMAIN q \subseteq DOMAIN p
    BY <2>1
  <2> QED BY <2>1, <2>2, <2>3 DEF IdsOf
<1> QED BY <1>1, <1>2

(* What prevails goes on to prevail when something that arrived, or another *)
(* call, is stored behind it; and what is stored prevails.                  *)
LEMMA StillPrevails ==
  ASSUME Typed, NEW r \in Record, Stored(r), NEW x \in Record, NEW d \in Day,
         arrived \subseteq arrived', Prevails(x, d),
         r.rid = x.rid => r \in arrived' \/ r.day # d
  PROVE  Prevails(x, d)'
<1> DEFINE q == arc[d]
           p == arc'[d]
<1>1. PICK k \in DOMAIN q : /\ q[k].rec = x
                            /\ \A j \in DOMAIN q : j > k /\ q[j].rec.rid = x.rid => q[j].rec \in arrived
  BY DEF Prevails
<1>2. /\ q \in Seq(Entry) /\ p \in Seq(Entry)
      /\ \A i \in DOMAIN q : p[i] = q[i]
      /\ DOMAIN q \subseteq DOMAIN p
      /\ \A i \in DOMAIN p : i \notin DOMAIN q => d = r.day /\ p[i].rec = r
  <2>1. q \in Seq(Entry) /\ p \in Seq(Entry)
    BY StoredAdds DEF Typed
  <2>2. CASE d # r.day
    BY <2>1, <2>2, StoredAdds
  <2>3. CASE d = r.day
    <3>1. Len(p) = Len(q) + 1 /\ p[Len(q) + 1].rec = r /\ \A i \in DOMAIN q : p[i] = q[i]
      BY <2>3, StoredAdds
    <3>2. DOMAIN p = DOMAIN q \cup {Len(q) + 1}
      BY <2>1, <3>1
    <3> QED BY <2>1, <2>3, <3>1, <3>2
  <2> QED BY <2>2, <2>3
<1>3. k \in DOMAIN p /\ p[k].rec = x
  BY <1>1, <1>2
<1>4. ASSUME NEW j \in DOMAIN p, j > k, p[j].rec.rid = x.rid
      PROVE  p[j].rec \in arrived'
  <2>1. CASE j \in DOMAIN q
    BY <1>1, <1>2, <1>4, <2>1
  <2>2. CASE j \notin DOMAIN q
    BY <1>2, <1>4, <2>2
  <2> QED BY <2>1, <2>2
<1> HIDE DEF p, q
<1>5. \E i \in DOMAIN p : /\ p[i].rec = x
                          /\ \A j \in DOMAIN p : j > i /\ p[j].rec.rid = x.rid => p[j].rec \in arrived'
  BY <1>3, <1>4
<1> QED BY <1>5 DEF Prevails, p

(* What is stored last in a day prevails in it. *)
LEMMA StoredPrevails ==
  ASSUME Typed, NEW r \in Record, Stored(r)
  PROVE  Prevails(r, r.day)'
<1> DEFINE p == arc'[r.day]
<1>1. p \in Seq(Entry) /\ arc[r.day] \in Seq(Entry) /\ Len(p) = Len(arc[r.day]) + 1
  BY StoredAdds, RecordDay DEF Typed
<1>2. p[Len(p)].rec = r /\ Len(p) \in DOMAIN p /\ \A j \in DOMAIN p : ~(j > Len(p))
  BY <1>1, StoredAdds
<1> QED BY <1>2 DEF Prevails

(* The viewer appends, beside -import or -reingest or alone. *)
LEMMA ArrivePreserves ==
  ASSUME IInv, NEW r \in Arriving, Arrive(r)
  PROVE  IInv'
<1> USE DEF IInv
<1>1. r \in Record /\ Stored(r) /\ ~Offline /\ arrived' = arrived \cup {r}
      /\ job' = job /\ rot' = rot /\ completed' = Nothing
  BY Given DEF Arrive
<1>2. Typed'
  BY <1>1, StoredAdds DEF Typed, Nothing
<1>3. Listed' /\ Reindexing' /\ Repairing'
  BY <1>1 DEF Offline, Listed, Reindexing, Repairing
<1>4. Importing'
  <2> SUFFICES ASSUME job.cmd = "import" PROVE Importing'
    BY <1>1 DEF Importing
  <2>1. Today \in Day /\ Today' = Today
    BY <1>1 DEF Typed, Job, Today
  <2>2. /\ job.list = Source[Today]
        /\ Ids \subseteq IdsOf(Today) /\ IdsOf(Today) \subseteq Ids \cup ArrivedIds
        /\ \A i \in 1..job.at : Newest(i) /\ job.list[i].good => job.list[i].rec.rid \in IdsOf(Today)
    BY DEF Importing
  <2>3. IdsOf(Today) \subseteq IdsOf(Today)' /\ IdsOf(Today)' \subseteq IdsOf(Today) \cup {r.rid}
    BY <1>1, <2>1, IdsGrow
  <2>4. ArrivedIds' = ArrivedIds \cup {r.rid}
    BY <1>1 DEF ArrivedIds
  <2>5. Ids' = IF job.loaded THEN Ids ELSE IdsOf(Today)'
    BY <1>1 DEF Ids, Today, IdsOf
  <2>6. Ids' \subseteq IdsOf(Today)' /\ IdsOf(Today)' \subseteq Ids' \cup ArrivedIds'
    BY <2>2, <2>3, <2>4, <2>5
  <2>7. \A i \in 1..job'.at : Newest(i)' /\ job'.list[i].good => job'.list[i].rec.rid \in IdsOf(Today)'
    BY <1>1, <2>2, <2>3 DEF Newest
  <2> QED BY <1>1, <2>1, <2>2, <2>6, <2>7 DEF Importing
<1>5. Reingesting'
  <2> SUFFICES ASSUME job.cmd = "reingest" PROVE Reingesting'
    BY <1>1 DEF Reingesting
  <2>1. Today \in Day /\ Today' = Today /\ job.list \in Seq(Entry) /\ job.at \in Nat
        /\ job.at <= Len(job.list)
    BY <1>1 DEF Typed, Job, Today
  <2>2. job.list = Source[Today] /\ \A i \in 1..job.at : Newest(i) => Prevails(job.list[i].rec, Today)
    BY DEF Reingesting
  <2>3. ASSUME NEW i \in 1..job.at, Newest(i)
        PROVE  Prevails(job.list[i].rec, Today)'
    <3>1. job.list[i] \in Entry /\ job.list[i].rec \in Record
      BY <2>1, EntryParts
    <3>2. Prevails(job.list[i].rec, Today)
      BY <2>2, <2>3
    <3>3. \A x \in Record : Prevails(x, Today) => Prevails(x, Today)'
      BY <1>1, <2>1, StillPrevails
    <3> QED BY <1>1, <3>1, <3>2, <3>3
  <2> QED BY <1>1, <2>1, <2>2, <2>3 DEF Reingesting, Newest
<1> QED BY <1>2, <1>3, <1>4, <1>5, <1>1, NothingCompleted

(* Ids and what prevails depend on the records only. *)
LEMMA SameShown ==
  ASSUME Typed, SameRecords, arrived' = arrived, NEW d \in Day
  PROVE  /\ IdsOf(d)' = IdsOf(d)
         /\ \A x : Prevails(x, d) => Prevails(x, d)'
         /\ Latest(d)' = Latest(d)
<1>1. DOMAIN arc'[d] = DOMAIN arc[d] /\ \A i \in DOMAIN arc[d] : arc'[d][i].rec = arc[d][i].rec
  BY DEF SameRecords
<1>2. IdsOf(d)' = IdsOf(d)
  BY <1>1 DEF IdsOf
<1>3. \A x : Prevails(x, d) => Prevails(x, d)'
  BY <1>1 DEF Prevails
<1>4. Latest(d)' = Latest(d)
  BY <1>1 DEF Latest
<1> QED BY <1>2, <1>3, <1>4

(* A step that changes no record keeps the archive well typed and in its    *)
(* days.                                                                    *)
LEMMA SameDays ==
  ASSUME Typed, SameRecords
  PROVE  InItsDay(arc)'
BY DEF Typed, InItsDay, SameRecords

(* A record that rots is one record less to look after. *)
LEMMA RotPreserves ==
  ASSUME IInv, NEW d \in Day, NEW i \in DOMAIN arc[d], Rot(d, i)
  PROVE  IInv'
<1> USE DEF IInv
<1>1. /\ SameRecords
      /\ \A x \in Day : \A k \in DOMAIN arc[x] : arc'[x][k].age = arc[x][k].age
  BY RotKeeps
<1>2. rot' \in 0..MaxRot /\ job' = job /\ arrived' = arrived /\ completed' = completed
  BY Given DEF Rot, Typed
<1>3. Typed'
  BY <1>1, <1>2, SameDays DEF Typed, SameRecords
<1>4. job.cmd # "none" => Today \in Day /\ Today' = Today
  BY <1>2 DEF Typed, Job, Today
<1>5. Listed' /\ Reindexing'
  BY <1>1, <1>2, <1>4 DEF Listed, Offline, Reindexing, SameRecords, Typed
<1>6. Repairing'
  <2> SUFFICES ASSUME job.cmd = "repair" PROVE Repairing'
    BY <1>2 DEF Repairing
  <2>1. /\ Today \in Day /\ DOMAIN arc'[Today] = DOMAIN arc[Today]
        /\ Len(job.list) <= Len(arc[Today]) /\ job.at <= Len(job.list)
        /\ job.at \in Nat /\ Len(job.list) \in Nat
        /\ arc[Today] \in Seq(Entry)
    BY <1>1, <1>4 DEF Listed, Offline, SameRecords, Typed, Job
  <2>2. \A k \in DOMAIN arc[Today], j \in 1..job.at : Corrects(k, j) => Corrects(k, j)'
    BY <1>1, <1>2, <1>4, <2>1 DEF Corrects, Newest, SameRecords
  <2>3. \A j \in 1..job.at : j \in DOMAIN arc[Today] /\ (arc'[Today][j].good => arc[Today][j].good)
    BY <1>1, <2>1 DEF SameRecords
  <2> QED BY <1>2, <1>4, <2>1, <2>2, <2>3 DEF Repairing, Newest
<1>7. Importing'
  <2> SUFFICES ASSUME job.cmd = "import" PROVE Importing'
    BY <1>2 DEF Importing
  <2>1. Today \in Day /\ IdsOf(Today)' = IdsOf(Today)
    BY <1>1, <1>2, <1>4, SameShown
  <2>2. Ids' = Ids
    BY <1>2, <1>4, <2>1 DEF Ids, Today, IdsOf
  <2> QED BY <1>2, <1>4, <2>1, <2>2 DEF Importing, Newest, ArrivedIds
<1>8. Reingesting'
  <2> SUFFICES ASSUME job.cmd = "reingest" PROVE Reingesting'
    BY <1>2 DEF Reingesting
  <2>1. \A x : Prevails(x, Today) => Prevails(x, Today)'
    BY <1>1, <1>2, <1>4, SameShown
  <2> QED BY <1>2, <1>4, <2>1 DEF Reingesting, Newest
<1>9. CompletedMeansDone'
  <2> DEFINE day == completed.day
  <2> SUFFICES ASSUME completed.cmd # "none" PROVE CompletedMeansDone'
    BY <1>2 DEF CompletedMeansDone
  <2>1. day \in Day
    BY DEF Typed
  <2>2. /\ IdsOf(day)' = IdsOf(day) /\ Latest(day)' = Latest(day)
        /\ DOMAIN arc'[day] = DOMAIN arc[day] /\ Latest(day) \subseteq DOMAIN arc[day]
        /\ \A k \in DOMAIN arc[day] : /\ arc'[day][k].rec = arc[day][k].rec
                                      /\ arc'[day][k].age = arc[day][k].age
                                      /\ (arc'[day][k].good => arc[day][k].good)
    BY <1>1, <1>2, <2>1, SameShown DEF SameRecords, Latest
  <2>3. CASE completed.cmd = "repair"
    <3>1. \A k \in Latest(day) : arc[day][k].good => ~Damaged(arc[day][k].rec)
      BY <2>3 DEF CompletedMeansDone, Shown
    <3>2. \A e \in Shown(day)' : e.good => ~Damaged(e.rec)
      BY <1>2, <2>2, <3>1 DEF Shown
    <3> QED BY <1>2, <2>3, <3>2 DEF CompletedMeansDone
  <2>4. CASE completed.cmd = "reindex"
    BY <1>2, <2>2, <2>4 DEF CompletedMeansDone
  <2>5. CASE completed.cmd = "import"
    BY <1>2, <2>2, <2>5 DEF CompletedMeansDone, SourceShown
  <2>6. CASE completed.cmd = "reingest"
    BY SMTT(20), <1>2, <2>2, <2>6 DEF CompletedMeansDone, SourceShown
  <2>7. completed.cmd \in Commands \cup {"none"}
    BY DEF Typed
  <2> QED BY <2>3, <2>4, <2>5, <2>6, <2>7 DEF Commands
<1> QED BY <1>3, <1>5, <1>6, <1>7, <1>8, <1>9

(* A command begins a day with nothing done; the first, and every next one. *)
StartsDay(cmd, order) ==
  /\ cmd \in Commands /\ order \in Seq(Day) /\ order # <<>>
  /\ job' = [NoJob EXCEPT !.cmd = cmd, !.days = order, !.list = From(cmd)[Head(order)]]

(* A command that begins has a well-typed list of its first day. *)
LEMMA JobOfDay ==
  ASSUME Typed, NEW cmd, NEW order, StartsDay(cmd, order)
  PROVE  /\ job' \in Job /\ job'.cmd = cmd /\ job'.days = order
         /\ job'.list = From(cmd)[Today'] /\ job'.list \in Seq(Entry)
         /\ job'.at = 0 /\ job'.rebuilt = <<>> /\ job'.loaded = FALSE
         /\ Today' = Head(order) /\ Today' \in Day
<1> DEFINE list == From(cmd)[Head(order)]
<1>1. order \in Seq(Day) /\ order # <<>> /\ Head(order) \in Day /\ cmd \in Commands
  BY DEF StartsDay
<1>2. From(cmd) \in [Day -> Seq(Entry)]
  BY Given DEF From, Typed
<1>3. list \in Seq(Entry)
  BY <1>1, <1>2
<1>4. job' = [cmd |-> cmd, days |-> order, list |-> list, at |-> 0, loaded |-> FALSE,
              ids |-> {}, rebuilt |-> <<>>]
  BY DEF StartsDay, NoJob
<1>5. Today' = Head(order)
  BY <1>4 DEF Today
<1>6. job'.list = From(cmd)[Today']
  BY <1>4, <1>5
<1> HIDE DEF list
<1>7. job' \in Job
  BY <1>1, <1>3, <1>4 DEF Job
<1> QED BY <1>1, <1>3, <1>4, <1>5, <1>6, <1>7

(* Of a day that has just begun nothing is done, so what is said of the     *)
(* records done holds.                                                      *)
LEMMA DayBegins ==
  ASSUME Typed, SameRecords, NEW cmd, NEW order, StartsDay(cmd, order)
  PROVE  Listed' /\ Reindexing' /\ Repairing' /\ Importing' /\ Reingesting'
<1>1. /\ job'.cmd = cmd /\ job'.at = 0 /\ job'.rebuilt = <<>> /\ job'.loaded = FALSE
      /\ job'.list = From(cmd)[Today'] /\ Today' \in Day /\ job'.list \in Seq(Entry)
  BY JobOfDay
<1>2. Listed' /\ Reindexing' /\ Repairing'
  <2> SUFFICES ASSUME cmd \in {"repair", "reindex"} PROVE Listed' /\ Reindexing' /\ Repairing'
    BY <1>1 DEF Listed, Offline, Reindexing, Repairing
  <2>1. job'.list = arc[Today'] /\ arc'[Today'] \in Seq(Entry)
        /\ Len(arc'[Today']) = Len(arc[Today']) /\ DOMAIN arc'[Today'] = DOMAIN arc[Today']
        /\ \A i \in DOMAIN arc[Today'] : arc'[Today'][i].rec = arc[Today'][i].rec
    BY <1>1 DEF From, SameRecords
  <2> QED BY <1>1, <2>1 DEF Listed, Offline, Reindexing, Repairing
<1>3. cmd \in {"import", "reingest"} => job'.list = Source[Today']
  BY <1>1 DEF From
<1>4. Ids' = IdsOf(Today)'
  BY <1>1 DEF Ids, Today, IdsOf
<1>5. Importing' /\ Reingesting'
  BY <1>1, <1>3, <1>4 DEF Importing, Reingesting
<1> QED BY <1>2, <1>5

(* A command begins with a list of days and the entries of the first. *)
LEMMA BeginPreserves ==
  ASSUME IInv, NEW cmd \in Commands, NEW S \in SUBSET Day, Begin(cmd, S)
  PROVE  IInv'
<1> USE DEF IInv
<1>1. PICK order \in DayLists(S) :
        job' = [NoJob EXCEPT !.cmd = cmd, !.days = order, !.list = From(cmd)[Head(order)]]
  BY DEF Begin
<1>2. S # {} /\ arc' = arc /\ arrived' = arrived /\ rot' = rot /\ completed' = Nothing
  BY DEF Begin
<1>3. StartsDay(cmd, order)
  BY <1>1, <1>2, ListOfDays DEF StartsDay
<1>4. SameRecords
  BY <1>2 DEF SameRecords, Typed
<1>5. Typed'
  <2>1. completed' \in [cmd : Commands \cup {"none"}, day : Day \cup {0}] /\ completed'.cmd = "none"
    BY <1>2 DEF Nothing
  <2>2. /\ job' \in Job /\ job'.at = 0 /\ job'.list \in Seq(Entry) /\ job'.rebuilt = <<>>
        /\ job'.days # <<>>
    BY <1>3, JobOfDay DEF StartsDay
  <2>3. arc' \in [Day -> Seq(Entry)] /\ InItsDay(arc)'
    BY <1>4, SameDays DEF SameRecords
  <2> QED BY <1>2, <2>1, <2>2, <2>3 DEF Typed
<1> QED BY <1>2, <1>3, <1>4, <1>5, DayBegins, NothingCompleted

(* A command stopped leaves what it appended. *)
LEMMA StopPreserves == ASSUME IInv, Stop PROVE IInv'
<1>1. job' = NoJob /\ arc' = arc /\ arrived' = arrived /\ rot' = rot /\ completed' = Nothing
  BY DEF Stop, Discarded
<1>2. Typed'
  BY <1>1 DEF IInv, Typed, NoJob, Nothing, Job, InItsDay
<1>3. job'.cmd = "none"
  BY <1>1 DEF NoJob
<1> QED BY <1>1, <1>2, <1>3, Idle, NothingCompleted DEF IInv

(* The record a command is at. *)
LEMMA AtWork ==
  ASSUME Typed, NEW cmd \in Commands, Working(cmd)
  PROVE  /\ job.cmd = cmd /\ Today \in Day /\ job.days # <<>>
         /\ job.list \in Seq(Entry) /\ job.at \in Nat /\ Len(job.list) \in Nat
         /\ DOMAIN job.list = 1..Len(job.list)
         /\ job.at + 1 \in DOMAIN job.list /\ Current = job.list[job.at + 1]
         /\ Current \in Entry /\ Current.rec \in Record
<1>1. job.cmd = cmd /\ job.at < Len(job.list) /\ job.list \in Seq(Entry) /\ job.at \in Nat
      /\ job.days \in Seq(Day) /\ job.days # <<>>
  BY DEF Working, Typed, Job, Commands
<1>2. Today \in Day
  BY <1>1 DEF Today
<1>3. job.at + 1 \in DOMAIN job.list /\ Current = job.list[job.at + 1]
  BY <1>1 DEF Current
<1> QED BY <1>1, <1>2, <1>3, EntryParts

(* After a record a command is one further in the same list. *)
LEMMA NextRecord ==
  ASSUME Typed, NEW cmd \in Commands, Working(cmd), job' = Advanced
  PROVE  /\ job' \in Job /\ job'.cmd = cmd /\ Today' = Today /\ job'.list = job.list
         /\ job'.at = job.at + 1 /\ job'.days = job.days
         /\ job'.loaded = job.loaded /\ job'.ids = job.ids /\ job'.rebuilt = job.rebuilt
         /\ \A i : Newest(i)' = Newest(i)
<1>1. job \in Job
  BY DEF Typed
<1>2. job' = [job EXCEPT !.at = job.at + 1]
  BY DEF Advanced
<1>3. job.at + 1 \in Nat /\ job.cmd = cmd
  BY AtWork
<1>4. job' \in Job /\ job'.at = job.at + 1 /\ job'.cmd = cmd /\ job'.days = job.days
      /\ job'.list = job.list /\ job'.loaded = job.loaded /\ job'.ids = job.ids
      /\ job'.rebuilt = job.rebuilt
  BY <1>1, <1>2, <1>3 DEF Job
<1> QED BY <1>4 DEF Today, Newest

(* The record -repair is at is stored again or passed over; either way a    *)
(* good version of it prevails from then on.                                *)
LEMMA RepairPreserves == ASSUME IInv, RepairOne PROVE IInv'
<1> USE DEF IInv
<1> DEFINE q == arc[Today]
           p == arc'[Today]
           n == Len(job.list)
<1>1. Working("repair") /\ "repair" \in Commands
  BY DEF RepairOne, Commands
<1>2. job' = Advanced /\ arrived' = arrived /\ rot' = rot /\ completed' = Nothing
  BY DEF RepairOne
<1>3. /\ q \in Seq(Entry) /\ n <= Len(q) /\ \A i \in DOMAIN job.list : q[i].rec = job.list[i].rec
      /\ DOMAIN job.list \subseteq DOMAIN q
  BY <1>1, AtWork DEF Listed, Offline, Typed
<1>4. PICK r \in Record : r = Repaired[Current.rec] /\ r.day = Today
  <2>1. Current.rec = q[job.at + 1].rec /\ job.at + 1 \in DOMAIN q
    BY <1>1, <1>3, AtWork
  <2>2. Current.rec.day = Today
    BY <1>1, <2>1, AtWork DEF Typed, InItsDay
  <2> QED BY <1>1, <2>2, AtWork, Given
<1>5. Fetchable = q[job.at + 1].good
  BY <1>1, AtWork DEF Fetchable, Today
<1>6. CASE Newest(job.at + 1) /\ Fetchable /\ Damaged(Current.rec)
  <2>1. Stored(r)
    BY <1>4, <1>6 DEF RepairOne, Stored
  <2>2. /\ arc' \in [Day -> Seq(Entry)] /\ InItsDay(arc)'
        /\ p \in Seq(Entry) /\ Len(p) = Len(q) + 1
        /\ \A i \in DOMAIN q : p[i] = q[i]
        /\ p[Len(q) + 1].rec = r
        /\ DOMAIN p = DOMAIN q \cup {Len(q) + 1} /\ DOMAIN q = 1..Len(q)
    <3>1. /\ arc' \in [Day -> Seq(Entry)] /\ InItsDay(arc)' /\ Len(p) = Len(q) + 1
          /\ \A i \in DOMAIN q : p[i] = q[i]
          /\ p[Len(q) + 1].rec = r
      BY ZenonT(40), <1>4, <2>1, StoredAdds
    <3>2. p \in Seq(Entry)
      BY <1>1, <3>1, AtWork
    <3> QED BY <1>3, <3>1, <3>2
  <2>3. Typed'
    BY SMTT(20), <1>1, <1>2, <2>2, AtWork, NextRecord DEF Typed, Nothing
  <2>4. Listed'
    <3>1. job'.list = job.list /\ Today' = Today /\ n \in Nat
      BY <1>1, <1>2, AtWork, NextRecord
    <3>2. Len(q) \in Nat /\ n <= Len(p)
      BY <1>3, <2>2, <3>1
    <3>3. \A i \in DOMAIN job.list : p[i].rec = job.list[i].rec
      BY <1>3, <2>2
    <3> QED BY <3>1, <3>2, <3>3 DEF Listed
  <2>5. Repairing'
    <3>1. \A k \in DOMAIN q, i \in 1..job.at : Corrects(k, i) => Corrects(k, i)'
      BY <1>1, <1>2, <2>2, NextRecord DEF Corrects
    <3>2. \A k, i : k = Len(q) + 1 /\ i = job.at + 1 => Corrects(k, i)'
      BY <1>1, <1>2, <1>4, <1>6, <2>2, AtWork, NextRecord DEF Corrects
    <3>3. Len(q) + 1 \in DOMAIN p /\ Len(q) + 1 > n /\ 1..job'.at = 1..job.at \cup {job.at + 1}
          /\ job'.list = job.list /\ Today' = Today
      BY <1>1, <1>2, <1>3, <2>2, AtWork, NextRecord
    <3>4. ASSUME NEW k \in DOMAIN p, k > n PROVE \E i \in 1..job'.at : Corrects(k, i)'
      <4>1. CASE k \in DOMAIN q
        <5>1. \E i \in 1..job.at : Corrects(k, i)
          BY <1>1, <3>4, <4>1, AtWork DEF Repairing
        <5> QED BY <3>1, <3>3, <4>1, <5>1
      <4>2. CASE k = Len(q) + 1
        BY <3>2, <3>3, <4>2
      <4> QED BY <2>2, <4>1, <4>2
    <3>5. ASSUME NEW i \in 1..job'.at, Newest(i), p[i].good, Damaged(job.list[i].rec)
          PROVE  \E k \in DOMAIN p : k > n /\ Corrects(k, i)'
      <4>1. CASE i \in 1..job.at
        <5>1. i \in DOMAIN q
          BY <1>1, <1>3, <4>1, AtWork
        <5>2. PICK k \in DOMAIN q : k > n /\ Corrects(k, i)
          BY <1>1, <2>2, <3>5, <4>1, <5>1, AtWork DEF Repairing
        <5> QED BY <2>2, <3>1, <4>1, <5>2
      <4>2. CASE i = job.at + 1
        BY <3>2, <3>3, <4>2
      <4> QED BY <3>3, <4>1, <4>2
    <3> QED BY <3>3, <3>4, <3>5, <1>1, <1>2, NextRecord DEF Repairing
  <2> QED BY <1>1, <1>2, <2>3, <2>4, <2>5, NextRecord, NothingCompleted
          DEF Reindexing, Importing, Reingesting
<1>7. CASE ~(Newest(job.at + 1) /\ Fetchable /\ Damaged(Current.rec))
  <2>1. arc' = arc
    BY <1>7 DEF RepairOne
  <2>2. Typed'
    BY <1>1, <1>2, <2>1, AtWork, NextRecord DEF Typed, Nothing, InItsDay
  <2>3. Listed'
    <3>1. job'.list = job.list /\ Today' = Today
      BY <1>1, <1>2, NextRecord
    <3> QED BY <1>3, <2>1, <3>1 DEF Listed
  <2>4. Repairing'
    <3>1. \A k, i : Corrects(k, i)' = Corrects(k, i)
      BY <1>1, <1>2, <2>1, NextRecord DEF Corrects
    <3>2. 1..job'.at = 1..job.at \cup {job.at + 1} /\ job'.list = job.list /\ Today' = Today
      BY <1>1, <1>2, AtWork, NextRecord
    <3>3. ~(Newest(job.at + 1) /\ q[job.at + 1].good /\ Damaged(job.list[job.at + 1].rec))
      BY <1>1, <1>5, <1>7, AtWork
    <3> QED BY <1>1, <1>2, <2>1, <3>1, <3>2, <3>3, AtWork, NextRecord DEF Repairing
  <2> QED BY <1>1, <1>2, <2>2, <2>3, <2>4, NextRecord, NothingCompleted
          DEF Reindexing, Importing, Reingesting
<1> QED BY <1>6, <1>7

(* Adding one entry at the end of a rebuilt index. *)
LEMMA ConcatOne ==
  ASSUME NEW q \in Seq(Entry), NEW e \in Entry
  PROVE  /\ q \o <<e>> \in Seq(Entry) /\ Len(q \o <<e>>) = Len(q) + 1
         /\ DOMAIN (q \o <<e>>) = DOMAIN q \cup {Len(q) + 1}
         /\ (q \o <<e>>)[Len(q) + 1] = e
         /\ \A i \in DOMAIN q : (q \o <<e>>)[i] = q[i]
<1>1. q \o <<e>> \in Seq(Entry) /\ Len(q \o <<e>>) = Len(q) + 1 /\ Len(q) \in Nat
  OBVIOUS
<1>2. DOMAIN (q \o <<e>>) = 1..Len(q) + 1 /\ DOMAIN q = 1..Len(q)
  BY <1>1
<1>3. \A i \in DOMAIN q : (q \o <<e>>)[i] = q[i]
  BY <1>1, <1>2
<1>4. (q \o <<e>>)[Len(q) + 1] = e
  BY <1>1, <1>2
<1> QED BY <1>1, <1>2, <1>3, <1>4

(* A rebuilt entry is of the same record. *)
LEMMA RebuiltEntry ==
  ASSUME NEW e \in Entry
  PROVE  Rebuilt(e) \in Entry /\ Rebuilt(e).rec = e.rec /\ Rebuilt(e).age = "rebuilt"
BY DEF Rebuilt, Entry

(* The rebuilt index has the records done so far, in their order. *)
LEMMA ReindexPreserves == ASSUME IInv, ReindexOne PROVE IInv'
<1> USE DEF IInv
<1>1. Working("reindex") /\ "reindex" \in Commands
  BY DEF ReindexOne, Commands
<1>2. /\ arc' = arc /\ arrived' = arrived /\ rot' = rot /\ completed' = Nothing
      /\ job' = [Advanced EXCEPT !.rebuilt = job.rebuilt \o <<Rebuilt(Current)>>]
  BY <1>1, AtWork DEF ReindexOne, Projected, Advanced, Typed, Job
<1>3. PICK e \in Entry : e = Rebuilt(Current) /\ e.rec = Current.rec /\ e.age = "rebuilt"
  BY <1>1, AtWork, RebuiltEntry
<1>4. /\ job' \in Job /\ job'.cmd = "reindex" /\ Today' = Today /\ job'.list = job.list
      /\ job'.at = job.at + 1 /\ job'.days = job.days
      /\ job'.rebuilt = job.rebuilt \o <<e>>
  <2>1. job' = [job EXCEPT !.at = job.at + 1, !.rebuilt = job.rebuilt \o <<e>>]
    BY <1>2, <1>3 DEF Advanced, Typed, Job
  <2>2. job.rebuilt \o <<e>> \in Seq(Entry) /\ job.at + 1 \in Nat
    BY <1>1, AtWork DEF Typed, Job
  <2>3. job' \in Job /\ job'.cmd = job.cmd /\ job'.list = job.list /\ job'.at = job.at + 1
        /\ job'.days = job.days /\ job'.rebuilt = job.rebuilt \o <<e>>
    BY <2>1, <2>2 DEF Typed, Job
  <2> QED BY <1>1, <2>3, AtWork DEF Today
<1>5. Typed'
  BY <1>1, <1>2, <1>4, AtWork DEF Typed, Nothing, InItsDay
<1>6. Listed'
  BY <1>1, <1>2, <1>4, AtWork DEF Listed, Offline
<1>7. Reindexing'
  <2> DEFINE old == job.rebuilt
             new == job'.rebuilt
  <2>1. old \in Seq(Entry) /\ Len(old) = job.at /\ Len(arc[Today]) = Len(job.list)
        /\ \A i \in DOMAIN old : old[i].rec = job.list[i].rec /\ old[i].age = "rebuilt"
    BY <1>1, AtWork DEF Reindexing, Typed, Job
  <2>2. /\ Len(new) = job.at + 1 /\ new[job.at + 1] = e
        /\ DOMAIN new = DOMAIN old \cup {job.at + 1}
        /\ \A i \in DOMAIN old : new[i] = old[i]
    BY <1>4, <2>1, ConcatOne
  <2>3. e.rec = job.list[job.at + 1].rec
    BY <1>1, <1>3, AtWork
  <2> QED BY <1>2, <1>3, <1>4, <2>1, <2>2, <2>3 DEF Reindexing
<1> QED BY <1>2, <1>4, <1>5, <1>6, <1>7, NothingCompleted DEF Repairing, Importing, Reingesting

(* The record -import is at is stored, or its day has its id, or it cannot  *)
(* be read.                                                                 *)
LEMMA ImportPreserves == ASSUME IInv, ImportOne PROVE IInv'
<1> USE DEF IInv
<1>1. Working("import") /\ "import" \in Commands
  BY DEF ImportOne, Commands
<1>2. arrived' = arrived /\ rot' = rot /\ completed' = Nothing
  BY DEF ImportOne
<1>3. PICK r \in Record : r = Current.rec /\ r.day = Today /\ r.rid \in Rids
  <2>1. Current = Source[Today][job.at + 1] /\ job.at + 1 \in DOMAIN Source[Today]
    BY <1>1, AtWork DEF Importing
  <2>2. Current.rec.day = Today
    BY <1>1, <2>1, AtWork, Given DEF InItsDay
  <2>3. Current.rec \in Record /\ Current.rec.rid \in Rids
    BY <1>1, AtWork, EntryParts
  <2> QED BY <2>2, <2>3
<1> DEFINE done == Newest(job.at + 1) /\ Current.good => r.rid \in IdsOf(Today)'
           known == job.loaded' = TRUE
<1>4. Fetchable = Current.good
  BY <1>1, AtWork DEF Fetchable
<1>5. /\ Today \in Day /\ job.list = Source[Today]
      /\ Ids \subseteq IdsOf(Today) /\ IdsOf(Today) \subseteq Ids \cup ArrivedIds
      /\ \A i \in 1..job.at : Newest(i) /\ job.list[i].good => job.list[i].rec.rid \in IdsOf(Today)
  BY <1>1, AtWork DEF Importing
<1>6. Ids \in SUBSET Rids
  <2>1. \A i \in DOMAIN arc[Today] : arc[Today][i].rec.rid \in Rids
    BY <1>5, EntryParts DEF Typed
  <2> QED BY SMTT(20), <2>1 DEF Ids, IdsOf, Typed, Job, Today
<1>7. ASSUME NEW ids \in SUBSET Rids, job' = Knowing(ids)
      PROVE  /\ job' \in Job /\ job'.cmd = "import" /\ Today' = Today /\ job'.list = job.list
             /\ job'.at = job.at + 1 /\ job'.days = job.days /\ job'.rebuilt = job.rebuilt
             /\ Ids' = ids
  <2>1. job' = [job EXCEPT !.at = job.at + 1, !.loaded = TRUE, !.ids = ids]
    BY <1>7 DEF Knowing, Advanced, Typed, Job
  <2>2. job.at + 1 \in Nat /\ job.cmd = "import"
    BY <1>1, AtWork
  <2>3. job' \in Job /\ job'.cmd = job.cmd /\ job'.list = job.list /\ job'.at = job.at + 1
        /\ job'.days = job.days /\ job'.rebuilt = job.rebuilt /\ job'.loaded = TRUE
        /\ job'.ids = ids
    BY <2>1, <2>2 DEF Typed, Job
  <2> QED BY <2>2, <2>3 DEF Today, Ids
(* Three outcomes: the record is passed over, known, or stored. *)
<1>8. /\ job' \in Job /\ job'.cmd = "import" /\ Today' = Today /\ job'.list = job.list
      /\ job'.at = job.at + 1 /\ job'.days = job.days /\ job'.rebuilt = job.rebuilt
      /\ arc' \in [Day -> Seq(Entry)] /\ InItsDay(arc)'
      /\ IdsOf(Today) \subseteq IdsOf(Today)'
      /\ Ids' \subseteq IdsOf(Today)' /\ IdsOf(Today)' \subseteq Ids' \cup ArrivedIds
      /\ (Newest(job.at + 1) /\ Current.good => r.rid \in IdsOf(Today)')
  <2>1. CASE ~(Newest(job.at + 1) /\ Fetchable)
    <3>1. arc' = arc /\ job' = Advanced
      BY <2>1 DEF ImportOne
    <3>2. Today' = Today /\ IdsOf(Today)' = IdsOf(Today) /\ Ids' = Ids
      <4>1. Today' = Today /\ job'.loaded = job.loaded /\ job'.ids = job.ids
        BY <1>1, <3>1, NextRecord
      <4>2. IdsOf(Today)' = IdsOf(Today)
        BY <3>1, <4>1 DEF IdsOf
      <4> QED BY <4>1, <4>2 DEF Ids, Today
    <3> QED BY <1>1, <1>4, <1>5, <2>1, <3>1, <3>2, NextRecord DEF Typed, InItsDay
  <2>2. CASE Newest(job.at + 1) /\ Fetchable /\ r.rid \in Ids
    <3>1. arc' = arc /\ job' = Knowing(Ids)
      BY <1>3, <2>2 DEF ImportOne, Known
    <3>2. /\ job' \in Job /\ job'.cmd = "import" /\ Today' = Today /\ job'.list = job.list
          /\ job'.at = job.at + 1 /\ job'.days = job.days /\ job'.rebuilt = job.rebuilt
          /\ Ids' = Ids
      BY <1>6, <1>7, <3>1
    <3>3. IdsOf(Today)' = IdsOf(Today)
      BY <3>1, <3>2 DEF IdsOf
    <3> QED BY <1>5, <2>2, <3>1, <3>2, <3>3 DEF Typed, InItsDay
  <2>3. CASE Newest(job.at + 1) /\ Fetchable /\ r.rid \notin Ids
    <3>1. Stored(r) /\ job' = Knowing(Ids \cup {r.rid})
      BY <1>3, <2>3 DEF ImportOne, Known, Stored
    <3>2. /\ job' \in Job /\ job'.cmd = "import" /\ Today' = Today /\ job'.list = job.list
          /\ job'.at = job.at + 1 /\ job'.days = job.days /\ job'.rebuilt = job.rebuilt
          /\ Ids' = Ids \cup {r.rid}
      BY <1>3, <1>6, <1>7, <3>1
    <3>3. arc' \in [Day -> Seq(Entry)] /\ InItsDay(arc)'
      BY <3>1, StoredAdds
    <3>4. IdsOf(Today)' = IdsOf(Today) \cup {r.rid}
      <4>1. \A d \in Day : d = r.day => IdsOf(d)' = IdsOf(d) \cup {r.rid}
        BY <3>1, IdsGrow
      <4> QED BY <1>3, <1>5, <3>2, <4>1
    <3> QED BY <1>5, <3>2, <3>3, <3>4
  <2> QED BY <2>1, <2>2, <2>3
<1>9. Typed'
  BY <1>1, <1>2, <1>8, AtWork DEF Typed, Nothing
<1>10. Importing'
  <2>1. ASSUME NEW i \in 1..job'.at, Newest(i)', job.list[i].good
        PROVE  job.list[i].rec.rid \in IdsOf(Today)'
    <3>1. Newest(i)
      BY <1>8, <2>1 DEF Newest
    <3>2. CASE i \in 1..job.at
      BY <1>5, <1>8, <2>1, <3>1, <3>2
    <3>3. CASE i = job.at + 1
      BY <1>1, <1>3, <1>8, <2>1, <3>1, <3>3, AtWork
    <3> QED BY <1>1, <1>8, <3>2, <3>3, AtWork
  <2>2. ArrivedIds' = ArrivedIds
    BY <1>2 DEF ArrivedIds
  <2> QED BY <1>5, <1>8, <2>1, <2>2 DEF Importing
<1> QED BY <1>2, <1>8, <1>9, <1>10, NothingCompleted
        DEF Listed, Offline, Reindexing, Repairing, Reingesting

(* The record -reingest is at is stored and prevails unless something newer *)
(* arrived.                                                                 *)
LEMMA ReingestPreserves == ASSUME IInv, ReingestOne PROVE IInv'
<1> USE DEF IInv
<1>1. Working("reingest") /\ "reingest" \in Commands
  BY DEF ReingestOne, Commands
<1>2. job' = Advanced /\ arrived' = arrived /\ rot' = rot /\ completed' = Nothing
  BY DEF ReingestOne
<1>3. PICK r \in Record : r = Current.rec /\ r.day = Today
  <2>1. Current = Source[Today][job.at + 1] /\ job.at + 1 \in DOMAIN Source[Today]
    BY <1>1, AtWork DEF Reingesting
  <2>2. Current.rec.day = Today
    BY <1>1, <2>1, AtWork, Given DEF InItsDay
  <2> QED BY <1>1, <2>2, AtWork
<1>4. job.list = Source[Today] /\ \A i \in 1..job.at : Newest(i) => Prevails(job.list[i].rec, Today)
  BY <1>1, AtWork DEF Reingesting
<1>5. /\ arc' \in [Day -> Seq(Entry)] /\ InItsDay(arc)'
      /\ \A i \in 1..job.at : Newest(i) => Prevails(job.list[i].rec, Today)'
      /\ Newest(job.at + 1) => Prevails(r, Today)'
  <2>1. CASE Newest(job.at + 1)
    <3>1. Stored(r)
      BY <1>3, <2>1 DEF ReingestOne, Stored
    <3>2. ASSUME NEW i \in 1..job.at, Newest(i) PROVE Prevails(job.list[i].rec, Today)'
      <4>1. job.list[i].rec \in Record /\ job.list[i].rec.rid # r.rid
        <5>1. i \in DOMAIN job.list /\ job.at + 1 > i
          BY <1>1, AtWork
        <5>2. job.list[i].rec.rid # job.list[job.at + 1].rec.rid
          BY <1>1, <3>2, <5>1, AtWork DEF Newest
        <5>3. job.list[i] \in Entry
          BY <1>1, <5>1, AtWork
        <5> QED BY <1>1, <1>3, <5>2, <5>3, AtWork, EntryParts
      <4>2. \A x \in Record : x.rid # r.rid /\ Prevails(x, r.day) => Prevails(x, r.day)'
        BY <1>2, <1>3, <3>1, AtWork, StillPrevails, RecordDay
      <4>3. Today' = Today /\ job'.list = job.list
        BY <1>1, <1>2, NextRecord
      <4> QED BY <1>3, <1>4, <3>2, <4>1, <4>2, <4>3
    <3>3. Prevails(r, r.day)'
      BY <3>1, StoredPrevails
    <3>4. Today' = r.day
      BY <1>1, <1>2, <1>3, NextRecord
    <3> QED BY <3>1, <3>2, <3>3, <3>4, StoredAdds
  <2>2. CASE ~Newest(job.at + 1)
    <3>1. arc' = arc
      BY <2>2 DEF ReingestOne
    <3>2. \A x, d : Prevails(x, d)' = Prevails(x, d)
      BY <1>2, <3>1 DEF Prevails
    <3>3. Today' = Today /\ job'.list = job.list
      BY <1>1, <1>2, NextRecord
    <3> QED BY <1>4, <2>2, <3>1, <3>2, <3>3 DEF Typed, InItsDay
  <2> QED BY <2>1, <2>2
<1>6. Typed'
  BY <1>1, <1>2, <1>5, AtWork, NextRecord DEF Typed, Nothing
<1>7. Reingesting'
  <2>1. /\ Today' = Today /\ job'.list = job.list /\ job'.at = job.at + 1
        /\ \A i : Newest(i)' = Newest(i)
    BY <1>1, <1>2, NextRecord
  <2>2. ASSUME NEW i \in 1..job'.at, Newest(i)
        PROVE  \A x \in Record : x = job.list[i].rec => Prevails(x, Today)'
    <3>1. CASE i \in 1..job.at
      BY <1>5, <2>1, <2>2, <3>1
    <3>2. CASE i = job.at + 1
      BY <1>1, <1>3, <1>5, <2>1, <2>2, <3>2, AtWork
    <3> QED BY <1>1, <2>1, <3>1, <3>2, AtWork
  <2>3. \A i \in 1..job'.at : job.list[i].rec \in Record
    BY <1>1, <2>1, AtWork, EntryParts
  <2> QED BY <1>4, <2>1, <2>2, <2>3 DEF Reingesting
<1>8. job'.cmd = "reingest"
  BY <1>1, <1>2, NextRecord
<1> QED BY <1>2, <1>6, <1>7, <1>8, NothingCompleted
        DEF Listed, Offline, Reindexing, Repairing, Importing

(* The end of a day: the rebuilt index has the records of the old one. *)
LEMMA RenameKeeps ==
  ASSUME IInv, job.cmd = "reindex", job.at = Len(job.list), arc' = Rename(Today)
  PROVE  /\ SameRecords
         /\ \A i \in DOMAIN arc'[Today] : arc'[Today][i].age = "rebuilt"
<1> USE DEF IInv
<1> DEFINE q == arc[Today]
           b == job.rebuilt
           p == [i \in DOMAIN b |-> [b[i] EXCEPT !.good = q[i].good]]
<1>1. Today \in Day /\ q \in Seq(Entry) /\ b \in Seq(Entry)
  BY DEF Typed, Job, Today
<1>2. /\ Len(q) = Len(job.list) /\ Len(b) = Len(job.list)
      /\ \A i \in DOMAIN b : b[i].rec = job.list[i].rec /\ b[i].age = "rebuilt"
      /\ \A i \in DOMAIN job.list : q[i].rec = job.list[i].rec
  BY DEF Reindexing, Listed, Offline
<1>3. job.list \in Seq(Entry) /\ DOMAIN q = DOMAIN b /\ DOMAIN job.list = DOMAIN b
      /\ DOMAIN b = 1..Len(b)
  BY <1>1, <1>2 DEF Typed, Job
<1>4. ASSUME NEW i \in DOMAIN b
      PROVE  p[i] \in Entry /\ p[i].rec = q[i].rec /\ p[i].good = q[i].good /\ p[i].age = "rebuilt"
  <2>1. b[i] \in Entry /\ q[i] \in Entry
    BY <1>1, <1>3
  <2>2. p[i] = [b[i] EXCEPT !.good = q[i].good]
    OBVIOUS
  <2>3. p[i] \in Entry /\ p[i].rec = b[i].rec /\ p[i].good = q[i].good /\ p[i].age = b[i].age
    BY <2>1, <2>2 DEF Entry
  <2> QED BY <1>2, <1>3, <2>3
<1>5. arc' = [arc EXCEPT ![Today] = p]
  BY DEF Rename
<1>6. DOMAIN p = DOMAIN b
  OBVIOUS
<1> HIDE DEF p
<1>7. p \in Seq(Entry) /\ Len(p) = Len(q)
  <2>1. p \in [1..Len(b) -> Entry] /\ Len(b) \in Nat
    <3>1. p = [i \in 1..Len(b) |-> p[i]]
      BY <1>3, Zenon DEF p
    <3>2. \A i \in 1..Len(b) : p[i] \in Entry
      BY <1>3, <1>4
    <3>3. p \in [1..Len(b) -> Entry]
      BY <3>1, <3>2, Zenon
    <3>4. Len(b) \in Nat
      BY <1>1
    <3> QED BY <3>3, <3>4
  <2>2. p \in Seq(Entry) /\ Len(p) = Len(b)
    BY <2>1
  <2> QED BY <1>2, <2>2
<1>8. arc' \in [Day -> Seq(Entry)] /\ arc'[Today] = p /\ \A d \in Day : d # Today => arc'[d] = arc[d]
  BY <1>1, <1>5, <1>7 DEF Typed
<1>9. \A d \in Day : Len(arc'[d]) = Len(arc[d]) /\ DOMAIN arc'[d] = DOMAIN arc[d]
  BY <1>3, <1>6, <1>7, <1>8
<1>10. ASSUME NEW d \in Day, NEW i \in DOMAIN arc[d]
       PROVE  arc'[d][i].rec = arc[d][i].rec /\ (arc'[d][i].good => arc[d][i].good)
  BY <1>3, <1>4, <1>8
<1>11. \A i \in DOMAIN arc'[Today] : arc'[Today][i].age = "rebuilt"
  BY <1>4, <1>6, <1>8
<1> QED BY <1>8, <1>9, <1>10, <1>11 DEF SameRecords

(* The end of a day stores nothing; that of -reindex only replaces an index *)
(* by one with the same records.                                            *)
LEMMA EndDayKeeps ==
  ASSUME IInv, EndDay
  PROVE  /\ SameRecords
         /\ job.cmd # "reindex" => arc' = arc
         /\ job.cmd = "reindex" => \A i \in DOMAIN arc'[Today] : arc'[Today][i].age = "rebuilt"
<1>1. CASE job.cmd = "reindex"
  BY <1>1, RenameKeeps DEF EndDay, Replaced, Today
<1>2. CASE job.cmd # "reindex"
  <2>1. arc' = arc
    BY <1>2 DEF EndDay, Replaced
  <2> QED BY <1>2, <2>1 DEF SameRecords, IInv, Typed
<1> QED BY <1>1, <1>2

(* All of a day done is what the command promised of it. *)
LEMMA EndDayCompletes == ASSUME IInv, EndDay PROVE CompletedMeansDone'
<1> USE DEF IInv
<1>1. /\ completed' = [cmd |-> job.cmd, day |-> Today] /\ job.at = Len(job.list)
      /\ arrived' = arrived /\ job.cmd \in Commands
  BY DEF EndDay, Today, Typed, Job
<1>2. Today \in Day /\ arc[Today] \in Seq(Entry) /\ job.list \in Seq(Entry)
      /\ DOMAIN job.list = 1..job.at /\ job.at \in Nat
  BY <1>1 DEF Typed, Job, Today, Commands
<1>3. CASE job.cmd = "repair"
  <2>1. arc' = arc
    BY <1>3, EndDayKeeps
  <2>2. /\ job.at <= Len(arc[Today])
        /\ \A i \in DOMAIN job.list : arc[Today][i].rec = job.list[i].rec /\ i \in DOMAIN arc[Today]
    BY <1>1, <1>2, <1>3 DEF Listed, Offline
  <2>3. ASSUME NEW k \in Latest(Today), arc[Today][k].good PROVE ~Damaged(arc[Today][k].rec)
    <3>1. k \in DOMAIN arc[Today] /\ k \in Nat /\ k >= 1
          /\ \A j \in DOMAIN arc[Today] : j > k => arc[Today][j].rec.rid # arc[Today][k].rec.rid
      BY <1>2 DEF Latest
    <3>2. CASE k > job.at
      <4>1. PICK i \in 1..job.at : Corrects(k, i)
        BY <1>1, <1>3, <3>1, <3>2 DEF Repairing
      <4>2. job.list[i].rec \in Record
        BY <1>2, EntryParts
      <4> QED BY <4>1, <4>2, Given DEF Corrects
    <3>3. CASE k <= job.at
      <4>1. k \in 1..job.at /\ arc[Today][k].rec = job.list[k].rec
        BY <1>2, <2>2, <3>1, <3>3
      <4>2. Newest(k)
        BY <2>2, <3>1, <4>1 DEF Newest
      <4>3. SUFFICES ASSUME Damaged(job.list[k].rec) PROVE FALSE
        BY <4>1
      <4>4. PICK j \in DOMAIN arc[Today] : j > Len(job.list) /\ Corrects(j, k)
        BY <1>3, <2>3, <4>1, <4>2, <4>3 DEF Repairing
      <4>5. job.list[k].rec \in Record
        BY <1>2, <4>1, EntryParts
      <4>6. arc[Today][j].rec.rid = arc[Today][k].rec.rid
        BY <4>1, <4>4, <4>5, Given DEF Corrects
      <4>7. j > k
        BY <1>1, <1>2, <3>1, <3>3, <4>4
      <4> QED BY <3>1, <4>6, <4>7
    <3> QED BY <1>2, <3>1, <3>2, <3>3
  <2>4. \A e \in Shown(Today) : e.good => ~Damaged(e.rec)
    BY <2>3 DEF Shown
  <2>5. Shown(completed.day)' = Shown(Today)
    BY <1>1, <2>1 DEF Shown, Latest
  <2> QED BY <1>1, <1>3, <2>4, <2>5 DEF CompletedMeansDone
<1>4. CASE job.cmd = "reindex"
  <2>1. \A i \in DOMAIN arc'[Today] : arc'[Today][i].age = "rebuilt"
    BY <1>4, EndDayKeeps
  <2>2. completed'.cmd = "reindex" /\ completed'.day = Today
    BY <1>1, <1>4
  <2> QED BY <2>1, <2>2 DEF CompletedMeansDone
<1>5. \A e \in SourceShown(Today) : job.list = Source[Today] =>
        \E i \in 1..job.at : e = job.list[i] /\ Newest(i)
  BY <1>2 DEF SourceShown, Newest
<1>6. CASE job.cmd = "import"
  <2>1. arc' = arc /\ completed'.cmd = "import" /\ completed'.day = Today
    BY <1>1, <1>6, EndDayKeeps
  <2>2. \A e \in SourceShown(Today) : e.good => e.rec.rid \in IdsOf(Today)
    BY <1>5, <1>6 DEF Importing
  <2>3. IdsOf(completed.day)' = IdsOf(Today) /\ SourceShown(completed.day)' = SourceShown(Today)
    BY <2>1 DEF IdsOf, SourceShown
  <2> QED BY <2>1, <2>2, <2>3 DEF CompletedMeansDone
<1>7. CASE job.cmd = "reingest"
  <2>1. arc' = arc /\ completed'.cmd = "reingest" /\ completed'.day = Today
    BY <1>1, <1>7, EndDayKeeps
  <2>2. \A e \in SourceShown(Today) : Prevails(e.rec, Today)
    BY <1>5, <1>7 DEF Reingesting
  <2>3. SourceShown(completed.day)' = SourceShown(Today)
    BY <2>1 DEF SourceShown
  <2> QED BY <1>1, <2>1, <2>2, <2>3 DEF CompletedMeansDone, Prevails
<1> QED BY <1>1, <1>3, <1>4, <1>6, <1>7 DEF Commands

(* The end of a day keeps the invariant: the command goes on to the next    *)
(* day or is over.                                                          *)
LEMMA EndDayPreserves == ASSUME IInv, EndDay PROVE IInv'
<1> USE DEF IInv
<1> DEFINE rest == Tail(job.days)
<1>1. SameRecords /\ CompletedMeansDone'
  BY EndDayKeeps, EndDayCompletes
<1>2. /\ completed' = [cmd |-> job.cmd, day |-> Today] /\ job.cmd \in Commands
      /\ arrived' = arrived /\ rot' = rot
  BY DEF EndDay, Today, Typed, Job
<1>3. Today \in Day /\ rest \in Seq(Day)
  BY <1>2 DEF Typed, Job, Today, Commands
<1>4. arc' \in [Day -> Seq(Entry)] /\ InItsDay(arc)'
  BY <1>1, SameDays DEF SameRecords
<1>5. completed' \in [cmd : Commands \cup {"none"}, day : Day \cup {0}] /\ completed'.day = Today
  BY <1>2, <1>3
<1>6. CASE rest = <<>>
  <2>1. job' = NoJob
    BY <1>6 DEF EndDay
  <2>2. job' \in Job /\ job'.cmd = "none" /\ job'.at = 0 /\ Len(job'.list) = 0 /\ job'.rebuilt = <<>>
    BY <2>1 DEF NoJob, Job
  <2>3. Typed'
    BY <1>2, <1>3, <1>4, <1>5, <2>2 DEF Typed
  <2> QED BY <1>1, <2>2, <2>3, Idle
<1>7. CASE rest # <<>>
  <2>1. StartsDay(job.cmd, rest)
    BY <1>2, <1>3, <1>7 DEF EndDay, StartsDay
  <2>2. /\ job' \in Job /\ job'.at = 0 /\ job'.days = rest /\ job'.list \in Seq(Entry)
        /\ job'.rebuilt = <<>>
    BY <2>1, JobOfDay
  <2>3. Typed'
    <3>1. job'.at <= Len(job'.list) /\ job'.days # <<>>
      BY <1>7, <2>2
    <3> HIDE DEF rest
    <3> QED BY <1>2, <1>3, <1>4, <1>5, <2>2, <3>1 DEF Typed
  <2>4. Listed' /\ Reindexing' /\ Repairing' /\ Importing' /\ Reingesting'
    BY <1>1, <2>1, DayBegins
  <2> QED BY <1>1, <2>3, <2>4
<1> QED BY <1>6, <1>7

(* Every step keeps the invariant. *)
LEMMA Inductive == IInv /\ [Next]_vars => IInv'
<1> SUFFICES ASSUME IInv, [Next]_vars PROVE IInv'
  OBVIOUS
<1>1. CASE UNCHANGED vars
  <2>1. arc' = arc /\ job' = job /\ arrived' = arrived /\ rot' = rot /\ completed' = completed
    BY <1>1 DEF vars
  <2>2. Typed' /\ Listed' /\ Reindexing'
    BY <2>1 DEF IInv, Typed, InItsDay, Listed, Offline, Reindexing, Today
  <2>3. Repairing' /\ Importing' /\ Reingesting'
    <3>1. /\ Today' = Today /\ Ids' = Ids /\ ArrivedIds' = ArrivedIds
          /\ \A i : Newest(i)' = Newest(i)
          /\ \A k, i : Corrects(k, i)' = Corrects(k, i)
          /\ \A d : IdsOf(d)' = IdsOf(d)
          /\ \A x, d : Prevails(x, d)' = Prevails(x, d)
      BY <2>1 DEF Today, Ids, ArrivedIds, IdsOf, Newest, Corrects, Prevails
    <3>2. Repairing'
      BY <2>1, <3>1 DEF IInv, Repairing
    <3>3. Importing'
      BY <2>1, <3>1 DEF IInv, Importing
    <3>4. Reingesting'
      BY <2>1, <3>1 DEF IInv, Reingesting
    <3> QED BY <3>2, <3>3, <3>4
  <2>4. CompletedMeansDone'
    <3>1. \A d : Shown(d)' = Shown(d) /\ IdsOf(d)' = IdsOf(d) /\ SourceShown(d)' = SourceShown(d)
      BY <2>1 DEF Shown, Latest, IdsOf, SourceShown
    <3>2. CompletedMeansDone
      BY DEF IInv
    <3> QED BY <2>1, <3>1, <3>2 DEF CompletedMeansDone
  <2> QED BY <2>2, <2>3, <2>4 DEF IInv
<1>2. CASE Next
  BY <1>2, ArrivePreserves, RotPreserves, BeginPreserves, RepairPreserves, ReindexPreserves,
     ImportPreserves, ReingestPreserves, EndDayPreserves, StopPreserves
     DEF Next, Commands
<1> QED BY <1>1, <1>2

(* The invariant holds in every state. *)
LEMMA Always == Spec => []IInv
BY Initially, Inductive, PTL DEF Spec

-----------------------------------------------------------------------------
(* The theorems. *)

(* The commands keep the archive and their own state well typed. *)
THEOREM TypeCorrect == Spec => []TypeOK
<1>1. IInv => TypeOK
  <2> SUFFICES ASSUME IInv PROVE TypeOK
    OBVIOUS
  <2>1. Typed /\ Reindexing
    BY DEF IInv
  <2>2. Len(job.rebuilt) <= job.at /\ (job.cmd = "reindex" => Len(job.rebuilt) = job.at)
    <3>1. CASE job.cmd = "reindex"
      BY <2>1, <3>1 DEF Reindexing, Typed, Job
    <3>2. CASE job.cmd # "reindex"
      <4>1. Len(job.rebuilt) = 0
        BY <2>1, <3>2 DEF Typed
      <4> QED BY <2>1, <3>2, <4>1 DEF Typed, Job
    <3> QED BY <3>1, <3>2
  <2>3. /\ job.cmd \in {"none", "repair", "reindex", "reingest", "import"}
        /\ job.days \in Seq(Day) /\ job.list \in Seq(Entry) /\ job.at \in 0..Len(job.list)
        /\ job.rebuilt \in Seq(Entry)
    BY <2>1 DEF Typed, Job, Commands
  <2> QED BY <2>1, <2>2, <2>3 DEF Typed, TypeOK
<1> QED BY <1>1, Always, PTL

(* A step that changes no record leaves every entry in its place. *)
LEMMA SameKeepsAll ==
  ASSUME Typed, SameRecords
  PROVE  \A d \in Day : /\ Len(arc'[d]) >= Len(arc[d])
                        /\ \A i \in DOMAIN arc[d] : Same(arc[d][i], arc'[d][i])
<1>1. \A d \in Day : arc[d] \in Seq(Entry) /\ Len(arc[d]) \in Nat
  BY DEF Typed
<1> QED BY <1>1 DEF SameRecords, Same

(* An append leaves every entry in its place. *)
LEMMA StoringKeepsAll ==
  ASSUME Typed, NEW r \in Record, Stored(r)
  PROVE  \A d \in Day : /\ Len(arc'[d]) >= Len(arc[d])
                        /\ \A i \in DOMAIN arc[d] : Same(arc[d][i], arc'[d][i])
<1>1. \A d \in Day : arc[d] \in Seq(Entry) /\ Len(arc[d]) \in Nat
  BY DEF Typed
<1> QED BY <1>1, StoredAdds DEF Same

(* What a step does to the archive: it stores a record, or keeps them all.  *)
LEMMA StoresOrKeeps ==
  ASSUME IInv, Next
  PROVE  SameRecords \/ \E r \in Record : Stored(r)
<1> USE DEF IInv
<1>1. arc' = arc => SameRecords
  BY DEF SameRecords, Typed
<1>2. CASE \E r \in Arriving : Arrive(r)
  BY <1>2, Given DEF Arrive
<1>3. CASE \E d \in Day : \E i \in DOMAIN arc[d] : Rot(d, i)
  BY <1>3, RotKeeps
<1>4. CASE \E cmd \in {"repair", "reindex", "reingest", "import"}, S \in SUBSET Day : Begin(cmd, S)
  BY <1>1, <1>4 DEF Begin
<1>5. CASE RepairOne
  <2>1. Repaired[Current.rec] \in Record
    BY <1>5, AtWork, Given DEF RepairOne, Commands
  <2> QED BY <1>1, <1>5, <2>1 DEF RepairOne
<1>6. CASE ReindexOne
  BY <1>1, <1>6 DEF ReindexOne
<1>7. CASE ImportOne
  <2>1. Current.rec \in Record
    BY <1>7, AtWork DEF ImportOne, Commands
  <2> QED BY <1>1, <1>7, <2>1 DEF ImportOne
<1>8. CASE ReingestOne
  <2>1. Current.rec \in Record
    BY <1>8, AtWork DEF ReingestOne, Commands
  <2> QED BY <1>1, <1>8, <2>1 DEF ReingestOne
<1>9. CASE EndDay
  BY <1>9, EndDayKeeps
<1>10. CASE Stop
  BY <1>1, <1>10 DEF Stop, Discarded
<1> QED BY <1>2, <1>3, <1>4, <1>5, <1>6, <1>7, <1>8, <1>9, <1>10 DEF Next

(* No command takes anything away, wherever it is stopped: every entry      *)
(* stays in its place with its record (repair.go:32-35, reindex.go:19-21,   *)
(* reingest.go:18-20).                                                      *)
THEOREM NoCommandLoses == Spec => NothingLost
<1> DEFINE Keeps ==
             \A d \in Day : /\ Len(arc'[d]) >= Len(arc[d])
                            /\ \A i \in DOMAIN arc[d] : Same(arc[d][i], arc'[d][i])
<1>1. IInv /\ [Next]_vars => [Keeps]_vars
  <2> SUFFICES ASSUME IInv, Next PROVE Keeps
    OBVIOUS
  <2> QED BY StoresOrKeeps, SameKeepsAll, StoringKeepsAll DEF IInv
<1>2. [][Keeps]_vars => NothingLost
  BY PTL DEF NothingLost
<1> QED BY <1>1, Always, <1>2, PTL DEF Spec

(* What -import stores is of a call its archive did not have when the       *)
(* import opened the day.                                                   *)
LEMMA ImportAdds ==
  ASSUME IInv, ImportOne, NEW d \in Day, Len(arc'[d]) > Len(arc[d])
  PROVE  Added(d).rid \notin IdsOf(d) \/ Overtaken(Added(d).rid)
<1> USE DEF IInv
<1>1. Working("import") /\ "import" \in Commands /\ arrived' = arrived
  BY DEF ImportOne, Commands
<1>2. Len(arc[d]) \in Nat
  BY DEF Typed
<1>3. arc' # arc
  BY <1>2
<1>4. PICK r \in Record : r = Current.rec /\ Stored(r) /\ r.rid \notin Ids
  BY <1>1, <1>3, AtWork DEF ImportOne, Known, Stored
<1>5. d = r.day /\ Len(arc'[d]) = Len(arc[d]) + 1 /\ Added(d) = r
  BY <1>2, <1>4, StoredAdds DEF Added
<1>6. Current.rec.day = Today
  <2>1. Current = Source[Today][job.at + 1] /\ job.at + 1 \in DOMAIN Source[Today]
    BY <1>1, AtWork DEF Importing
  <2> QED BY <1>1, <2>1, AtWork, Given DEF InItsDay
<1>7. IdsOf(Today) \subseteq Ids \cup ArrivedIds
  BY <1>1, AtWork DEF Importing
<1> QED BY <1>1, <1>4, <1>5, <1>6, <1>7 DEF ArrivedIds, Overtaken

(* What -repair stores is of a call whose version that prevails needs it. *)
LEMMA RepairAdds ==
  ASSUME IInv, RepairOne, NEW d \in Day, Len(arc'[d]) > Len(arc[d])
  PROVE  \E e \in Shown(d) : e.rec.rid = Added(d).rid /\ Damaged(e.rec)
<1> USE DEF IInv
<1> DEFINE k == job.at + 1
           e == arc[Today][k]
<1>1. Working("repair") /\ "repair" \in Commands
  BY DEF RepairOne, Commands
<1>2. Len(arc[d]) \in Nat
  BY DEF Typed
<1>3. arc' # arc
  BY <1>2
<1>4. Newest(k) /\ Damaged(Current.rec) /\ Stored(Repaired[Current.rec])
  BY <1>3 DEF RepairOne
<1>5. PICK r \in Record : r = Repaired[Current.rec] /\ Stored(r)
  BY <1>1, <1>4, AtWork, Given DEF Stored
<1>6. d = r.day /\ Added(d) = r
  BY <1>2, <1>5, StoredAdds DEF Added
<1>7. /\ k \in DOMAIN arc[Today] /\ e.rec = Current.rec /\ k \in DOMAIN job.list
      /\ \A j \in DOMAIN job.list : arc[Today][j].rec = job.list[j].rec
      /\ arc[Today] \in Seq(Entry)
  BY <1>1, AtWork DEF Listed, Offline, Typed
<1>8. e.rec.day = Today
  BY <1>1, <1>7, AtWork DEF Typed, InItsDay
<1>9. d = Today /\ e.rec.rid = r.rid /\ Damaged(e.rec)
  BY <1>1, <1>4, <1>5, <1>6, <1>7, <1>8, AtWork, Given
<1>10. ASSUME NEW j \in DOMAIN arc[Today], j > k
       PROVE  arc[Today][j].rec.rid # e.rec.rid
  <2>1. CASE j <= Len(job.list)
    <3>1. j \in DOMAIN job.list
      BY <1>1, <1>7, <1>10, <2>1, AtWork
    <3> QED BY <1>1, <1>4, <1>7, <1>10, <3>1, AtWork DEF Newest
  <2>2. CASE j > Len(job.list)
    <3>1. PICK i \in 1..job.at : Corrects(j, i)
      BY <1>1, <1>10, <2>2, AtWork DEF Repairing
    <3>2. i \in DOMAIN job.list /\ k > i
      BY <1>1, AtWork
    <3>3. job.list[k].rec.rid # job.list[i].rec.rid
      BY <1>7, <3>1, <3>2 DEF Corrects, Newest
    <3>4. job.list[i].rec \in Record
      BY <1>1, <3>2, AtWork, EntryParts
    <3>5. arc[Today][j].rec.rid = job.list[i].rec.rid
      BY <3>1, <3>4, Given DEF Corrects
    <3> QED BY <1>1, <1>7, <3>3, <3>5, AtWork
  <2> QED BY <1>1, <1>7, <1>10, <2>1, <2>2, AtWork
<1>11. e \in Shown(Today)
  BY <1>7, <1>10 DEF Shown, Latest
<1> QED BY <1>6, <1>9, <1>11

(* Running a command again adds nothing: an import never adds a call its    *)
(* archive has, unless it arrived since the import opened the day, and a    *)
(* repair never a version of a call that needs none.                        *)
THEOREM AddsOnlyMissing == Spec => AddsOnlyWhatIsMissing
<1> DEFINE Adds ==
             \A d \in Day : Len(arc'[d]) > Len(arc[d]) =>
               /\ job.cmd = "import" /\ arrived' = arrived =>
                    Added(d).rid \notin IdsOf(d) \/ Overtaken(Added(d).rid)
               /\ job.cmd = "repair" =>
                    \E e \in Shown(d) : e.rec.rid = Added(d).rid /\ Damaged(e.rec)
<1>1. IInv /\ [Next]_vars => [Adds]_vars
  <2> SUFFICES ASSUME IInv, Next, NEW d \in Day, Len(arc'[d]) > Len(arc[d])
               PROVE  /\ job.cmd = "import" /\ arrived' = arrived =>
                           Added(d).rid \notin IdsOf(d) \/ Overtaken(Added(d).rid)
                      /\ job.cmd = "repair" =>
                           \E e \in Shown(d) : e.rec.rid = Added(d).rid /\ Damaged(e.rec)
    OBVIOUS
  <2>1. ~SameRecords
    <3>1. Len(arc[d]) \in Nat
      BY DEF IInv, Typed
    <3> QED BY <3>1 DEF SameRecords
  <2>2. arc' # arc
    <3>1. Len(arc[d]) \in Nat
      BY DEF IInv, Typed
    <3> QED BY <3>1
  <2>3. CASE \E r \in Arriving : Arrive(r)
    BY <2>3 DEF Arrive, Offline
  <2>4. CASE \E x \in Day : \E i \in DOMAIN arc[x] : Rot(x, i)
    BY <2>1, <2>4, RotKeeps DEF IInv
  <2>5. CASE \E cmd \in {"repair", "reindex", "reingest", "import"}, S \in SUBSET Day : Begin(cmd, S)
    BY <2>2, <2>5 DEF Begin
  <2>6. CASE RepairOne
    BY <2>6, RepairAdds DEF RepairOne, Working
  <2>7. CASE ReindexOne \/ Stop
    BY <2>2, <2>7 DEF ReindexOne, Stop, Discarded
  <2>8. CASE ImportOne
    BY <2>8, ImportAdds DEF ImportOne, Working
  <2>9. CASE ReingestOne
    BY <2>9 DEF ReingestOne, Working
  <2>10. CASE EndDay
    BY <2>1, <2>10, EndDayKeeps
  <2> QED BY <2>3, <2>4, <2>5, <2>6, <2>7, <2>8, <2>9, <2>10 DEF Next
<1>2. [][Adds]_vars => AddsOnlyWhatIsMissing
  BY PTL DEF AddsOnlyWhatIsMissing
<1> QED BY <1>1, Always, <1>2, PTL DEF Spec

(* A command that ended well for a day has done what it says to all of it,  *)
(* after any number of attempts stopped half way, with whatever became      *)
(* unreadable or arrived meanwhile.                                         *)
THEOREM DoneWhenCompleted == Spec => []CompletedMeansDone
<1>1. IInv => CompletedMeansDone
  BY DEF IInv
<1> QED BY <1>1, Always, PTL

-----------------------------------------------------------------------------
(* What the page reads.                                                    *)

-----------------------------------------------------------------------------
(* The calendar. *)

(* The hours and the days are numbered from 1. *)
LEMMA Calendar ==
  /\ Hour \subseteq Nat \ {0} /\ Day \subseteq Nat \ {0} /\ Now \in Hour
  /\ LastHour \in Hour /\ \A t \in Hour : t <= LastHour /\ Wall[t].day \in Day
  /\ \A k \in Int : 1 <= k /\ k \notin Day => \A d \in Day : d < k
<1>1. /\ Hour = 1..Cardinality(Hour) /\ Day = 1..Cardinality(Day) /\ Now \in Hour
      /\ Cardinality(Hour) \in Nat /\ Cardinality(Day) \in Nat
  BY CalendarAssumption, FiniteDays, FS_CardinalityType
<1>2. \E x \in Hour : \A y \in Hour : x >= y
  <2>1. Cardinality(Hour) \in Hour /\ \A y \in Hour : Cardinality(Hour) >= y
    BY <1>1
  <2> QED BY <2>1
<1>3. LastHour \in Hour /\ \A y \in Hour : LastHour >= y
  BY <1>2 DEF LastHour, Max
<1>4. \A t \in Hour : Wall[t].day \in Day
  BY DEF Day
<1>5. Hour \subseteq Nat \ {0} /\ Day \subseteq Nat \ {0}
  BY <1>1
<1>6. \A k \in Int : 1 <= k /\ k \notin Day => \A d \in Day : d < k
  BY <1>1
<1> QED BY <1>1, <1>3, <1>4, <1>5, <1>6

(* The first hour of a day is an hour of that day, and none of its hours is *)
(* before it.                                                               *)
LEMMA FirstHourIs ==
  ASSUME NEW d \in Day
  PROVE  /\ FirstHour[d] \in Hour /\ Wall[FirstHour[d]].day = d
         /\ \A t \in Hour : Wall[t].day = d => FirstHour[d] <= t
<1> DEFINE S == {t \in Hour : Wall[t].day = d}
<1>1. S \in SUBSET Nat /\ S # {}
  BY Calendar DEF Day
<1>2. \E x \in S : \A y \in S : x <= y
  BY <1>1, LeastIn
<1>3. FirstHour[d] = Min(S)
  BY DEF FirstHour
<1>4. Min(S) \in S /\ \A y \in S : Min(S) <= y
  BY <1>2 DEF Min
<1> QED BY <1>3, <1>4

(* Midnight separates the days: an hour is at or after the midnight of a    *)
(* day exactly when its own day is that day or a later one, in the calendar *)
(* and beyond it.                                                           *)
LEMMA MidnightSeparates ==
  ASSUME NEW k \in Int, NEW t \in Hour
  PROVE  /\ Midnight(k) \in Int
         /\ t >= Midnight(k) <=> Wall[t].day >= k
<1>1. /\ t \in Nat /\ t >= 1 /\ t <= LastHour /\ LastHour \in Nat
      /\ Wall[t].day \in Day /\ Wall[t].day \in Nat /\ Wall[t].day >= 1
  <2>1. t \in Nat \ {0} /\ t <= LastHour /\ LastHour \in Nat /\ Wall[t].day \in Day
    BY Calendar
  <2>2. Wall[t].day \in Nat \ {0}
    BY <2>1, Calendar
  <2> QED BY <2>1, <2>2
<1>2. CASE k \in Day
  <2>1. /\ Midnight(k) = FirstHour[k] /\ FirstHour[k] \in Hour /\ FirstHour[k] \in Nat
        /\ Wall[FirstHour[k]].day = k
    BY <1>2, FirstHourIs, Calendar DEF Midnight
  <2>2. FirstHour[k] <= t => k <= Wall[t].day
    BY <2>1, CalendarAssumption
  <2>3. t <= FirstHour[k] => Wall[t].day <= k
    BY <2>1, CalendarAssumption
  <2>4. Wall[t].day = k => FirstHour[k] <= t
    BY <1>2, FirstHourIs
  <2> QED BY <1>1, <2>1, <2>2, <2>3, <2>4
<1>3. CASE k \notin Day /\ k < 1
  BY <1>1, <1>3 DEF Midnight
<1>4. CASE k \notin Day /\ ~(k < 1)
  <2>1. Midnight(k) = LastHour + 1
    BY <1>4 DEF Midnight
  <2>2. Wall[t].day < k
    BY <1>1, <1>4, Calendar
  <2> QED BY <1>1, <2>1, <2>2
<1> QED BY <1>2, <1>3, <1>4

(* An entry with a time is at an hour of the day whose file it is in. *)
LEMMA TimedEntry ==
  ASSUME Typed, NEW m \in Timed(AllLatest)
  PROVE  /\ m[1] \in days /\ m[1] \in Day /\ m[2] \in Latest(m[1]) /\ m = <<m[1], m[2]>>
         /\ EntryAt(m).rec.epoch \in Hour /\ Wall[EntryAt(m).rec.epoch].day = m[1]
<1>d. PICK d \in days : \E i \in Latest(d) : m = <<d, i>>
  BY DEF Timed, AllLatest
<1>1. PICK i \in Latest(d) : m = <<d, i>>
  BY <1>d
<1>2. d \in Day /\ i \in DOMAIN arc[d] /\ arc[d] \in Seq(Entry)
  BY <1>1 DEF days, Latest, Typed
<1>3. EntryAt(m) = arc[d][i] /\ EntryAt(m) \in Entry /\ EntryAt(m).rec.day = d
  BY <1>1, <1>2 DEF EntryAt, Typed, InItsDay
<1>4. EntryAt(m).rec \in Record /\ EntryAt(m).rec.epoch > 0
  BY <1>3 DEF Entry, Timed
<1> DEFINE r == EntryAt(m).rec
<1>5. r.epoch # 0
  BY <1>4
<1>6. r.epoch \in Hour /\ Wall[r.epoch] = [day |-> r.day, hour |-> r.hour]
  BY <1>4, <1>5, CalendarAssumption
<1>7. Wall[r.epoch].day = r.day
  BY <1>6
<1> QED BY <1>1, <1>2, <1>3, <1>6, <1>7

-----------------------------------------------------------------------------
(* Ranges of time. *)

(* A filter as the list or the statistics ask it.  (The provers do not know *)
(* that a literal is a string.)                                             *)
Text == STRING \cup {"", "ok", "error", "0", "1"}
Asked ==
  [model : Text, token : Text, status : Text, stream : Text, tool : Text, search : Text,
   withTools : BOOLEAN, withErrors : BOOLEAN, since : Nat, until : Nat]

LEMMA FilterType == ASSUME NEW f \in Filters PROVE f \in Asked
<1>1. f \in Filter
  BY RangeAssumption
<1>2. STRING \subseteq Text /\ Outcomes \subseteq Text /\ {"", "0", "1"} \subseteq Text
  BY DEF Outcomes, Text
<1> HIDE DEF Text
<1> QED BY <1>1, <1>2 DEF Filter, Asked

(* The file of an entry the filter accepts is in the range of days read. *)
LEMMA DayIsRead ==
  ASSUME Typed, NEW f \in Filters, NEW m \in Timed(AllLatest), matchIndex(EntryAt(m), f)
  PROVE  m \in eachMatch(f)
<1> DEFINE t == EntryAt(m).rec.epoch
           d == m[1]
<1>1. /\ d \in days /\ d \in Day /\ m[2] \in Latest(d) /\ m = <<d, m[2]>>
      /\ t \in Hour /\ Wall[t].day = d
  BY TimedEntry
<1>2. f.since \in Nat /\ f.until \in Nat /\ t \in Nat /\ t > 0 /\ d \in Int
  <2>1. f.since \in Nat /\ f.until \in Nat
    BY FilterType DEF Asked
  <2> QED BY <1>1, <2>1, Calendar
<1>3. (f.since > 0 => t >= f.since) /\ (f.until > 0 => t <= f.until)
  BY <1>2 DEF matchIndex, InRange
<1>4. Midnight(d) <= t /\ Midnight(d) \in Int
  BY <1>1, <1>2, MidnightSeparates
<1>5. t <= DayEnd(d) /\ DayEnd(d) \in Int
  <2>1. d + 1 \in Int /\ ~(d >= d + 1)
    BY <1>2
  <2>2. Midnight(d + 1) \in Int /\ ~(t >= Midnight(d + 1))
    BY <1>1, <2>1, MidnightSeparates
  <2> QED BY <1>2, <2>2 DEF DayEnd
<1>6. d \in daysInRange(f.since, f.until)
  BY <1>1, <1>2, <1>3, <1>4, <1>5 DEF daysInRange
<1>7. EntryAt(m) = arc[d][m[2]]
  BY DEF EntryAt
<1> QED BY <1>1, <1>6, <1>7 DEF eachMatch

LEMMA NothingPassedOver ==
  ASSUME Typed, NEW f \in Filters
  PROVE  WholeRange(f)
<1>1. ASSUME NEW m \in Timed(eachMatch(f))
      PROVE  m \in Timed({n \in AllLatest : matchIndex(EntryAt(n), f)})
  <2>1. PICK d \in daysInRange(f.since, f.until) :
          m \in {<<d, i>> : i \in {k \in Latest(d) : matchIndex(arc[d][k], f)}}
    BY DEF Timed, eachMatch
  <2>2. PICK i \in Latest(d) : m = <<d, i>> /\ matchIndex(arc[d][i], f)
    BY <2>1
  <2>3. EntryAt(m) = arc[d][i] /\ d \in days
    BY <2>1, <2>2 DEF EntryAt, daysInRange
  <2> QED BY <2>2, <2>3 DEF Timed, AllLatest
<1>2. ASSUME NEW m \in Timed({n \in AllLatest : matchIndex(EntryAt(n), f)})
      PROVE  m \in Timed(eachMatch(f))
  <2>1. m \in Timed(AllLatest) /\ matchIndex(EntryAt(m), f)
    BY DEF Timed
  <2> QED BY <2>1, DayIsRead DEF Timed
<1> QED BY <1>1, <1>2 DEF WholeRange

(* Without a lower bound a range begins at the oldest day there is. *)
LEMMA FromTheStart ==
  ASSUME Typed, NEW until \in Hour \cup {0}
  PROVE  NoLowerBound(until)
<1> DEFINE r == CustomRange(0, until)
<1> SUFFICES ASSUME NEW m \in Timed(AllLatest)
             PROVE  EntryAt(m).rec.epoch >= r[1]
  BY DEF NoLowerBound
<1>1. /\ m[1] \in days /\ m[1] \in Day /\ EntryAt(m).rec.epoch \in Hour
      /\ Wall[EntryAt(m).rec.epoch].day = m[1]
  BY TimedEntry
<1>2. days \in SUBSET Nat /\ days # {}
  BY <1>1, Calendar DEF days
<1>3. Min(days) \in days /\ Min(days) <= m[1]
  <2>1. \E x \in days : \A y \in days : x <= y
    BY <1>2, LeastIn
  <2>2. Min(days) \in days /\ \A y \in days : Min(days) <= y
    BY <2>1 DEF Min
  <2> QED BY <1>1, <2>2
<1>4. r[1] = Midnight(Min(days))
  BY <1>2 DEF CustomRange, earliest
<1>5. Min(days) \in Int
  <2>1. Min(days) \in Nat
    BY <1>2, <1>3
  <2> QED BY <2>1
<1>6. EntryAt(m).rec.epoch >= Midnight(Min(days))
  BY <1>1, <1>3, <1>5, MidnightSeparates
<1> QED BY <1>4, <1>6

(* A named range has the calls of its calendar days. *)
LEMMA NamedRange ==
  ASSUME Typed, NEW name \in DOMAIN Span
  PROVE  NamedDays(name)
<1> DEFINE today == Wall[Now].day
           first == IF name = "ytd" THEN YearStart ELSE today - Span[name]
<1>1. today \in Nat /\ first \in Int
  <2>1. today \in Nat /\ YearStart \in Nat
    BY Calendar, CalendarAssumption
  <2>2. Span[name] \in Nat
    BY RangeAssumption
  <2> QED BY <2>1, <2>2
<1>2. /\ resolveRange(name)[1] = Midnight(first)
      /\ resolveRange(name)[2] = Midnight(today + 1) - 1
  BY DEF resolveRange, EndOfToday
<1>3. ASSUME NEW m \in Timed(AllLatest)
      PROVE  (EntryAt(m).rec.epoch \in resolveRange(name)[1]..resolveRange(name)[2])
               <=> EntryAt(m).rec.day \in first..today
  <2> DEFINE t == EntryAt(m).rec.epoch
  <2>1. /\ t \in Hour /\ t \in Nat /\ Wall[t].day = m[1] /\ m[1] \in Nat
        /\ EntryAt(m).rec.day = m[1]
    <3>1. t \in Hour /\ Wall[t].day = m[1] /\ m[1] \in Day /\ m[2] \in Latest(m[1])
      BY TimedEntry
    <3>2. EntryAt(m).rec.day = m[1]
      BY <3>1 DEF EntryAt, Typed, InItsDay, Latest
    <3> QED BY <3>1, <3>2, Calendar
  <2>2. Midnight(first) \in Int /\ (t >= Midnight(first) <=> m[1] >= first)
    BY <1>1, <2>1, MidnightSeparates
  <2>3. Midnight(today + 1) \in Int /\ (t >= Midnight(today + 1) <=> m[1] >= today + 1)
    <3>1. today + 1 \in Int
      BY <1>1
    <3> QED BY <2>1, <3>1, MidnightSeparates
  <2> HIDE DEF t, first, today
  <2>4. (t \in Midnight(first)..(Midnight(today + 1) - 1)) <=> m[1] \in first..today
    BY <1>1, <2>1, <2>2, <2>3
  <2> QED BY <1>2, <2>1, <2>4 DEF t
<1> QED BY <1>3 DEF NamedDays

(* A range means what it says: no day file is passed over that holds an     *)
(* entry the filter accepts, a range without a lower bound has every call   *)
(* up to the upper one, and a named range has the calls of its calendar     *)
(* days (archive.go:525-529, server.go:228-238), whatever the calendar and  *)
(* the archive.                                                             *)
THEOREM RangesHold == Spec => []RangeLosesNothing
<1>1. IInv => RangeLosesNothing
  <2> SUFFICES ASSUME IInv
               PROVE  /\ \A f \in Filters : WholeRange(f)
                      /\ \A until \in Hour \cup {0} : NoLowerBound(until)
                      /\ \A name \in DOMAIN Span : NamedDays(name)
    BY DEF RangeLosesNothing
  <2>1. Typed
    BY DEF IInv
  <2> QED BY <2>1, NothingPassedOver, FromTheStart, NamedRange
<1> QED BY <1>1, Always, PTL

-----------------------------------------------------------------------------
(* The detail view. *)

(* Of the versions of a call in one day that can be read, the last one is   *)
(* opened.                                                                  *)
LEMMA LastIsOpened ==
  ASSUME Typed, NEW rid, NEW d \in Day, NEW n \in Nat, Readable(rid) # {},
         \A m \in Readable(rid) : m[1] = d /\ m[2] \in Nat /\ m[2] <= n /\ m = <<m[1], m[2]>>
  PROVE  /\ get(rid) \in Readable(rid)
         /\ \A m \in Readable(rid) : m[2] <= get(rid)[2]
<1> DEFINE S == {m[2] : m \in Readable(rid)}
           Opened(m) == \A k \in Readable(rid) \ {m} : TriedBefore(m, k, rid)
<1>1. PICK x \in S : \A y \in S : y <= x
  <2>1. S \in SUBSET Nat /\ S # {} /\ \A y \in S : y <= n
    OBVIOUS
  <2> HIDE DEF S
  <2> QED BY <2>1, GreatestIn
<1>2. PICK m \in Readable(rid) : m[2] = x
  BY <1>1
<1>3. Opened(m)
  <2> SUFFICES ASSUME NEW k \in Readable(rid), k # m
               PROVE  TriedBefore(m, k, rid)
    OBVIOUS
  <2>1. /\ m[1] = d /\ k[1] = d /\ k[2] <= x /\ k = <<k[1], k[2]>> /\ m = <<m[1], m[2]>>
        /\ m[2] \in Nat /\ k[2] \in Nat
    BY <1>1, <1>2
  <2>2. k[2] # m[2]
    BY <2>1
  <2>3. m[2] > k[2]
    BY <1>2, <2>1, <2>2
  <2> QED BY <2>1, <2>3 DEF TriedBefore, LastVersion
<1>4. get(rid) = CHOOSE k \in Readable(rid) : Opened(k)
  BY DEF get
<1> HIDE DEF Opened
<1>5. get(rid) \in Readable(rid) /\ Opened(get(rid))
  BY <1>3, <1>4
<1>6. ASSUME NEW k \in Readable(rid)
      PROVE  k[2] <= get(rid)[2]
  <2>1. CASE k = get(rid)
    BY <2>1
  <2>2. CASE k # get(rid)
    <3>1. TriedBefore(get(rid), k, rid)
      BY <1>5, <2>2 DEF Opened
    <3>2. get(rid)[1] = d /\ k[1] = d /\ get(rid)[2] \in Nat /\ k[2] \in Nat
      BY <1>5
    <3>3. get(rid)[2] > k[2]
      BY <3>1, <3>2 DEF TriedBefore, LastVersion
    <3> QED BY <3>2, <3>3
  <2> QED BY <2>1, <2>2
<1> QED BY <1>5, <1>6

LEMMA RowOpens ==
  ASSUME Typed, NEW m \in AllLatest
  PROVE  OpensItsRow(m)
<1> DEFINE rid == EntryAt(m).rec.rid
<1>d. PICK d \in days : \E i \in Latest(d) : m = <<d, i>>
  BY DEF AllLatest
<1>1. PICK i \in Latest(d) : m = <<d, i>>
  BY <1>d
<1>2. /\ d \in Day /\ i \in DOMAIN arc[d] /\ arc[d] \in Seq(Entry) /\ m[1] = d /\ m[2] = i
      /\ i \in Nat /\ rid = arc[d][i].rec.rid
  BY <1>1 DEF days, Latest, Typed, EntryAt
<1> SUFFICES ASSUME Days(rid) = {d}
             PROVE  /\ EntryAt(m).good => get(rid) = m
                    /\ get(rid) = <<>> \/ (get(rid)[1] = m[1] /\ get(rid)[2] <= m[2])
  BY <1>2 DEF OpensItsRow
<1>3. ASSUME NEW k \in Readable(rid)
      PROVE  k[1] = d /\ k[2] \in Nat /\ k[2] <= i /\ k = <<k[1], k[2]>>
  <2>x. PICK x \in days : \E j \in DOMAIN arc[x] : k = <<x, j>>
    BY DEF Readable
  <2>1. PICK j \in DOMAIN arc[x] : k = <<x, j>>
    BY <2>x
  <2>2. arc[x][j].rec.rid = rid /\ x \in Day /\ j \in Nat
    BY <2>1 DEF Readable, EntryAt, days, Typed
  <2>3. x \in Days(rid)
    BY <2>1, <2>2 DEF Days
  <2>4. x = d
    BY <2>3
  <2>5. ~(j > i)
    BY <1>1, <1>2, <2>1, <2>2, <2>4 DEF Latest
  <2> QED BY <1>2, <2>1, <2>2, <2>4, <2>5
<1>4. CASE Readable(rid) = {}
  <2>1. get(rid) = <<>>
    BY <1>4 DEF get
  <2>2. EntryAt(m).good => m \in Readable(rid)
    BY <1>1, <1>2 DEF Readable
  <2> QED BY <1>4, <2>1, <2>2
<1>5. CASE Readable(rid) # {}
  <2>1. /\ get(rid) \in Readable(rid)
        /\ \A k \in Readable(rid) : k[2] <= get(rid)[2]
    BY <1>2, <1>3, <1>5, LastIsOpened
  <2>2. get(rid)[1] = m[1] /\ get(rid)[2] <= m[2]
    BY <1>2, <1>3, <2>1
  <2>3. ASSUME EntryAt(m).good
        PROVE  get(rid) = m
    <3>1. m \in Readable(rid)
      BY <1>1, <1>2, <2>3 DEF Readable
    <3>2. get(rid)[2] = m[2]
      BY <1>2, <1>3, <2>1, <2>2, <3>1
    <3> QED BY <1>1, <1>2, <1>3, <2>1, <3>2
  <2> QED BY <2>2, <2>3
<1> QED BY <1>4, <1>5

(* Opening a row shows the version the row was drawn from, or an older one  *)
(* if that one cannot be read, for a call that is in one day only           *)
(* (query.go:71-74), in every archive the commands and the viewer leave.    *)
THEOREM RowsOpen == Spec => []GetAgrees
<1>1. IInv => GetAgrees
  BY RowOpens DEF IInv, GetAgrees
<1> QED BY <1>1, Always, PTL

-----------------------------------------------------------------------------
(* The list and its pages. *)

(* A sorted set is a sequence that has every member once. *)
LEMMA SortedIs ==
  ASSUME NEW S, IsFiniteSet(S), NEW R, Ordering(S, R)
  PROVE  /\ Cardinality(S) \in Nat /\ DOMAIN Sorted(S, R) = 1..Cardinality(S)
         /\ Sorted(S, R) \in Seq(S) /\ Len(Sorted(S, R)) = Cardinality(S)
         /\ \A i, j \in 1..Cardinality(S) : Sorted(S, R)[i] = Sorted(S, R)[j] => i = j
         /\ \A m \in S : \E i \in 1..Cardinality(S) : Sorted(S, R)[i] = m
         /\ Range(Sorted(S, R)) = S
<1> DEFINE n == Cardinality(S)
           q == Sorted(S, R)
<1>1. n \in Nat
  BY FS_CardinalityType
<1>2. DOMAIN q = 1..n /\ \A i \in 1..n : q[i] = CHOOSE m \in S : Rank(S, R, m) = i - 1
  BY DEF Sorted, Rank
<1> HIDE DEF n, q
<1>3. \A m \in S : Rank(S, R, m) \in 0..n - 1
  BY Ranks DEF n
<1>4. \A m, k \in S : Rank(S, R, m) = Rank(S, R, k) => m = k
  BY Ranks
<1>5. ASSUME NEW i \in 1..n PROVE q[i] \in S /\ Rank(S, R, q[i]) = i - 1
  <2>1. i - 1 \in 0..n - 1
    BY <1>1
  <2>2. \E m \in S : Rank(S, R, m) = i - 1
    BY <2>1, Ranks DEF n
  <2> QED BY <1>2, <2>2
<1>6. \A i, j \in 1..n : q[i] = q[j] => i = j
  <2> SUFFICES ASSUME NEW i \in 1..n, NEW j \in 1..n, q[i] = q[j] PROVE i = j
    OBVIOUS
  <2>1. i - 1 = j - 1
    BY <1>5
  <2> QED BY <1>1, <2>1
<1>7. ASSUME NEW m \in S PROVE \E i \in 1..n : q[i] = m
  <2>1. Rank(S, R, m) + 1 \in 1..n /\ (Rank(S, R, m) + 1) - 1 = Rank(S, R, m)
    BY <1>1, <1>3
  <2>2. Rank(S, R, q[Rank(S, R, m) + 1]) = Rank(S, R, m) /\ q[Rank(S, R, m) + 1] \in S
    BY <1>5, <2>1
  <2> QED BY <1>4, <2>1, <2>2
<1>8. q = [i \in 1..n |-> q[i]]
  <2>1. q = [i \in 1..n |-> CHOOSE m \in S : Rank(S, R, m) = i - 1]
    BY DEF q, n, Sorted, Rank
  <2> QED BY <1>2, <2>1
<1>9. q \in Seq(S) /\ Len(q) = n
  BY <1>1, <1>2, <1>5, <1>8
<1>10. Range(q) = S
  BY <1>2, <1>5, <1>7 DEF Range
<1> QED BY <1>1, <1>2, <1>6, <1>7, <1>9, <1>10 DEF n, q

(* Rows are entries of an archive, and those of one call in one day are one.*)
LEMMA RowIs ==
  ASSUME Typed, NEW m \in AllLatest
  PROVE  /\ m = <<m[1], m[2]>> /\ m[1] \in Day /\ m[2] \in Latest(m[1]) /\ m[2] \in Nat
         /\ m[2] \in DOMAIN arc[m[1]] /\ EntryAt(m) = arc[m[1]][m[2]] /\ EntryAt(m) \in Entry
         /\ EntryAt(m).rec \in Record /\ EntryAt(m).rec.day = m[1]
<1>1. PICK d \in days : m \in {d} \X Latest(d)
  BY DEF AllLatest
<1>2. m = <<m[1], m[2]>> /\ m[1] = d /\ m[2] \in Latest(d) /\ d \in Day
  BY <1>1 DEF days
<1>3. m[2] \in DOMAIN arc[d] /\ arc[d] \in Seq(Entry)
  BY <1>2 DEF Latest, Typed
<1>4. m[2] \in Nat /\ EntryAt(m) = arc[d][m[2]] /\ EntryAt(m) \in Entry
  BY <1>2, <1>3 DEF EntryAt
<1>5. EntryAt(m).rec \in Record
  BY <1>4 DEF Entry
<1>6. EntryAt(m).rec.day = d
  BY <1>2, <1>3, <1>4 DEF Typed, InItsDay
<1> QED BY <1>2, <1>3, <1>4, <1>5, <1>6

LEMMA SameRow ==
  ASSUME Typed, NEW m \in AllLatest, NEW n \in AllLatest, m[1] = n[1],
         EntryAt(m).rec.rid = EntryAt(n).rec.rid
  PROVE  m = n
<1>1. /\ m = <<m[1], m[2]>> /\ m[2] \in Latest(m[1]) /\ m[2] \in Nat
      /\ n = <<n[1], n[2]>> /\ n[2] \in Latest(n[1]) /\ n[2] \in Nat
      /\ EntryAt(m) = arc[m[1]][m[2]] /\ EntryAt(n) = arc[n[1]][n[2]]
  BY RowIs
<1>2. ~(m[2] > n[2]) /\ ~(n[2] > m[2])
  BY <1>1 DEF Latest
<1>3. m[2] = n[2]
  BY <1>1, <1>2
<1> QED BY <1>1, <1>3

LEMMA FiniteRows == ASSUME Typed, NEW S \in SUBSET AllLatest PROVE IsFiniteSet(S)
<1> DEFINE g == [d \in days |-> {d} \X Latest(d)]
           G == {g[d] : d \in days}
<1>1. IsFiniteSet(days)
  BY FiniteDays, FS_Subset DEF days
<1>2. ASSUME NEW d \in days PROVE IsFiniteSet(g[d])
  <2>1. d \in Day /\ arc[d] \in Seq(Entry)
    BY DEF days, Typed
  <2>2. Latest(d) \subseteq 1..Len(arc[d]) /\ Len(arc[d]) \in Nat
    BY <2>1 DEF Latest
  <2>4. IsFiniteSet(1..Len(arc[d]))
    BY <2>2, FS_Interval
  <2>5. IsFiniteSet(Latest(d))
    BY <2>2, <2>4, FS_Subset
  <2>3. IsFiniteSet(Latest(d)) /\ IsFiniteSet({d})
    BY <2>5, FS_Singleton
  <2> QED BY <2>3, FS_Product
<1>3. IsFiniteSet(G)
  <2>1. g \in Surjection(days, G)
    BY DEF Surjection
  <2> HIDE DEF g, G
  <2> QED BY <1>1, <2>1, FS_Surjection
<1>4. IsFiniteSet(UNION G)
  <2>1. \A s \in G : IsFiniteSet(s)
    BY <1>2
  <2> HIDE DEF G
  <2> QED BY <1>3, <2>1, FS_UNION
<1>5. AllLatest = UNION G
  BY DEF AllLatest
<1> HIDE DEF G
<1> QED BY <1>4, <1>5, FS_Subset

(* By the clock of the log and then by id, no two rows are level.           *)
LEMMA NewerOrders ==
  ASSUME Typed, NEW S \in SUBSET AllLatest
  PROVE  Ordering(S, {p \in S \X S : NewerThan(p[1], p[2])})
<1> DEFINE R == {p \in S \X S : NewerThan(p[1], p[2])}
           D(m) == EntryAt(m).rec.day
           H(m) == EntryAt(m).rec.hour
           I(m) == EntryAt(m).rec.rid
<1>1. \A m \in S : D(m) \in Nat /\ H(m) \in Nat /\ I(m) \in Nat /\ D(m) = m[1]
  <2> SUFFICES ASSUME NEW m \in S PROVE D(m) \in Nat /\ H(m) \in Nat /\ I(m) \in Nat /\ D(m) = m[1]
    OBVIOUS
  <2>1. EntryAt(m).rec \in Record /\ D(m) = m[1] /\ m[1] \in Day
    BY RowIs
  <2> QED BY <2>1, RangeAssumption, Calendar
<1>2. \A m, n \in S : <<m, n>> \in R <=>
        IF D(m) # D(n) THEN D(m) > D(n) ELSE IF H(m) # H(n) THEN H(m) > H(n) ELSE I(m) > I(n)
  BY DEF NewerThan
<1>3. \A m, n \in S : D(m) = D(n) /\ I(m) = I(n) => m = n
  BY <1>1, SameRow
<1> HIDE DEF R, D, H, I
<1>4. \A m \in S : <<m, m>> \notin R
  BY <1>1, <1>2
<1>5. \A m, n \in S : m # n => <<m, n>> \in R \/ <<n, m>> \in R
  BY <1>1, <1>2, <1>3
<1>6. ASSUME NEW k \in S, NEW m \in S, NEW n \in S, <<k, m>> \in R, <<m, n>> \in R
      PROVE  <<k, n>> \in R
  <2>1. /\ D(k) \in Nat /\ H(k) \in Nat /\ I(k) \in Nat /\ D(m) \in Nat /\ H(m) \in Nat
        /\ I(m) \in Nat /\ D(n) \in Nat /\ H(n) \in Nat /\ I(n) \in Nat
    BY <1>1
  <2> QED BY <1>2, <1>6, <2>1
<1>7. Ordering(S, R)
  BY <1>4, <1>5, <1>6 DEF Ordering
<1> QED BY <1>7 DEF R

(* The list is what was found, each row of it once. *)
Found(f) ==
  IF NeedsBody(f) THEN {m \in eachMatch(searchWindow(f)) : BodyMatches(EntryAt(m), f)}
  ELSE eachMatch(f)

LEMMA MatchesAreLatest == ASSUME NEW f PROVE eachMatch(f) \subseteq AllLatest
BY DEF eachMatch, AllLatest, daysInRange

LEMMA ListIs ==
  ASSUME Typed, NEW f
  PROVE  /\ Found(f) \subseteq AllLatest /\ IsFiniteSet(Found(f))
         /\ Cardinality(Found(f)) \in Nat /\ DOMAIN matched(f) = 1..Cardinality(Found(f))
         /\ matched(f) \in Seq(Found(f)) /\ Len(matched(f)) = Cardinality(Found(f))
         /\ Rows(f) = Found(f)
         /\ \A i, j \in 1..Cardinality(Found(f)) : matched(f)[i] = matched(f)[j] => i = j
<1>1. Found(f) \subseteq AllLatest
  BY MatchesAreLatest DEF Found
<1>2. IsFiniteSet(Found(f))
  BY <1>1, FiniteRows
<1> DEFINE S == Found(f)
           R == {p \in S \X S : NewerThan(p[1], p[2])}
<1>3. matched(f) = Sorted(S, R)
  BY DEF matched, candidates, NewestFirst, Found
<1>4. Ordering(S, R)
  <2> HIDE DEF S
  <2> QED BY <1>1, NewerOrders DEF S
<1> HIDE DEF R
<1>5. /\ Cardinality(S) \in Nat /\ DOMAIN Sorted(S, R) = 1..Cardinality(S)
      /\ Sorted(S, R) \in Seq(S) /\ Len(Sorted(S, R)) = Cardinality(S)
      /\ \A i, j \in 1..Cardinality(S) : Sorted(S, R)[i] = Sorted(S, R)[j] => i = j
      /\ Range(Sorted(S, R)) = S
  <2> HIDE DEF S
  <2> QED BY <1>2, <1>4, SortedIs DEF S
<1> QED BY <1>1, <1>2, <1>3, <1>5 DEF Rows

LEMMA OneRow == ASSUME Typed, NEW f PROVE OneRowPerCall(f)
<1>1. \A r, s \in Rows(f) : r \in AllLatest /\ s \in AllLatest
  BY ListIs
<1> QED BY <1>1, SameRow DEF OneRowPerCall

LEMMA Times == ASSUME NEW a \in Nat, NEW b \in Nat, NEW s \in Nat, a <= b PROVE a * s <= b * s
OBVIOUS
LEMMA TimesNat == ASSUME NEW a \in Nat, NEW s \in Nat PROVE a * s \in Nat
OBVIOUS
LEMMA TimesNext == ASSUME NEW a \in Nat, NEW s \in Nat PROVE (a + 1) * s = a * s + s
OBVIOUS

(* Every place in a list is on one page.                                    *)
LEMMA OnePage ==
  ASSUME NEW i \in Nat \ {0}, NEW size \in Nat \ {0}
  PROVE  \E p \in 1..i : \A q \in Nat \ {0} :
           (q - 1) * size < i /\ i <= (q - 1) * size + size <=> q = p
<1> DEFINE P == {p \in Nat : i <= p * size}
<1>1. i \in P
  <2>1. 1 <= size /\ i * 1 <= i * size
    OBVIOUS
  <2> QED BY <2>1
<1>2. PICK p \in P : \A q \in P : p <= q
  <2>1. P \in SUBSET Nat /\ P # {}
    BY <1>1
  <2> HIDE DEF P
  <2> QED BY <2>1, LeastIn
<1>3. p \in Nat /\ i <= p * size /\ p <= i
  BY <1>1, <1>2
<1>4. p # 0
  BY <1>3
<1>5. p - 1 \in Nat /\ (p - 1) * size < i
  <2>1. p - 1 \in Nat /\ ~(p <= p - 1)
    BY <1>3, <1>4
  <2>2. p - 1 \notin P
    <3> HIDE DEF P
    <3> QED BY <1>2, <2>1
  <2>3. (p - 1) * size \in Nat
    BY <2>1, TimesNat
  <2> QED BY <2>1, <2>2, <2>3
<1>6. ASSUME NEW q \in Nat \ {0}
      PROVE  (q - 1) * size < i /\ i <= (q - 1) * size + size <=> q = p
  <2>1. q - 1 \in Nat /\ (q - 1) * size + size = q * size
    <3>1. q - 1 \in Nat /\ (q - 1) + 1 = q
      OBVIOUS
    <3> QED BY <3>1, TimesNext
  <2>2. /\ q * size \in Nat /\ (q - 1) * size \in Nat /\ p * size \in Nat
        /\ (p - 1) * size \in Nat
    BY <1>3, <1>5, <2>1, TimesNat
  <2>3. CASE q < p
    <3>1. q <= p - 1
      BY <1>3, <2>3
    <3>2. q * size <= (p - 1) * size
      BY <1>5, <3>1, Times
    <3> QED BY <1>5, <2>1, <2>2, <2>3, <3>2
  <2>4. CASE q > p
    <3>1. p <= q - 1
      BY <1>3, <2>4
    <3>2. p * size <= (q - 1) * size
      BY <1>3, <2>1, <3>1, Times
    <3> QED BY <1>3, <2>1, <2>2, <2>4, <3>2
  <2>5. CASE q = p
    BY <1>3, <1>5, <2>1, <2>5
  <2> QED BY <1>3, <2>3, <2>4, <2>5
<1> QED BY <1>3, <1>4, <1>6

LEMMA PagesHold ==
  ASSUME Typed, NEW f, NEW size \in PageSizes
  PROVE  OnOnePage(f, size)
<1> DEFINE m == matched(f)
           n == Cardinality(Found(f))
           pages == [p \in 1..Len(m) |-> Range(items(m, p, size))]
<1>1. /\ n \in Nat /\ DOMAIN m = 1..n /\ m \in Seq(Found(f)) /\ Len(m) = n
      /\ \A i, j \in 1..n : m[i] = m[j] => i = j
  BY ListIs
<1>2. size \in Nat \ {0}
  BY RangeAssumption
<1> HIDE DEF m, n
<1>3. ASSUME NEW i \in 1..n, NEW p \in 1..n
      PROVE  m[i] \in pages[p] <=> (p - 1) * size < i /\ i <= (p - 1) * size + size
  <2> DEFINE b == (p - 1) * size
             start == Clip(b, n)
             end == Clip(start + size, n)
             page == SubSeq(m, start + 1, end)
  <2>1. b \in Nat
    <3>1. p - 1 \in Nat
      BY <1>1
    <3> QED BY <1>2, <3>1, TimesNat
  <2>2. pages[p] = Range(page)
    BY <1>1 DEF items, PageStart
  <2> HIDE DEF b
  <2>3. start \in 0..n /\ end \in 0..n /\ start <= end
    BY <1>1, <1>2, <2>1 DEF Clip
  <2>4. /\ DOMAIN page = 1..(end - start)
        /\ \A k \in 1..(end - start) : page[k] = m[start + k]
    <3> HIDE DEF start, end
    <3> QED BY <1>1, <2>3
  <2>5. m[i] \in Range(page) <=> start < i /\ i <= end
    <3> HIDE DEF start, end, page
    <3>1. ASSUME m[i] \in Range(page) PROVE start < i /\ i <= end
      <4>1. PICK k \in 1..(end - start) : page[k] = m[i]
        BY <2>4, <3>1 DEF Range
      <4>2. start + k \in 1..n /\ m[start + k] = m[i]
        BY <1>1, <2>3, <2>4, <4>1
      <4>3. start + k = i
        BY <1>1, <4>2
      <4> QED BY <1>1, <2>3, <4>3
    <3>2. ASSUME start < i, i <= end PROVE m[i] \in Range(page)
      <4>1. i - start \in 1..(end - start) /\ start + (i - start) = i
        BY <1>1, <2>3, <3>2
      <4>2. page[i - start] = m[i]
        BY <2>4, <4>1
      <4> QED BY <2>4, <4>1, <4>2 DEF Range
    <3> QED BY <3>1, <3>2
  <2>6. start < i /\ i <= end <=> b < i /\ i <= b + size
    BY <1>1, <1>2, <2>1 DEF Clip
  <2> QED BY <2>2, <2>5, <2>6 DEF b
<1>4. ASSUME NEW i \in 1..n
      PROVE  Cardinality({p \in 1..n : m[i] \in pages[p]}) = 1
  <2>1. i \in Nat \ {0}
    BY <1>1
  <2>2. PICK p \in 1..i : \A q \in Nat \ {0} :
          (q - 1) * size < i /\ i <= (q - 1) * size + size <=> q = p
    BY <1>2, <2>1, OnePage
  <2>3. p \in 1..n
    BY <1>1, <2>1
  <2>4. \A q \in 1..n : m[i] \in pages[q] <=> q = p
    <3> HIDE DEF pages
    <3>1. \A q \in 1..n : q \in Nat \ {0}
      BY <1>1
    <3> QED BY <1>3, <2>2, <3>1
  <2> HIDE DEF pages
  <2>5. {q \in 1..n : m[i] \in pages[q]} = {p}
    BY <2>3, <2>4
  <2> QED BY <2>5, FS_Singleton
<1>5. \A i \in DOMAIN m : Cardinality({p \in 1..Len(m) : m[i] \in pages[p]}) = 1
  <2> HIDE DEF pages
  <2> QED BY <1>1, <1>4
<1> QED BY <1>5 DEF OnOnePage, m

(* A call is one row in its day's part of a list, whatever versions the     *)
(* file has of it, and each row is on exactly one page: paging a search     *)
(* loses nothing and shows nothing twice, for any archive, filter and page  *)
(* size, whatever the commands did to the day files (query.go:205-281).     *)
THEOREM PagesShowAll == Spec => []PagesCover
<1>1. IInv => PagesCover
  BY OneRow, PagesHold DEF IInv, PagesCover
<1> QED BY <1>1, Always, PTL

-----------------------------------------------------------------------------
(* The list and the statistics. *)
LEMMA MatchIs ==
  ASSUME NEW f, NEW m
  PROVE  m \in eachMatch(f) <=>
           \E d \in daysInRange(f.since, f.until) : \E i \in Latest(d) :
             m = <<d, i>> /\ matchIndex(EntryAt(m), f)
<1>1. ASSUME m \in eachMatch(f)
      PROVE  \E d \in daysInRange(f.since, f.until) : \E i \in Latest(d) :
               m = <<d, i>> /\ matchIndex(EntryAt(m), f)
  <2>1. PICK d \in daysInRange(f.since, f.until) :
          m \in {<<d, i>> : i \in {k \in Latest(d) : matchIndex(arc[d][k], f)}}
    BY <1>1 DEF eachMatch
  <2>2. PICK i \in Latest(d) : m = <<d, i>> /\ matchIndex(arc[d][i], f)
    BY <2>1
  <2>3. EntryAt(m) = arc[d][i]
    BY <2>2 DEF EntryAt
  <2> QED BY <2>2, <2>3
<1>2. ASSUME NEW d \in daysInRange(f.since, f.until), NEW i \in Latest(d), m = <<d, i>>,
             matchIndex(EntryAt(m), f)
      PROVE  m \in eachMatch(f)
  <2>1. EntryAt(m) = arc[d][i]
    BY <1>2 DEF EntryAt
  <2>2. m \in {<<d, k>> : k \in {j \in Latest(d) : matchIndex(arc[d][j], f)}}
    BY <1>2, <2>1
  <2> QED BY <2>2 DEF eachMatch
<1> QED BY <1>1, <1>2

(* A choice of one more column keeps of the rows those that have it.        *)
LEMMA ChooseStatus ==
  ASSUME NEW g \in Asked, g.status = "", NEW o \in Text, o # ""
  PROVE  /\ [g EXCEPT !.status = o] \in Asked
         /\ eachMatch([g EXCEPT !.status = o]) = {m \in eachMatch(g) : entryOutcome(EntryAt(m)) = o}
         /\ NeedsBody([g EXCEPT !.status = o]) <=> NeedsBody(g)
<1> DEFINE h == [g EXCEPT !.status = o]
<1>1. /\ h \in Asked /\ h.status = o /\ h.model = g.model /\ h.token = g.token
      /\ h.stream = g.stream /\ h.withTools = g.withTools /\ h.withErrors = g.withErrors
      /\ h.since = g.since /\ h.until = g.until /\ h.search = g.search /\ h.tool = g.tool
  BY DEF Asked
<1> HIDE DEF h
<1>2. daysInRange(h.since, h.until) = daysInRange(g.since, g.until)
  BY <1>1
<1>3. \A e : matchIndex(e, h) <=> matchIndex(e, g) /\ entryOutcome(e) = o
  BY ZenonT(40), <1>1 DEF matchIndex, TokenMatches, InRange
<1>4. eachMatch(h) = {m \in eachMatch(g) : entryOutcome(EntryAt(m)) = o}
  <2>1. \A m : m \in eachMatch(h) <=> m \in eachMatch(g) /\ entryOutcome(EntryAt(m)) = o
    BY <1>2, <1>3, MatchIs
  <2> QED BY <2>1
<1>5. NeedsBody(h) <=> NeedsBody(g)
  BY <1>1 DEF NeedsBody
<1> QED BY <1>1, <1>4, <1>5 DEF h

LEMMA ChooseToken ==
  ASSUME NEW g \in Asked, NEW t \in Text, g.token \in {"", t}, t # ""
  PROVE  /\ [g EXCEPT !.token = t] \in Asked
         /\ eachMatch([g EXCEPT !.token = t]) = {m \in eachMatch(g) : TN(EntryAt(m)) = t}
         /\ NeedsBody([g EXCEPT !.token = t]) <=> NeedsBody(g)
<1> DEFINE h == [g EXCEPT !.token = t]
<1>1. /\ h \in Asked /\ h.token = t /\ h.model = g.model /\ h.status = g.status
      /\ h.stream = g.stream /\ h.withTools = g.withTools /\ h.withErrors = g.withErrors
      /\ h.since = g.since /\ h.until = g.until /\ h.search = g.search /\ h.tool = g.tool
  BY DEF Asked
<1> HIDE DEF h
<1>2. daysInRange(h.since, h.until) = daysInRange(g.since, g.until)
  BY <1>1
<1>3. \A e : matchIndex(e, h) <=> matchIndex(e, g) /\ TN(e) = t
  BY ZenonT(40), <1>1 DEF matchIndex, TokenMatches, InRange
<1>4. eachMatch(h) = {m \in eachMatch(g) : TN(EntryAt(m)) = t}
  <2>1. \A m : m \in eachMatch(h) <=> m \in eachMatch(g) /\ TN(EntryAt(m)) = t
    BY <1>2, <1>3, MatchIs
  <2> QED BY <2>1
<1>5. NeedsBody(h) <=> NeedsBody(g)
  BY <1>1 DEF NeedsBody
<1> QED BY <1>1, <1>4, <1>5 DEF h

LEMMA ChooseModel ==
  ASSUME NEW g \in Asked, NEW t \in Text, g.model \in {"", t}, t # ""
  PROVE  /\ [g EXCEPT !.model = t] \in Asked
         /\ eachMatch([g EXCEPT !.model = t]) = {m \in eachMatch(g) : EntryAt(m).rec.model = t}
         /\ NeedsBody([g EXCEPT !.model = t]) <=> NeedsBody(g)
<1> DEFINE h == [g EXCEPT !.model = t]
<1>1. /\ h \in Asked /\ h.model = t /\ h.token = g.token /\ h.status = g.status
      /\ h.stream = g.stream /\ h.withTools = g.withTools /\ h.withErrors = g.withErrors
      /\ h.since = g.since /\ h.until = g.until /\ h.search = g.search /\ h.tool = g.tool
  BY DEF Asked
<1> HIDE DEF h
<1>2. daysInRange(h.since, h.until) = daysInRange(g.since, g.until)
  BY <1>1
<1>3. \A e : matchIndex(e, h) <=> matchIndex(e, g) /\ e.rec.model = t
  BY ZenonT(40), <1>1 DEF matchIndex, TokenMatches, InRange
<1>4. eachMatch(h) = {m \in eachMatch(g) : EntryAt(m).rec.model = t}
  <2>1. \A m : m \in eachMatch(h) <=> m \in eachMatch(g) /\ EntryAt(m).rec.model = t
    BY <1>2, <1>3, MatchIs
  <2> QED BY <2>1
<1>5. NeedsBody(h) <=> NeedsBody(g)
  BY <1>1 DEF NeedsBody
<1> QED BY <1>1, <1>4, <1>5 DEF h

(* The floor of a search is a time of the calendar, or none. *)
LEMMA SearchFloor ==
  ASSUME NEW f \in Asked
  PROVE  /\ searchWindow(f) \in Asked
         /\ \E s \in Nat : /\ searchWindow(f) = [f EXCEPT !.since = s]
              /\ \A g \in Asked : g.since = f.since => searchWindow(g) = [g EXCEPT !.since = s]
<1> DEFINE ago == {t \in Hour : /\ Wall[t].day = Wall[Now].day - SearchDays
                                /\ Wall[t].hour = Wall[Now].hour}
           floor == IF ago = {} THEN 0 ELSE Min(ago)
           s == IF SearchDays = 0 \/ f.since >= floor THEN f.since ELSE floor
<1>1. floor \in Nat
  <2>1. CASE ago = {}
    BY <2>1
  <2>2. CASE ago # {}
    <3>1. ago \in SUBSET Nat
      BY Calendar
    <3> HIDE DEF ago
    <3>2. \E x \in ago : \A y \in ago : x <= y
      BY <2>2, <3>1, LeastIn
    <3>3. Min(ago) \in ago
      BY <3>2 DEF Min
    <3> QED BY <2>2, <3>1, <3>3
  <2> QED BY <2>1, <2>2
<1>2. \A g \in Asked : searchWindow(g) = IF SearchDays = 0 \/ g.since >= floor THEN g ELSE [g EXCEPT !.since = floor]
  BY DEF searchWindow
<1> HIDE DEF floor
<1>3. \A g \in Asked : g = [g EXCEPT !.since = g.since] /\ g.since \in Nat
  BY DEF Asked
<1>4. s \in Nat
  BY <1>1, <1>3
<1>5. \A g \in Asked : g.since = f.since => searchWindow(g) = [g EXCEPT !.since = s]
  BY <1>2, <1>3
<1>6. searchWindow(f) = [f EXCEPT !.since = s]
  BY <1>5
<1> HIDE DEF s
<1>7. [f EXCEPT !.since = s] \in Asked
  BY <1>4 DEF Asked
<1> QED BY <1>4, <1>5, <1>6, <1>7

(* A row of the list is a row of the list with one more choice, if it has   *)
(* what is chosen.                                                          *)
LEMMA TokenFinds ==
  ASSUME Typed, NEW f \in Asked, NEW t \in tokens(f)
  PROVE  matched([f EXCEPT !.token = t]) # <<>>
<1>1. PICK m \in Found(f) : TN(EntryAt(m)) = t /\ t # ""
  BY ListIs DEF tokens, Rows
<1>2. m \in AllLatest /\ EntryAt(m).rec \in Record
  BY <1>1, ListIs, RowIs
<1>3. t \in Text
  BY <1>1, <1>2, RangeAssumption DEF TN, Text
<1> DEFINE h == [f EXCEPT !.token = t]
<1>4. PICK s \in Nat : /\ searchWindow(f) = [f EXCEPT !.since = s]
        /\ \A g \in Asked : g.since = f.since => searchWindow(g) = [g EXCEPT !.since = s]
  BY SearchFloor
<1>5. h \in Asked /\ h.since = f.since
  BY <1>3 DEF Asked
<1> DEFINE w == searchWindow(f)
<1>6. searchWindow(h) = [w EXCEPT !.token = t] /\ w \in Asked /\ w.token = f.token
  <2>1. searchWindow(h) = [h EXCEPT !.since = s]
    BY <1>4, <1>5
  <2> QED BY <1>4, <2>1, SearchFloor DEF Asked
<1>7. NeedsBody(h) <=> NeedsBody(f)
  BY DEF NeedsBody, Asked
<1>8. ASSUME NEW e PROVE BodyMatches(e, h) <=> BodyMatches(e, f)
  BY DEF BodyMatches, Asked
<1>9. f.token \in {"", t}
  <2>1. \E g : g.token = f.token /\ m \in eachMatch(g)
    BY <1>1, <1>6 DEF Found
  <2>2. \E g : g.token = f.token /\ matchIndex(EntryAt(m), g)
    BY <2>1, MatchIs
  <2> QED BY <1>1, <2>2 DEF matchIndex, TokenMatches
<1>10. m \in Found(h)
  <2> HIDE DEF h, w
  <2>1. CASE NeedsBody(f)
    <3>1. m \in eachMatch(w) /\ BodyMatches(EntryAt(m), f)
      BY <1>1, <2>1 DEF Found, w
    <3>2. w.token \in {"", t} /\ w \in Asked
      BY <1>6, <1>9
    <3>3. eachMatch([w EXCEPT !.token = t]) = {n \in eachMatch(w) : TN(EntryAt(n)) = t}
      BY <1>1, <1>3, <3>2, ChooseToken
    <3>4. m \in eachMatch(searchWindow(h))
      BY <1>1, <1>6, <3>1, <3>3
    <3> QED BY <1>7, <1>8, <2>1, <3>1, <3>4 DEF Found
  <2>2. CASE ~NeedsBody(f)
    <3>1. eachMatch(h) = {n \in eachMatch(f) : TN(EntryAt(n)) = t}
      BY <1>1, <1>3, <1>9, ChooseToken DEF h
    <3>2. m \in eachMatch(h)
      BY <1>1, <2>2, <3>1 DEF Found
    <3> QED BY <1>7, <2>2, <3>2 DEF Found
  <2> QED BY <2>1, <2>2
<1> HIDE DEF h
<1>11. Rows(h) # {}
  BY <1>10, ListIs
<1> QED BY <1>11 DEF Rows, Range, h

LEMMA ModelFinds ==
  ASSUME Typed, NEW f \in Asked, NEW t \in models(f)
  PROVE  matched([f EXCEPT !.model = t]) # <<>>
<1>1. PICK m \in Found(f) : EntryAt(m).rec.model = t /\ t # ""
  BY ListIs DEF models, Rows
<1>2. m \in AllLatest /\ EntryAt(m).rec \in Record
  BY <1>1, ListIs, RowIs
<1>3. t \in Text
  BY <1>1, <1>2, RangeAssumption DEF Text
<1> DEFINE h == [f EXCEPT !.model = t]
<1>4. PICK s \in Nat : /\ searchWindow(f) = [f EXCEPT !.since = s]
        /\ \A g \in Asked : g.since = f.since => searchWindow(g) = [g EXCEPT !.since = s]
  BY SearchFloor
<1>5. h \in Asked /\ h.since = f.since
  BY <1>3 DEF Asked
<1> DEFINE w == searchWindow(f)
<1>6. searchWindow(h) = [w EXCEPT !.model = t] /\ w \in Asked /\ w.model = f.model
  <2>1. searchWindow(h) = [h EXCEPT !.since = s]
    BY <1>4, <1>5
  <2> QED BY <1>4, <2>1, SearchFloor DEF Asked
<1>7. NeedsBody(h) <=> NeedsBody(f)
  BY DEF NeedsBody, Asked
<1>8. ASSUME NEW e PROVE BodyMatches(e, h) <=> BodyMatches(e, f)
  BY DEF BodyMatches, Asked
<1>9. f.model \in {"", t}
  <2>1. \E g : g.model = f.model /\ m \in eachMatch(g)
    BY <1>1, <1>6 DEF Found
  <2>2. \E g : g.model = f.model /\ matchIndex(EntryAt(m), g)
    BY <2>1, MatchIs
  <2> QED BY <1>1, <2>2 DEF matchIndex
<1>10. m \in Found(h)
  <2> HIDE DEF h, w
  <2>1. CASE NeedsBody(f)
    <3>1. m \in eachMatch(w) /\ BodyMatches(EntryAt(m), f)
      BY <1>1, <2>1 DEF Found, w
    <3>2. w.model \in {"", t} /\ w \in Asked
      BY <1>6, <1>9
    <3>3. eachMatch([w EXCEPT !.model = t]) = {n \in eachMatch(w) : EntryAt(n).rec.model = t}
      BY <1>1, <1>3, <3>2, ChooseModel
    <3>4. m \in eachMatch(searchWindow(h))
      BY <1>1, <1>6, <3>1, <3>3
    <3> QED BY <1>7, <1>8, <2>1, <3>1, <3>4 DEF Found
  <2>2. CASE ~NeedsBody(f)
    <3>1. eachMatch(h) = {n \in eachMatch(f) : EntryAt(n).rec.model = t}
      BY <1>1, <1>3, <1>9, ChooseModel DEF h
    <3>2. m \in eachMatch(h)
      BY <1>1, <2>2, <3>1 DEF Found
    <3> QED BY <1>7, <2>2, <3>2 DEF Found
  <2> QED BY <2>1, <2>2
<1> HIDE DEF h
<1>11. Rows(h) # {}
  BY <1>10, ListIs
<1> QED BY <1>11 DEF Rows, Range, h

(* What the statistics count: the rows of the list that have a time.        *)
LEMMA ToListIs ==
  ASSUME NEW f \in Asked
  PROVE  /\ toList(f) \in Asked /\ ~NeedsBody(toList(f)) /\ toList(f).status = ""
         /\ toList(f).token = f.token /\ Found(toList(f)) = eachMatch(toList(f))
<1>1. /\ toList(f).status = "" /\ toList(f).token = f.token
      /\ toList(f).search = "" /\ toList(f).tool = ""
  BY DEF toList, Asked
<1>3. toList(f) \in Asked
  <2>1. \A t \in Text, b \in BOOLEAN :
          [f EXCEPT !.search = t, !.tool = t, !.status = t, !.withTools = b, !.withErrors = b] \in Asked
    BY DEF Asked
  <2>2. "" \in Text /\ FALSE \in BOOLEAN
    BY DEF Text
  <2> QED BY <2>1, <2>2 DEF toList
<1>2. ~NeedsBody(toList(f))
  BY <1>1 DEF NeedsBody
<1> QED BY <1>1, <1>2, <1>3 DEF Found

LEMMA CountedIs ==
  ASSUME Typed, NEW f \in Asked
  PROVE  /\ Counted(f) = Timed(eachMatch(toList(f))) /\ Counted(f) \subseteq AllLatest
         /\ IsFiniteSet(Counted(f)) /\ Cardinality(Counted(f)) \in Nat
         /\ Len(matched(toList(f))) = Cardinality(Counted(f)) + UnknownTime(f)
<1> DEFINE E == eachMatch(toList(f))
           U == {m \in E : EntryAt(m).rec.epoch <= 0}
<1>1. E \subseteq AllLatest /\ IsFiniteSet(E) /\ Len(matched(toList(f))) = Cardinality(E)
  BY ListIs, ToListIs
<1>2. Counted(f) = Timed(E)
  BY DEF Counted, Placeable
<1>3. UnknownTime(f) = Cardinality(U)
  BY DEF UnknownTime
<1> HIDE DEF E
<1>4. \A m \in E : EntryAt(m).rec.epoch \in Nat
  <2> SUFFICES ASSUME NEW m \in E PROVE EntryAt(m).rec.epoch \in Nat
    OBVIOUS
  <2>1. EntryAt(m).rec \in Record
    BY <1>1, RowIs
  <2>2. EntryAt(m).rec.epoch = 0 \/ EntryAt(m).rec.epoch \in Hour
    BY <2>1, CalendarAssumption
  <2>3. Hour \subseteq Nat
    BY Calendar
  <2>4. CASE EntryAt(m).rec.epoch = 0
    BY <2>4
  <2>5. CASE EntryAt(m).rec.epoch \in Hour
    BY <2>3, <2>5
  <2> QED BY <2>2, <2>4, <2>5
<1>5. Timed(E) \subseteq E /\ U \subseteq E /\ Timed(E) \cap U = {} /\ Timed(E) \cup U = E
  BY <1>4 DEF Timed
<1> HIDE DEF U
<1>6. IsFiniteSet(Timed(E)) /\ IsFiniteSet(U)
  BY <1>1, <1>5, FS_Subset
<1>7. Cardinality(Timed(E) \cup U) = Cardinality(Timed(E)) + Cardinality(U) - Cardinality(Timed(E) \cap U)
  BY <1>6, FS_Union
<1>8. Cardinality(Timed(E) \cap U) = 0
  BY <1>5, FS_EmptySet
<1>9. Cardinality(Timed(E)) \in Nat /\ Cardinality(U) \in Nat
  BY <1>6, FS_CardinalityType
<1>10. Cardinality(E) = Cardinality(Timed(E)) + Cardinality(U)
  <2>1. Cardinality(E) = Cardinality(Timed(E) \cup U)
    BY <1>5
  <2> QED BY <1>7, <1>8, <1>9, <2>1
<1> QED BY <1>1, <1>2, <1>3, <1>5, <1>6, <1>9, <1>10 DEF E

(* The rows of a breakdown. *)
LEMMA RowsByIs ==
  ASSUME NEW name, NEW r
  PROVE  r \in RowsBy(name) <=>
           \E m \in DOMAIN name : /\ r.name = name[m]
             /\ r = [name |-> name[m], sum |-> totals({n \in DOMAIN name : name[n] = name[m]})]
<1>1. ASSUME r \in RowsBy(name)
      PROVE  \E m \in DOMAIN name : /\ r.name = name[m]
               /\ r = [name |-> name[m], sum |-> totals({n \in DOMAIN name : name[n] = name[m]})]
  <2>1. PICK x \in Range(name) : r = [name |-> x, sum |-> totals({n \in DOMAIN name : name[n] = x})]
    BY <1>1 DEF RowsBy
  <2>2. PICK m \in DOMAIN name : x = name[m]
    BY DEF Range
  <2> QED BY <2>1, <2>2
<1>2. ASSUME NEW m \in DOMAIN name,
             r = [name |-> name[m], sum |-> totals({n \in DOMAIN name : name[n] = name[m]})]
      PROVE  r \in RowsBy(name)
  <2>1. name[m] \in Range(name)
    BY DEF Range
  <2> QED BY <1>2, <2>1 DEF RowsBy
<1> QED BY <1>1, <1>2

LEMMA TotalsAre ==
  ASSUME Typed, NEW S \in SUBSET AllLatest
  PROVE  totals(S).requests = Cardinality(S) /\ totals(S).requests \in Nat /\ totals(S).quota \in Int
<1>1. IsFiniteSet(S) /\ Cardinality(S) \in Nat
  BY FiniteRows, FS_CardinalityType
<1> DEFINE q == [m \in S |-> QuotaOf(m)]
<1>2. \A m \in S : q[m] \in Int
  <2> SUFFICES ASSUME NEW m \in S PROVE q[m] \in Int
    OBVIOUS
  <2>1. EntryAt(m).rec \in Record
    BY RowIs
  <2> QED BY <2>1, NamesAssumption DEF QuotaOf
<1>3. SumQuota(S) = SumFunctionOnSet(q, S)
  BY DEF SumQuota, SumFunction
<1> HIDE DEF q
<1>4. SumQuota(S) \in Int
  BY <1>1, <1>2, <1>3, SumInt
<1> QED BY <1>1, <1>4 DEF totals

(* Of a breakdown of the entries in S the rows are finitely many, none two  *)
(* of the same name, and what ranks them orders them all.                   *)
LEMMA BreakdownOrders ==
  ASSUME Typed, NEW S \in SUBSET AllLatest, NEW name \in [S -> RowNames]
  PROVE  /\ IsFiniteSet(RowsBy(name))
         /\ Ordering(RowsBy(name), {p \in RowsBy(name) \X RowsBy(name) : ByQuota(p[1], p[2])})
         /\ Ordering(RowsBy(name), {p \in RowsBy(name) \X RowsBy(name) : ByRequests(p[1], p[2])})
<1> DEFINE B == RowsBy(name)
           Row(m) == [name |-> name[m], sum |-> totals({n \in S : name[n] = name[m]})]
           row == [m \in S |-> Row(m)]
<1>0. \A r : r \in B <=> \E m \in S : r = Row(m)
  <2>1. DOMAIN name = S
    OBVIOUS
  <2>2. \A r : r \in B <=> \E m \in DOMAIN name : /\ r.name = name[m]
               /\ r = [name |-> name[m], sum |-> totals({n \in DOMAIN name : name[n] = name[m]})]
    BY RowsByIs
  <2> QED BY ZenonT(40), <2>1, <2>2
<1>1. IsFiniteSet(B)
  <2>1. row \in [S -> B] /\ \A r \in B : \E m \in S : row[m] = r
    <3> HIDE DEF B, Row
    <3> QED BY <1>0
  <2>2. row \in Surjection(S, B)
    <3> HIDE DEF row, B
    <3> QED BY <2>1 DEF Surjection
  <2>3. IsFiniteSet(S)
    BY FiniteRows
  <2> HIDE DEF row, B
  <2> QED BY <2>2, <2>3, FS_Surjection
<1>2. \A r \in B : /\ r.name \in RowNames /\ r.sum = totals({n \in S : name[n] = r.name})
                   /\ r.sum.requests \in Nat /\ r.sum.quota \in Int
                   /\ r = [name |-> r.name, sum |-> r.sum]
  <2> SUFFICES ASSUME NEW r \in B
               PROVE  /\ r.name \in RowNames /\ r.sum = totals({n \in S : name[n] = r.name})
                      /\ r.sum.requests \in Nat /\ r.sum.quota \in Int
                      /\ r = [name |-> r.name, sum |-> r.sum]
    OBVIOUS
  <2>1. PICK m \in S : r = [name |-> name[m], sum |-> totals({n \in S : name[n] = name[m]})]
    BY <1>0
  <2>2. r.name = name[m] /\ r.sum = totals({n \in S : name[n] = name[m]})
    BY <2>1
  <2>3. {n \in S : name[n] = name[m]} \in SUBSET AllLatest
    OBVIOUS
  <2> QED BY <2>1, <2>2, <2>3, TotalsAre
<1>3. \A r, s \in B : r.name = s.name => r = s
  <2> SUFFICES ASSUME NEW r \in B, NEW s \in B, r.name = s.name PROVE r = s
    OBVIOUS
  <2>1. r.sum = s.sum
    BY <1>2
  <2>2. r = [name |-> r.name, sum |-> r.sum] /\ s = [name |-> s.name, sum |-> s.sum]
    BY <1>2
  <2> QED BY <2>1, <2>2
<1>4. \A a, b \in RowNames : /\ OrderOf[a] \in Nat /\ (OrderOf[a] = OrderOf[b] => a = b)
  BY NamesAssumption DEF Range, IsInjective
<1> HIDE DEF B
<1>5. Ordering(B, {p \in B \X B : ByRequests(p[1], p[2])})
  <2> DEFINE R == {p \in B \X B : ByRequests(p[1], p[2])}
             q(m) == m.sum.requests
             o(m) == OrderOf[m.name]
  <2>1. \A m \in B : q(m) \in Nat /\ o(m) \in Nat
    BY <1>2, <1>4
  <2>2. \A m, n \in B : o(m) = o(n) => m = n
    BY <1>2, <1>3, <1>4
  <2>3. \A m, n \in B : <<m, n>> \in R <=> IF q(m) # q(n) THEN q(m) > q(n) ELSE o(m) < o(n)
    BY DEF ByRequests
  <2> HIDE DEF R, q, o
  <2>4. \A m \in B : <<m, m>> \notin R
    BY <2>1, <2>3
  <2>5. \A m, n \in B : m # n => <<m, n>> \in R \/ <<n, m>> \in R
    BY <2>1, <2>2, <2>3
  <2>6. \A k, m, n \in B : <<k, m>> \in R /\ <<m, n>> \in R => <<k, n>> \in R
    BY <2>1, <2>3
  <2>7. Ordering(B, R)
    BY <2>4, <2>5, <2>6 DEF Ordering
  <2> QED BY <2>7 DEF R
<1>6. Ordering(B, {p \in B \X B : ByQuota(p[1], p[2])})
  <2> DEFINE R == {p \in B \X B : ByQuota(p[1], p[2])}
             u(m) == m.sum.quota
             q(m) == m.sum.requests
             o(m) == OrderOf[m.name]
  <2>1. \A m \in B : u(m) \in Int /\ q(m) \in Nat /\ o(m) \in Nat
    BY <1>2, <1>4
  <2>2. \A m, n \in B : o(m) = o(n) => m = n
    BY <1>2, <1>3, <1>4
  <2>3. \A m, n \in B : <<m, n>> \in R <=>
          IF u(m) # u(n) THEN u(m) > u(n) ELSE IF q(m) # q(n) THEN q(m) > q(n) ELSE o(m) < o(n)
    BY DEF ByQuota, ByRequests
  <2> HIDE DEF R, u, q, o
  <2>4. \A m \in B : <<m, m>> \notin R
    BY <2>1, <2>3
  <2>5. \A m, n \in B : m # n => <<m, n>> \in R \/ <<n, m>> \in R
    BY <2>1, <2>2, <2>3
  <2>6. \A k, m, n \in B : <<k, m>> \in R /\ <<m, n>> \in R => <<k, n>> \in R
    BY <2>1, <2>3
  <2>7. Ordering(B, R)
    BY <2>4, <2>5, <2>6 DEF Ordering
  <2> QED BY <2>7 DEF R
<1> QED BY <1>1, <1>5, <1>6 DEF B

(* The rows a breakdown shows, before the limit. *)
LEMMA FoldedRows ==
  ASSUME NEW T, NEW rows \in Seq(T), NEW limit \in Nat, NEW r \in Range(folded(rows, limit)),
         r.name # "other"
  PROVE  r \in Range(rows)
<1>1. CASE Len(rows) <= limit
  BY <1>1 DEF folded
<1>2. CASE ~(Len(rows) <= limit)
  <2> DEFINE top == SubSeq(rows, 1, limit)
             other == [name |-> "other", sum |-> SumRows(Rest(rows, limit))]
  <2>1. folded(rows, limit) = Append(top, other)
    BY <1>2 DEF folded
  <2>2. top \in Seq(T) /\ Len(top) = limit /\ \A i \in 1..limit : top[i] = rows[i]
    <3>1. limit \in 0..Len(rows)
      BY <1>2
    <3> QED BY <3>1
  <2>3. other.name = "other"
    OBVIOUS
  <2> HIDE DEF top, other
  <2>4. PICK i \in DOMAIN Append(top, other) : r = Append(top, other)[i]
    BY <2>1 DEF Range
  <2>5. i \in 1..limit + 1 /\ (i \in 1..limit => r = top[i]) /\ (i = limit + 1 => r = other)
    <3>1. DOMAIN Append(top, other) = 1..Len(top) + 1
      BY <2>2
    <3>2. /\ \A k \in 1..Len(top) : Append(top, other)[k] = top[k]
          /\ Append(top, other)[Len(top) + 1] = other
      BY <2>2
    <3> QED BY <2>2, <2>4, <3>1, <3>2
  <2>6. i \in 1..limit /\ r = rows[i]
    BY <2>2, <2>3, <2>5
  <2>7. i \in DOMAIN rows
    BY <1>2, <2>6
  <2> QED BY <2>6, <2>7 DEF Range
<1> QED BY <1>1, <1>2

(* A row of tokens counts the entries of its token. *)
LEMMA TokenRows ==
  ASSUME Typed, NEW S \in SUBSET AllLatest, NEW r \in Range(foldTokens(S)),
         r.name \notin {"other", "(unnamed)"}
  PROVE  /\ r.name \in Text /\ r.name # ""
         /\ r.sum.requests = Cardinality({m \in S : TN(EntryAt(m)) = r.name})
<1> DEFINE name == [m \in S |-> TokenRow(EntryAt(m))]
           B == ByToken(S)
           R == {p \in B \X B : ByQuota(p[1], p[2])}
<1>1. \A m \in S : EntryAt(m).rec \in Record
  BY RowIs
<1>2. name \in [S -> RowNames]
  <2> SUFFICES ASSUME NEW m \in S PROVE TokenRow(EntryAt(m)) \in RowNames
    OBVIOUS
  <2>1. CASE TN(EntryAt(m)) = ""
    BY <2>1 DEF TokenRow, RowNames
  <2>2. CASE TN(EntryAt(m)) # ""
    <3>1. TokenRow(EntryAt(m)) = EntryAt(m).rec.token /\ EntryAt(m).rec.token # ""
      BY <2>2 DEF TokenRow, TN
    <3>2. EntryAt(m).rec.token \in Named
      BY <1>1 DEF Named
    <3> QED BY <3>1, <3>2 DEF RowNames
  <2> QED BY <2>1, <2>2
<1>3. B = RowsBy(name)
  BY DEF ByToken
<1>4. IsFiniteSet(B) /\ Ordering(B, R)
  <2> HIDE DEF B, name
  <2> QED BY <1>2, <1>3, BreakdownOrders
<1>5. Dearest(B) \in Seq(B) /\ Range(Dearest(B)) = B
  <2>1. Dearest(B) = Sorted(B, R)
    BY DEF Dearest
  <2> HIDE DEF B, R
  <2> QED BY <1>4, <2>1, SortedIs
<1>6. r \in B
  <2>1. r \in Range(folded(Dearest(B), TokenLimit)) /\ TokenLimit \in Nat
    BY StatsAssumption DEF foldTokens
  <2> HIDE DEF B
  <2>2. r \in Range(Dearest(B))
    BY <1>5, <2>1, FoldedRows
  <2> QED BY <1>5, <2>2
<1>7. PICK m \in S : /\ r.name = name[m]
                     /\ r = [name |-> name[m], sum |-> totals({n \in S : name[n] = name[m]})]
  <2>1. DOMAIN name = S
    OBVIOUS
  <2> HIDE DEF B, name
  <2>2. r \in RowsBy(name)
    BY <1>3, <1>6
  <2>3. \E m \in DOMAIN name : /\ r.name = name[m]
          /\ r = [name |-> name[m], sum |-> totals({n \in DOMAIN name : name[n] = name[m]})]
    BY <2>2, RowsByIs
  <2> QED BY <2>1, <2>3
<1>8. r.name = TokenRow(EntryAt(m)) /\ r.sum = totals({n \in S : TokenRow(EntryAt(n)) = r.name})
  BY <1>7
<1>9. r.name = TN(EntryAt(m)) /\ r.name # ""
  BY <1>8 DEF TokenRow
<1>10. r.name \in Text
  BY <1>1, <1>9, RangeAssumption DEF TN, Text
<1>11. {n \in S : TokenRow(EntryAt(n)) = r.name} = {n \in S : TN(EntryAt(n)) = r.name}
  <2>1. \A n \in S : TokenRow(EntryAt(n)) = r.name <=> TN(EntryAt(n)) = r.name
    BY <1>9 DEF TokenRow
  <2> QED BY <2>1
<1>12. {n \in S : TN(EntryAt(n)) = r.name} \in SUBSET AllLatest
  OBVIOUS
<1> HIDE DEF name, B
<1> QED BY <1>8, <1>9, <1>10, <1>11, <1>12, TotalsAre

LEMMA ListAgrees ==
  ASSUME Typed, NEW f \in Asked
  PROVE  AgreesWithList(f)
<1> DEFINE g == toList(f)
           S == Counted(f)
           E == eachMatch(g)
<1>1. g \in Asked /\ ~NeedsBody(g) /\ g.status = "" /\ g.token = f.token
  BY ToListIs
<1>2. S = Timed(E) /\ S \subseteq AllLatest /\ Len(matched(g)) = Cardinality(S) + UnknownTime(f)
  BY CountedIs
<1> HIDE DEF g, S, E
<1>3. ASSUME NEW o \in {"ok", "error"}
      PROVE  Cardinality(Timed(Rows([g EXCEPT !.status = o]))) = Cardinality(With(S, o))
  <2>1. o \in Text /\ o # ""
    BY DEF Text
  <2>2. /\ eachMatch([g EXCEPT !.status = o]) = {m \in E : entryOutcome(EntryAt(m)) = o}
        /\ ~NeedsBody([g EXCEPT !.status = o])
    BY <1>1, <2>1, ChooseStatus DEF E
  <2>3. Rows([g EXCEPT !.status = o]) = {m \in E : entryOutcome(EntryAt(m)) = o}
    BY <2>2, ListIs DEF Found
  <2>4. Timed(Rows([g EXCEPT !.status = o])) = With(S, o)
    BY <1>2, <2>3 DEF Timed, With
  <2> QED BY <2>4
<1>4. ASSUME NEW r \in Range(foldTokens(S)), r.name \notin {"other", "(unnamed)"}, f.token = ""
      PROVE  Cardinality(Timed(Rows([g EXCEPT !.token = r.name]))) = r.sum.requests
  <2>1. /\ r.name \in Text /\ r.name # ""
        /\ r.sum.requests = Cardinality({m \in S : TN(EntryAt(m)) = r.name})
    BY <1>2, <1>4, TokenRows
  <2>2. /\ eachMatch([g EXCEPT !.token = r.name]) = {m \in E : TN(EntryAt(m)) = r.name}
        /\ ~NeedsBody([g EXCEPT !.token = r.name])
    BY <1>1, <1>4, <2>1, ChooseToken DEF E
  <2>3. Rows([g EXCEPT !.token = r.name]) = {m \in E : TN(EntryAt(m)) = r.name}
    BY <2>2, ListIs DEF Found
  <2>4. Timed(Rows([g EXCEPT !.token = r.name])) = {m \in S : TN(EntryAt(m)) = r.name}
    BY <1>2, <2>3 DEF Timed
  <2> QED BY <2>1, <2>4
<1> QED BY <1>2, <1>3, <1>4 DEF AgreesWithList, g, S

(* The list and the statistics agree on how many calls there are, on which  *)
(* succeeded and on whose they are, and a name the page offers to filter by *)
(* finds a call when it is chosen: for any archive, with lines of any age.  *)
THEOREM TwoPagesAgree == Spec => []ViewsAgree
<1>1. IInv => ViewsAgree
  <2> SUFFICES ASSUME Typed, NEW f \in Filters PROVE AgreesWithList(f) /\ OptionsFind(f)
    BY DEF IInv, ViewsAgree
  <2>1. f \in Asked
    BY FilterType
  <2> QED BY <2>1, ListAgrees, TokenFinds, ModelFinds DEF OptionsFind
<1> QED BY <1>1, Always, PTL

-----------------------------------------------------------------------------
(* What the statistics add up. *)

(* Every column of the totals is a sum over the entries. *)
Column == {"requests", "quota", "ok", "err"}
Amount(m, k) ==
  IF k = "requests" THEN 1
  ELSE IF k = "quota" THEN QuotaOf(m)
  ELSE IF k = "ok" THEN (IF entryOutcome(EntryAt(m)) = "ok" THEN 1 ELSE 0)
  ELSE (IF entryOutcome(EntryAt(m)) = "error" THEN 1 ELSE 0)
Amounts(k) == [m \in AllLatest |-> Amount(m, k)]

LEMMA TotalsIs ==
  ASSUME NEW S
  PROVE  /\ totals(S) = [k \in Column |-> totals(S)[k]]
         /\ totals(S)["requests"] = Cardinality(S) /\ totals(S)["quota"] = SumQuota(S)
         /\ totals(S)["ok"] = Cardinality(With(S, "ok"))
         /\ totals(S)["err"] = Cardinality(With(S, "error"))
BY DEF totals, Column

LEMMA AmountType ==
  ASSUME Typed, NEW m \in AllLatest, NEW k
  PROVE  Amounts(k)[m] \in Int
<1>1. EntryAt(m).rec \in Record
  BY RowIs
<1>2. QuotaOf(m) \in Int
  BY <1>1, NamesAssumption DEF QuotaOf
<1> QED BY <1>2 DEF Amounts, Amount

LEMMA TotalsAreSums ==
  ASSUME Typed, NEW S \in SUBSET AllLatest, NEW k \in Column
  PROVE  totals(S)[k] = SumFunctionOnSet(Amounts(k), S)
<1>1. IsFiniteSet(S)
  BY FiniteRows
<1>2. \A m \in S : Amounts(k)[m] = Amount(m, k)
  BY DEF Amounts
<1>3. CASE k = "requests"
  <2>1. \A m \in S : Amounts(k)[m] = IF m \in S THEN 1 ELSE 0
    BY <1>2, <1>3 DEF Amount
  <2> QED BY <1>1, <1>3, <2>1, SumOnes, TotalsIs
<1>4. CASE k = "quota"
  <2> DEFINE q == [m \in S |-> QuotaOf(m)]
  <2>1. SumQuota(S) = SumFunctionOnSet(q, S)
    BY DEF SumQuota, SumFunction
  <2>2. \A m \in S : q[m] = Amounts(k)[m]
    BY <1>2, <1>4 DEF Amount
  <2> HIDE DEF q
  <2>3. SumFunctionOnSet(q, S) = SumFunctionOnSet(Amounts(k), S)
    BY <1>1, <2>2, SumSame
  <2> QED BY <1>4, <2>1, <2>3, TotalsIs
<1>5. CASE k = "ok"
  <2>1. With(S, "ok") \in SUBSET S /\ \A m \in S : Amounts(k)[m] = IF m \in With(S, "ok") THEN 1 ELSE 0
    BY <1>2, <1>5 DEF Amount, With
  <2> QED BY <1>1, <1>5, <2>1, SumOnes, TotalsIs
<1>6. CASE k = "err"
  <2>1. With(S, "error") \in SUBSET S /\ \A m \in S : Amounts(k)[m] = IF m \in With(S, "error") THEN 1 ELSE 0
    BY <1>2, <1>6 DEF Amount, With
  <2> QED BY <1>1, <1>6, <2>1, SumOnes, TotalsIs
<1> QED BY <1>3, <1>4, <1>5, <1>6 DEF Column

(* The rows that are shown have the sums of all rows, whatever the limit.   *)
LEMMA FoldedSum ==
  ASSUME NEW T, NEW rows \in Seq(T), NEW limit \in Nat, NEW k \in Column, NEW f,
         \A i \in DOMAIN rows : f[i] = rows[i].sum[k] /\ f[i] \in Int
  PROVE  SumRows(folded(rows, limit))[k] = SumFunctionOnSet(f, DOMAIN rows)
<1> DEFINE Of(q) == SumFunctionOnSet([i \in DOMAIN q |-> q[i].sum[k]], DOMAIN q)
           n == Len(rows)
<1>1. \A q : SumRows(q)[k] = Of(q)
  <2> SUFFICES ASSUME NEW q PROVE SumRows(q)[k] = Of(q)
    OBVIOUS
  <2>1. SumRows(q)[k] = SumFunction([i \in DOMAIN q |-> q[i].sum[k]])
    BY DEF SumRows, Column
  <2> QED BY <2>1 DEF SumFunction
<1>2. n \in Nat /\ DOMAIN rows = 1..n /\ IsFiniteSet(1..n)
  BY FS_Interval
<1>3. CASE n <= limit
  <2>1. folded(rows, limit) = rows
    BY <1>3 DEF folded
  <2> DEFINE g == [i \in DOMAIN rows |-> rows[i].sum[k]]
  <2>2. \A i \in 1..n : g[i] = f[i]
    BY <1>2
  <2>3. Of(rows) = SumFunctionOnSet(g, 1..n)
    BY <1>2
  <2> HIDE DEF g
  <2>4. SumFunctionOnSet(g, 1..n) = SumFunctionOnSet(f, 1..n)
    BY <1>2, <2>2, SumSame
  <2>5. SumRows(rows)[k] = Of(rows)
    BY <1>1
  <2> QED BY <1>2, <2>1, <2>3, <2>4, <2>5
<1>4. CASE ~(n <= limit)
  <2> DEFINE top == SubSeq(rows, 1, limit)
             rest == SubSeq(rows, limit + 1, n)
             other == [name |-> "other", sum |-> SumRows(rest)]
             all == Append(top, other)
             g == [i \in DOMAIN all |-> all[i].sum[k]]
             h == [i \in DOMAIN rest |-> rest[i].sum[k]]
             b == [i \in 1..(n - limit) |-> limit + i]
  <2>1. folded(rows, limit) = all
    BY <1>4 DEF folded, Rest
  <2>2. /\ Len(top) = limit /\ DOMAIN top = 1..limit /\ top \in Seq(T)
        /\ \A i \in 1..limit : top[i] = rows[i]
    <3>1. limit \in 0..n
      BY <1>2, <1>4
    <3> QED BY <3>1
  <2>3. DOMAIN rest = 1..(n - limit) /\ \A i \in 1..(n - limit) : rest[i] = rows[limit + i]
    <3>1. limit + 1 \in 1..n
      BY <1>2, <1>4
    <3> QED BY <3>1
  <2>4. /\ DOMAIN all = 1..limit + 1 /\ all[limit + 1] = other
        /\ \A i \in 1..limit : all[i] = rows[i]
    <3> HIDE DEF top, other
    <3> QED BY <2>2
  <2>5. /\ g[limit + 1] = SumRows(rest)[k] /\ SumRows(rest)[k] = SumFunctionOnSet(h, 1..(n - limit))
        /\ \A i \in 1..limit : g[i] = f[i]
    <3>1. other.sum = SumRows(rest)
      OBVIOUS
    <3>2. limit + 1 \in 1..limit + 1 /\ \A i \in 1..limit : i \in 1..limit + 1
      OBVIOUS
    <3>3. SumRows(rest)[k] = Of(rest)
      BY <1>1
    <3>4. \A i \in 1..limit : i \in DOMAIN rows
      BY <1>2, <1>4
    <3> HIDE DEF other, all, rest
    <3> QED BY <2>3, <2>4, <3>1, <3>2, <3>3, <3>4
  <2>6. SumFunctionOnSet(h, 1..(n - limit)) = SumFunctionOnSet(f, limit + 1 .. n)
    <3> DEFINE D == 1..(n - limit)
               E == limit + 1 .. n
    <3>1. IsFiniteSet(D) /\ IsFiniteSet(E)
      BY <1>2, <1>4, FS_Interval
    <3>2. b \in Bijection(D, E)
      <4>1. \A i \in D : b[i] = limit + i /\ b[i] \in E
        BY <1>2, <1>4
      <4>2. \A i, j \in D : b[i] = b[j] => i = j
        BY <1>2, <1>4
      <4>3. \A j \in E : \E i \in D : b[i] = j
        <5> SUFFICES ASSUME NEW j \in E PROVE \E i \in D : b[i] = j
          OBVIOUS
        <5>1. j - limit \in D /\ limit + (j - limit) = j
          BY <1>2, <1>4
        <5> QED BY <4>1, <5>1
      <4>4. b \in [D -> E]
        BY <4>1
      <4> HIDE DEF b, D, E
      <4> QED BY <4>2, <4>3, <4>4 DEF Bijection, Injection, Surjection, IsInjective
    <3>3. \A i \in D : h[i] = f[b[i]] /\ h[i] \in Int
      <4> SUFFICES ASSUME NEW i \in D PROVE h[i] = f[b[i]] /\ h[i] \in Int
        OBVIOUS
      <4>1. limit + i \in DOMAIN rows
        BY <1>2, <1>4
      <4>2. h[i] = rows[limit + i].sum[k] /\ b[i] = limit + i
        <5> HIDE DEF rest
        <5> QED BY <2>3
      <4> QED BY <4>1, <4>2
    <3>4. \A i \in E : f[i] \in Int
      BY <1>2, <1>4
    <3> HIDE DEF D, E, b, h
    <3>5. SumFunctionOnSet(h, D) = SumFunctionOnSet(f, E)
      BY <3>1, <3>2, <3>3, <3>4, SumMatched
    <3> QED BY <3>5 DEF D, E
  <2>7. SumFunctionOnSet(f, 1..n) = SumFunctionOnSet(f, 1..limit) + SumFunctionOnSet(f, limit + 1 .. n)
    <3>1. 1..limit \in SUBSET (1..n) /\ (1..n) \ (1..limit) = limit + 1 .. n
      BY <1>2, <1>4
    <3>2. \A i \in 1..n : f[i] \in Int
      BY <1>2
    <3>3. SumFunctionOnSet(f, 1..n)
            = SumFunctionOnSet(f, 1..limit) + SumFunctionOnSet(f, (1..n) \ (1..limit))
      BY <1>2, <3>1, <3>2, SumParts
    <3> QED BY <3>1, <3>3
  <2>8. /\ SumFunctionOnSet(f, 1..limit) \in Int
        /\ SumFunctionOnSet(f, limit + 1 .. n) \in Int /\ IsFiniteSet(1..limit)
    <3>1. IsFiniteSet(1..limit) /\ IsFiniteSet(limit + 1 .. n)
      BY <1>2, FS_Interval
    <3>2. (\A i \in 1..limit : f[i] \in Int) /\ (\A i \in limit + 1 .. n : f[i] \in Int)
      BY <1>2, <1>4
    <3> QED BY <3>1, <3>2, SumInt
  <2>9. Of(all) = SumFunctionOnSet(g, 1..limit + 1)
    BY <2>4
  <2>10. SumRows(all)[k] = Of(all)
    BY <1>1
  <2> HIDE DEF g, h, b, all, other, rest, top, Of, n
  <2>11. SumFunctionOnSet(g, 1..limit + 1) = g[limit + 1] + SumFunctionOnSet(g, 1..limit)
    <3>1. (1..limit + 1) \ {limit + 1} = 1..limit /\ limit + 1 \in 1..limit + 1
      OBVIOUS
    <3>2. \A i \in 1..limit + 1 : i \in 1..limit \/ i = limit + 1
      OBVIOUS
    <3>3. \A i \in 1..limit : f[i] \in Int
      BY <1>2, <1>4
    <3>4. \A i \in 1..limit + 1 : g[i] \in Int
      BY <2>5, <2>6, <2>8, <3>2, <3>3
    <3>5. IsFiniteSet(1..limit + 1)
      <4>1. limit + 1 \in Int /\ 1 \in Int
        OBVIOUS
      <4> QED BY <4>1, FS_Interval
    <3>6. SumFunctionOnSet(g, 1..limit + 1)
            = g[limit + 1] + SumFunctionOnSet(g, (1..limit + 1) \ {limit + 1})
      BY <3>1, <3>4, <3>5, SumRemove
    <3> QED BY <3>1, <3>6
  <2>12. SumFunctionOnSet(g, 1..limit) = SumFunctionOnSet(f, 1..limit)
    BY <2>5, <2>8, SumSame
  <2>13. SumRows(all)[k] = SumFunctionOnSet(f, limit + 1 .. n) + SumFunctionOnSet(f, 1..limit)
    BY <2>5, <2>6, <2>9, <2>10, <2>11, <2>12
  <2> QED BY <1>2, <2>1, <2>7, <2>8, <2>13
<1> QED BY <1>3, <1>4

(* The rows of a breakdown, in any order and cut at any limit, add up to    *)
(* the totals.                                                              *)
LEMMA BreakdownSums ==
  ASSUME Typed, NEW S \in SUBSET AllLatest, NEW name \in [S -> RowNames], NEW R,
         Ordering(RowsBy(name), R), NEW limit \in Nat
  PROVE  SumRows(folded(Sorted(RowsBy(name), R), limit)) = totals(S)
<1> DEFINE B == RowsBy(name)
           q == Sorted(B, R)
           n == Cardinality(B)
           Row(m) == [name |-> name[m], sum |-> totals({x \in S : name[x] = name[m]})]
<1>1. \A r : r \in B <=> \E m \in S : r = Row(m)
  <2>1. DOMAIN name = S
    OBVIOUS
  <2>2. \A r : r \in B <=> \E m \in DOMAIN name : /\ r.name = name[m]
               /\ r = [name |-> name[m], sum |-> totals({x \in DOMAIN name : name[x] = name[m]})]
    BY RowsByIs
  <2> QED BY ZenonT(40), <2>1, <2>2
<1>2. IsFiniteSet(S) /\ IsFiniteSet(B)
  BY FiniteRows, BreakdownOrders
<1>3. /\ n \in Nat /\ DOMAIN q = 1..n /\ q \in Seq(B) /\ \A i \in 1..n : q[i] \in B
      /\ \A i, j \in 1..n : q[i] = q[j] => i = j
      /\ \A r \in B : \E i \in 1..n : q[i] = r
  <2> HIDE DEF B
  <2>1. /\ n \in Nat /\ DOMAIN q = 1..n /\ q \in Seq(B)
        /\ \A i, j \in 1..n : q[i] = q[j] => i = j
        /\ \A r \in B : \E i \in 1..n : q[i] = r
    BY <1>2, SortedIs DEF B
  <2> HIDE DEF q, n
  <2> QED BY <2>1
<1>4. ASSUME NEW k \in Column
      PROVE  SumRows(folded(q, limit))[k] = totals(S)[k]
  <2> DEFINE col == [r \in B |-> r.sum[k]]
             row == [m \in S |-> Row(m)]
             f == [i \in 1..n |-> q[i].sum[k]]
  <2>1. row \in [S -> B]
    <3> HIDE DEF B, Row
    <3> QED BY <1>1
  <2>2. ASSUME NEW r \in B
        PROVE  /\ \E T : /\ \A x : x \in T <=> x \in S /\ row[x] = r
                        /\ col[r] = SumFunctionOnSet(Amounts(k), T)
               /\ col[r] \in Int
    <3>1. PICK m \in S : r = Row(m)
      BY <1>1
    <3> DEFINE F == {x \in S : name[x] = name[m]}
    <3>2. F \in SUBSET AllLatest /\ IsFiniteSet(F)
      <4>1. F \in SUBSET AllLatest
        OBVIOUS
      <4> HIDE DEF F
      <4> QED BY <4>1, FiniteRows
    <3>3. col[r] = totals(F)[k]
      <4>1. r.sum = totals(F)
        BY <3>1
      <4> QED BY <4>1
    <3>4. \A x : x \in F <=> x \in S /\ row[x] = r
      <4>1. ASSUME NEW x \in S PROVE Row(x) = r <=> name[x] = name[m]
        <5>1. ASSUME Row(x) = r PROVE name[x] = name[m]
          <6>1. Row(x).name = Row(m).name
            BY <3>1, <5>1
          <6> QED BY <6>1
        <5>2. ASSUME name[x] = name[m] PROVE Row(x) = r
          BY <3>1, <5>2
        <5> QED BY <5>1, <5>2
      <4> HIDE DEF Row
      <4> QED BY <4>1
    <3>5. totals(F)[k] = SumFunctionOnSet(Amounts(k), F)
      BY <3>2, TotalsAreSums
    <3>6. SumFunctionOnSet(Amounts(k), F) \in Int
      <4>1. \A x \in F : Amounts(k)[x] \in Int
        BY AmountType
      <4> HIDE DEF F
      <4> QED BY <3>2, <4>1, SumInt
    <3> HIDE DEF F, col, row
    <3> QED BY <3>3, <3>4, <3>5, <3>6
  <2>3. SumFunctionOnSet(col, B) = SumFunctionOnSet(Amounts(k), S)
    <3>1. \A m \in S : Amounts(k)[m] \in Int
      BY AmountType
    <3>2. \A r \in B : \E T : /\ \A x : x \in T <=> x \in S /\ row[x] = r
                            /\ col[r] = SumFunctionOnSet(Amounts(k), T)
      BY <2>2
    <3> HIDE DEF col, row, B
    <3> QED BY <1>2, <2>1, <3>1, <3>2, SumFibres
  <2>4. \A i \in 1..n : f[i] = q[i].sum[k] /\ f[i] = col[q[i]] /\ f[i] \in Int
    <3> HIDE DEF B, q, n
    <3>1. \A i \in 1..n : f[i] = q[i].sum[k] /\ f[i] = col[q[i]]
      BY <1>3
    <3> QED BY <1>3, <2>2, <3>1
  <2>5. SumFunctionOnSet(f, 1..n) = SumFunctionOnSet(col, B)
    <3> HIDE DEF col, f, q, B, n
    <3>1. q \in Bijection(1..n, B)
      <4>1. q \in [1..n -> B]
        BY <1>3
      <4> QED BY <1>3, <4>1 DEF Bijection, Injection, Surjection, IsInjective
    <3>2. IsFiniteSet(1..n)
      BY <1>3, FS_Interval
    <3>3. \A r \in B : col[r] \in Int
      BY <2>2
    <3> DEFINE D == 1..n
    <3>4. \A i \in D : f[i] = col[q[i]] /\ f[i] \in Int
      BY <2>4
    <3>5. q \in Bijection(D, B) /\ IsFiniteSet(D)
      BY <3>1, <3>2
    <3> HIDE DEF D
    <3>6. SumFunctionOnSet(f, D) = SumFunctionOnSet(col, B)
      BY <1>2, <3>3, <3>4, <3>5, SumMatched
    <3> QED BY <3>6 DEF D
  <2>6. SumRows(folded(q, limit))[k] = SumFunctionOnSet(f, 1..n)
    <3> HIDE DEF f, q, B, n
    <3>1. \A i \in DOMAIN q : f[i] = q[i].sum[k] /\ f[i] \in Int
      BY <1>3, <2>4
    <3>2. q \in Seq(B)
      BY <1>3
    <3>3. SumRows(folded(q, limit))[k] = SumFunctionOnSet(f, DOMAIN q)
      BY <3>1, <3>2, FoldedSum
    <3> QED BY <1>3, <3>3
  <2> QED BY <2>3, <2>5, <2>6, TotalsAreSums
<1> HIDE DEF q
<1>5. SumRows(folded(q, limit)) = [k \in Column |-> SumRows(folded(q, limit))[k]]
  BY DEF SumRows, Column
<1>6. SumRows(folded(q, limit)) = totals(S)
  <2>1. totals(S) = [k \in Column |-> totals(S)[k]]
    BY TotalsIs
  <2> QED BY <1>4, <1>5, <2>1
<1> QED BY <1>6 DEF q

(* The entries are counted apart by any column that has a value in each.    *)
LEMMA CountFibres ==
  ASSUME Typed, NEW S \in SUBSET AllLatest, NEW V, IsFiniteSet(V), NEW name \in [S -> V], NEW h,
         \A v \in V : \E T : /\ \A x : x \in T <=> x \in S /\ name[x] = v
                            /\ h[v] = Cardinality(T)
  PROVE  SumFunctionOnSet(h, V) = Cardinality(S)
<1> DEFINE c == Amounts("requests")
<1>1. \A T \in SUBSET AllLatest : Cardinality(T) = SumFunctionOnSet(c, T)
  <2>1. "requests" \in Column
    BY DEF Column
  <2> QED BY <2>1, TotalsAreSums, TotalsIs
<1>2. \A x \in S : c[x] \in Int
  BY AmountType
<1> HIDE DEF c
<1>3. IsFiniteSet(S)
  BY FiniteRows
<1>4. \A v \in V : \E T : /\ \A x : x \in T <=> x \in S /\ name[x] = v
                         /\ h[v] = SumFunctionOnSet(c, T)
  <2> SUFFICES ASSUME NEW v \in V
               PROVE  \E T : /\ \A x : x \in T <=> x \in S /\ name[x] = v
                             /\ h[v] = SumFunctionOnSet(c, T)
    OBVIOUS
  <2>1. PICK T : /\ \A x : x \in T <=> x \in S /\ name[x] = v
                 /\ h[v] = Cardinality(T)
    OBVIOUS
  <2>2. T \in SUBSET AllLatest
    BY <2>1
  <2> QED BY <1>1, <2>1, <2>2
<1>5. SumFunctionOnSet(h, V) = SumFunctionOnSet(c, S)
  BY <1>2, <1>3, <1>4, SumFibres
<1> QED BY <1>1, <1>5

LEMMA HoursSum ==
  ASSUME Typed, NEW S \in SUBSET AllLatest
  PROVE  SumFunction(Hours(S)) = Cardinality(S)
<1> DEFINE V == 0..HoursPerDay - 1
           name == [m \in S |-> EntryAt(m).rec.hour]
           h == Hours(S)
<1>1. IsFiniteSet(V)
  <2>1. HoursPerDay - 1 \in Int /\ 0 \in Int
    BY StatsAssumption
  <2> QED BY <2>1, FS_Interval
<1>2. name \in [S -> V]
  <2> SUFFICES ASSUME NEW m \in S PROVE EntryAt(m).rec.hour \in V
    OBVIOUS
  <2>1. EntryAt(m).rec \in Record
    BY RowIs
  <2>2. EntryAt(m).rec.hour \in Nat /\ EntryAt(m).rec.hour < HoursPerDay
    BY <2>1, RangeAssumption, NamesAssumption
  <2> QED BY <2>2, StatsAssumption
<1>3. DOMAIN h = V /\ \A v \in V : h[v] = Cardinality({m \in S : EntryAt(m).rec.hour = v})
  BY DEF Hours
<1>4. \A v \in V : \E T : /\ \A x : x \in T <=> x \in S /\ name[x] = v
                         /\ h[v] = Cardinality(T)
  <2> SUFFICES ASSUME NEW v \in V
               PROVE  \E T : /\ \A x : x \in T <=> x \in S /\ name[x] = v
                             /\ h[v] = Cardinality(T)
    OBVIOUS
  <2> DEFINE T == {m \in S : EntryAt(m).rec.hour = v}
  <2>1. \A x : x \in T <=> x \in S /\ name[x] = v
    OBVIOUS
  <2>2. h[v] = Cardinality(T)
    BY <1>3
  <2> HIDE DEF T
  <2> QED BY <2>1, <2>2
<1> HIDE DEF V, name, h
<1>5. SumFunctionOnSet(h, V) = Cardinality(S)
  BY <1>1, <1>2, <1>4, CountFibres
<1> QED BY <1>3, <1>5 DEF h, SumFunction

LEMMA Modulo ==
  ASSUME NEW a \in Nat, NEW n \in Nat \ {0}
  PROVE  a % n \in 0..n - 1
OBVIOUS

LEMMA WeekdaysSum ==
  ASSUME Typed, NEW S \in SUBSET AllLatest, NEW t \in 0..HoursPerDay - 1
  PROVE  SumFunction([d \in 0..DaysPerWeek - 1 |-> DowHours(S)[d][t]]) = Hours(S)[t]
<1> DEFINE V == 0..DaysPerWeek - 1
           dow(m) == (EntryAt(m).rec.day - 1) % DaysPerWeek
           P == {m \in S : EntryAt(m).rec.hour = t}
           name == [m \in P |-> dow(m)]
           h == [d \in V |-> DowHours(S)[d][t]]
<1>1. IsFiniteSet(V)
  <2>1. DaysPerWeek - 1 \in Int /\ 0 \in Int
    BY StatsAssumption
  <2> QED BY <2>1, FS_Interval
<1>2. P \in SUBSET AllLatest /\ Hours(S)[t] = Cardinality(P)
  BY DEF Hours
<1>3. name \in [P -> V]
  <2> SUFFICES ASSUME NEW m \in P PROVE dow(m) \in V
    OBVIOUS
  <2>1. EntryAt(m).rec.day \in Day
    BY RowIs
  <2>2. EntryAt(m).rec.day - 1 \in Nat
    <3>1. EntryAt(m).rec.day \in Nat \ {0}
      BY <2>1, Calendar
    <3> QED BY <3>1
  <2>3. DaysPerWeek \in Nat \ {0}
    BY StatsAssumption
  <2> QED BY <2>2, <2>3, Modulo
<1>4. \A v \in V : \E T : /\ \A x : x \in T <=> x \in P /\ name[x] = v
                         /\ h[v] = Cardinality(T)
  <2> SUFFICES ASSUME NEW v \in V
               PROVE  \E T : /\ \A x : x \in T <=> x \in P /\ name[x] = v
                             /\ h[v] = Cardinality(T)
    OBVIOUS
  <2> DEFINE W == {m \in S : (EntryAt(m).rec.day - 1) % DaysPerWeek = v}
             T == {m \in W : EntryAt(m).rec.hour = t}
  <2>1. \A x : x \in T <=> x \in P /\ name[x] = v
    OBVIOUS
  <2>2. h[v] = Cardinality(T)
    <3>1. DowHours(S)[v] = Hours(W)
      BY DEF DowHours
    <3> HIDE DEF W
    <3>2. Hours(W)[t] = Cardinality(T)
      BY DEF Hours
    <3> QED BY <3>1, <3>2
  <2> HIDE DEF T
  <2> QED BY <2>1, <2>2
<1>5. SumFunction(h) = SumFunctionOnSet(h, V)
  BY DEF SumFunction
<1> HIDE DEF V, name, h, P
<1>6. SumFunctionOnSet(h, V) = Cardinality(P)
  BY <1>1, <1>2, <1>3, <1>4, CountFibres
<1> QED BY <1>2, <1>5, <1>6 DEF h, V

LEMMA OutcomeIs ==
  ASSUME Typed, NEW m \in AllLatest
  PROVE  entryOutcome(EntryAt(m)) \in Outcomes
<1>1. EntryAt(m).rec \in Record
  BY RowIs
<1>2. /\ EntryAt(m).rec.outcome \in Outcomes /\ EntryAt(m).rec.derived \in Outcomes
      /\ EntryAt(m).rec.status \in Outcomes
  BY <1>1, NamesAssumption
<1> QED BY <1>2 DEF entryOutcome, Outcome, Outcomes

LEMMA Names ==
  ASSUME Typed, NEW S \in SUBSET AllLatest
  PROVE  /\ [m \in S |-> ModelRow(EntryAt(m))] \in [S -> RowNames]
         /\ [m \in S |-> ChanRow(EntryAt(m))] \in [S -> RowNames]
         /\ [m \in S |-> TokenRow(EntryAt(m))] \in [S -> RowNames]
<1> SUFFICES ASSUME NEW m \in S
             PROVE  /\ ModelRow(EntryAt(m)) \in RowNames
                    /\ ChanRow(EntryAt(m)) \in RowNames
                    /\ TokenRow(EntryAt(m)) \in RowNames
  OBVIOUS
<1> DEFINE r == EntryAt(m).rec
<1>1. r \in Record
  BY RowIs
<1>2. /\ r.model # "" => r.model \in RowNames
      /\ r.token # "" => r.token \in RowNames
      /\ r.up # "" => r.up \in RowNames
  <2>1. {r.model, r.token, r.up} \subseteq Named
    BY <1>1 DEF Named
  <2> QED BY <2>1 DEF RowNames
<1>3. ModelRow(EntryAt(m)) \in RowNames
  <2>1. "(unknown)" \in RowNames
    BY DEF RowNames
  <2> QED BY <1>2, <2>1 DEF ModelRow
<1>4. TokenRow(EntryAt(m)) \in RowNames
  <2>1. "(unnamed)" \in RowNames
    BY DEF RowNames
  <2> QED BY <1>2, <2>1 DEF TokenRow, TN
<1>5. ChanRow(EntryAt(m)) \in RowNames
  <2>1. "(no channel)" \in RowNames /\ "#" \in RowNames
    BY DEF RowNames
  <2>2. \A c \in DOMAIN ChannelNames : ChannelNames[c] \in RowNames
    BY DEF RowNames, Range
  <2> QED BY <1>2, <2>1, <2>2 DEF ChanRow
<1> QED BY <1>3, <1>4, <1>5

LEMMA AllReconcile ==
  ASSUME Typed, NEW f \in Asked
  PROVE  Reconciles(f)
<1> DEFINE S == Counted(f)
<1>1. S \in SUBSET AllLatest /\ IsFiniteSet(S)
  BY CountedIs
<1> HIDE DEF S
<1>2. SumRows(foldModels(S)) = totals(S) /\ SumRows(foldChans(S)) = totals(S)
      /\ SumRows(foldTokens(S)) = totals(S)
  <2>1. ModelLimit \in Nat /\ ChanLimit \in Nat /\ TokenLimit \in Nat
    BY StatsAssumption
  <2>2. SumRows(foldModels(S)) = totals(S)
    <3> DEFINE name == [m \in S |-> ModelRow(EntryAt(m))]
    <3>1. name \in [S -> RowNames]
      BY <1>1, Names
    <3>2. ByModel(S) = RowsBy(name)
      BY DEF ByModel
    <3> HIDE DEF name
    <3> DEFINE B == RowsBy(name)
               R == {p \in B \X B : ByRequests(p[1], p[2])}
    <3>3. Ordering(B, R)
      BY <1>1, <3>1, BreakdownOrders
    <3>4. foldModels(S) = folded(Sorted(B, R), ModelLimit)
      BY <3>2 DEF foldModels, Busiest
    <3> HIDE DEF R
    <3> QED BY <1>1, <2>1, <3>1, <3>3, <3>4, BreakdownSums
  <2>3. SumRows(foldChans(S)) = totals(S)
    <3> DEFINE name == [m \in S |-> ChanRow(EntryAt(m))]
    <3>1. name \in [S -> RowNames]
      BY <1>1, Names
    <3>2. ByChan(S) = RowsBy(name)
      BY DEF ByChan
    <3> HIDE DEF name
    <3> DEFINE B == RowsBy(name)
               R == {p \in B \X B : ByRequests(p[1], p[2])}
    <3>3. Ordering(B, R)
      BY <1>1, <3>1, BreakdownOrders
    <3>4. foldChans(S) = folded(Sorted(B, R), ChanLimit)
      BY <3>2 DEF foldChans, Busiest
    <3> HIDE DEF R
    <3> QED BY <1>1, <2>1, <3>1, <3>3, <3>4, BreakdownSums
  <2>4. SumRows(foldTokens(S)) = totals(S)
    <3> DEFINE name == [m \in S |-> TokenRow(EntryAt(m))]
    <3>1. name \in [S -> RowNames]
      BY <1>1, Names
    <3>2. ByToken(S) = RowsBy(name)
      BY DEF ByToken
    <3> HIDE DEF name
    <3> DEFINE B == RowsBy(name)
               R == {p \in B \X B : ByQuota(p[1], p[2])}
    <3>3. Ordering(B, R)
      BY <1>1, <3>1, BreakdownOrders
    <3>4. foldTokens(S) = folded(Sorted(B, R), TokenLimit)
      BY <3>2 DEF foldTokens, Dearest
    <3> HIDE DEF R
    <3> QED BY <1>1, <2>1, <3>1, <3>3, <3>4, BreakdownSums
  <2> QED BY <2>2, <2>3, <2>4
<1>3. Unknown(f) = totals(S).requests - totals(S).ok - totals(S).err
  <2> DEFINE K == With(S, "ok")
             E == With(S, "error")
             U == With(S, "")
  <2>1. K \cup E \cup U = S /\ K \cap E = {} /\ (K \cup E) \cap U = {}
    BY <1>1, OutcomeIs DEF With, Outcomes
  <2>2. totals(S).requests = Cardinality(S) /\ totals(S).ok = Cardinality(K) /\ totals(S).err = Cardinality(E)
    BY DEF totals
  <2>3. Unknown(f) = Cardinality(U)
    BY DEF Unknown, S
  <2>4. K \subseteq S /\ E \subseteq S /\ U \subseteq S /\ K \cup E \subseteq S
    BY DEF With
  <2> HIDE DEF K, E, U
  <2>5. /\ IsFiniteSet(K) /\ IsFiniteSet(E) /\ IsFiniteSet(U) /\ IsFiniteSet(K \cup E)
    BY <1>1, <2>4, FS_Subset
  <2>6. Cardinality(K) \in Nat /\ Cardinality(E) \in Nat /\ Cardinality(U) \in Nat
        /\ Cardinality(K \cup E) \in Nat
    BY <2>5, FS_CardinalityType
  <2>7. Cardinality(K \cup E) = Cardinality(K) + Cardinality(E)
    <3>1. Cardinality(K \cup E) = Cardinality(K) + Cardinality(E) - Cardinality(K \cap E)
      BY <2>5, FS_Union
    <3>2. Cardinality(K \cap E) = 0
      BY <2>1, FS_EmptySet
    <3> QED BY <2>6, <3>1, <3>2
  <2>8. Cardinality((K \cup E) \cup U) = Cardinality(K \cup E) + Cardinality(U)
    <3>1. Cardinality((K \cup E) \cup U)
            = Cardinality(K \cup E) + Cardinality(U) - Cardinality((K \cup E) \cap U)
      BY <2>5, FS_Union
    <3>2. Cardinality((K \cup E) \cap U) = 0
      BY <2>1, FS_EmptySet
    <3> QED BY <2>6, <3>1, <3>2
  <2>9. Cardinality(S) = Cardinality(K) + Cardinality(E) + Cardinality(U)
    BY <2>1, <2>7, <2>8
  <2> QED BY <2>2, <2>3, <2>6, <2>9
<1>4. SumFunction(Hours(S)) = totals(S).requests
  BY <1>1, HoursSum DEF totals
<1>5. \A h \in 0..HoursPerDay - 1 :
        SumFunction([d \in 0..DaysPerWeek - 1 |-> DowHours(S)[d][h]]) = Hours(S)[h]
  BY <1>1, WeekdaysSum
<1> QED BY <1>2, <1>3, <1>4, <1>5 DEF Reconciles, S

-----------------------------------------------------------------------------
(* The axis. *)

(* The members of an initial segment are those before its cardinality.      *)
LEMMA Segment ==
  ASSUME NEW n \in Nat, NEW K \in SUBSET (0..n),
         \A k \in K : \A j \in 0..k : j \in K
  PROVE  /\ Cardinality(K) \in Nat
         /\ \A k \in 0..n : k \in K <=> k + 1 \in 1..Cardinality(K)
<1>1. CASE K = {}
  <2>1. Cardinality(K) = 0
    BY <1>1, FS_EmptySet
  <2> QED BY <1>1, <2>1
<1>2. CASE K # {}
  <2>1. PICK x \in K : \A y \in K : y <= x
    <3>1. K \in SUBSET Nat /\ \A y \in K : y <= n
      OBVIOUS
    <3> QED BY <1>2, <3>1, GreatestIn
  <2>2. K = 0..x /\ x \in Nat
    <3>1. x \in Nat /\ \A j \in 0..x : j \in K
      BY <2>1
    <3>2. \A j \in K : j \in 0..x
      BY <2>1
    <3> QED BY <3>1, <3>2
  <2>3. Cardinality(0..x) = x + 1
    BY <2>2, FS_Interval
  <2> QED BY <2>2, <2>3
<1> QED BY <1>1, <1>2

LEMMA LastDayIs == LastDay \in Nat /\ \A d \in Day : d <= LastDay
<1>1. Day = 1..Cardinality(Day) /\ Cardinality(Day) \in Nat
  BY CalendarAssumption, FiniteDays, FS_CardinalityType
<1>2. Wall[Now].day \in Day
  BY Calendar
<1>3. \E x \in Day : \A y \in Day : x >= y
  <2>1. Cardinality(Day) \in Day /\ \A y \in Day : Cardinality(Day) >= y
    BY <1>1, <1>2
  <2> QED BY <2>1
<1>4. LastDay \in Day /\ \A y \in Day : LastDay >= y
  BY <1>3 DEF LastDay, Max
<1> QED BY <1>1, <1>4

(* An entry that is counted is at an hour between the bounds. *)
LEMMA CountedAt ==
  ASSUME Typed, NEW f \in Filters, f.since > 0, f.until >= f.since, NEW m \in Counted(f)
  PROVE  \E t \in Hour :
           /\ f.since \in Hour /\ f.until \in Hour /\ f.since <= t /\ t <= f.until
           /\ Wall[t].day = EntryAt(m).rec.day /\ Wall[t].hour = EntryAt(m).rec.hour
           /\ EntryAt(m).rec.day \in Day
<1> DEFINE r == EntryAt(m).rec
           g == toList(f)
<1>1. f \in Asked /\ f.since \in Nat /\ f.until \in Nat /\ f.until <= LastHour
  <2>1. f \in Asked
    BY FilterType
  <2> QED BY <2>1, RangeAssumption DEF Asked
<1>2. m \in Timed(AllLatest) /\ m \in eachMatch(g) /\ r.epoch > 0
  <2>1. m \in Timed(eachMatch(g)) /\ m \in AllLatest
    BY <1>1, CountedIs
  <2> QED BY <2>1 DEF Timed
<1>3. r \in Record /\ r.day = m[1]
  BY <1>2, RowIs DEF Timed
<1>4. r.epoch \in Hour /\ r.epoch # 0 /\ r.day \in Day
  BY <1>2, <1>3, TimedEntry, Calendar
<1>5. Wall[r.epoch] = [day |-> r.day, hour |-> r.hour]
  BY <1>3, <1>4, CalendarAssumption
<1>7. g.since = f.since /\ g.until = f.until
  BY <1>1 DEF toList, Asked
<1>6. matchIndex(EntryAt(m), g)
  BY <1>2, MatchIs
<1>8. r.epoch >= f.since /\ r.epoch <= f.until
  <2>1. (g.since > 0 => r.epoch >= g.since) /\ (g.until > 0 => r.epoch <= g.until)
    BY <1>2, <1>6 DEF matchIndex, InRange
  <2> QED BY <1>1, <1>7, <2>1
<1>9. f.since \in Hour /\ f.until \in Hour
  <2>1. Hour = 1..LastHour /\ LastHour \in Nat
    <3>1. Hour = 1..Cardinality(Hour) /\ Cardinality(Hour) \in Nat
      BY CalendarAssumption, FS_CardinalityType
    <3>2. LastHour \in Hour /\ \A s \in Hour : s <= LastHour
      BY Calendar
    <3>3. Cardinality(Hour) \in Hour
      BY <3>1, <3>2
    <3>4. LastHour = Cardinality(Hour)
      BY <3>1, <3>2, <3>3
    <3> QED BY <3>1, <3>4
  <2> QED BY <1>1, <2>1
<1>10. Wall[r.epoch].day = r.day /\ Wall[r.epoch].hour = r.hour
  BY <1>5
<1> QED BY <1>4, <1>8, <1>9, <1>10

(* Two hours that the clock calls the same are one it repeats. *)
LEMMA Twice ==
  ASSUME NEW s \in Hour, NEW t \in Hour, s # t, Wall[s] = Wall[t]
  PROVE  Repeated(Wall[t])
<1> DEFINE H == {u \in Hour : Wall[u] = Wall[t]}
<1>1. IsFiniteSet(H)
  <2>1. H \subseteq Hour
    OBVIOUS
  <2> HIDE DEF H
  <2> QED BY <2>1, CalendarAssumption, FS_Subset
<1>2. s \in H /\ t \in H
  OBVIOUS
<1>3. Repeated(Wall[t]) <=> Cardinality(H) > 1
  BY DEF Repeated
<1> HIDE DEF H
<1>4. IsFiniteSet(H \ {s}) /\ Cardinality(H \ {s}) = Cardinality(H) - 1
  BY <1>1, <1>2, FS_RemoveElement
<1>5. Cardinality(H \ {s}) # 0 /\ Cardinality(H \ {s}) \in Nat /\ Cardinality(H) \in Nat
  BY SMTT(20), <1>1, <1>2, <1>4, FS_EmptySet, FS_CardinalityType
<1> QED BY <1>3, <1>4, <1>5

LEMMA OneOrTwo ==
  ASSUME NEW A, IsFiniteSet(A), Cardinality(A) > 1
  PROVE  \E i, j \in A : i # j
<1> SUFFICES ASSUME \A i, j \in A : i = j PROVE FALSE
  OBVIOUS
<1>1. A # {}
  BY FS_EmptySet
<1>2. PICK i \in A : TRUE
  BY <1>1
<1>3. A = {i}
  BY <1>2
<1>4. Cardinality({i}) = 1
  BY FS_Singleton
<1> QED BY <1>3, <1>4

(* The places of an axis that show a key. *)
Places(keys, k) == {i \in DOMAIN keys : keys[i] = k}

LEMMA HourlyAxis ==
  ASSUME NEW a \in Hour, NEW u \in Hour, a <= u, NEW t \in Hour, a <= t, t <= u
  PROVE  /\ Places(timeline(a, u, "hour"), <<Wall[t].day, Wall[t].hour>>) # {}
         /\ Cardinality(Places(timeline(a, u, "hour"), <<Wall[t].day, Wall[t].hour>>)) > 1
              => Repeated([day |-> Wall[t].day, hour |-> Wall[t].hour])
<1> DEFINE keys == timeline(a, u, "hour")
           at == Places(keys, <<Wall[t].day, Wall[t].hour>>)
<1>0. \A i : i \in at <=> i \in DOMAIN keys /\ keys[i] = <<Wall[t].day, Wall[t].hour>>
  BY DEF Places
<1> HIDE DEF at
<1> DEFINE H == {s \in Hour : Wall[s] = Wall[a]}
           s0 == HourStart(a)
<1>1. a \in Nat /\ u \in Nat /\ t \in Nat /\ a > 0 /\ u > 0 /\ Hour \subseteq Nat \ {0}
  BY Calendar
<1>2. s0 \in Hour /\ s0 <= a
  <2>1. H \in SUBSET Nat /\ a \in H
    BY <1>1
  <2>2. s0 = Min(H)
    BY DEF HourStart
  <2> HIDE DEF H
  <2>3. \E x \in H : \A y \in H : x <= y
    BY <2>1, LeastIn
  <2>4. Min(H) \in H /\ \A y \in H : Min(H) <= y
    BY <2>3 DEF Min
  <2> QED BY <2>1, <2>2, <2>4 DEF H
<1> HIDE DEF s0
<1>3. keys = [i \in 1..(u - s0 + 1) |-> <<Wall[s0 + i - 1].day, Wall[s0 + i - 1].hour>>]
  BY <1>1 DEF timeline, s0
<1> HIDE DEF keys
<1>4. ASSUME NEW i \in 1..(u - s0 + 1)
      PROVE  s0 + i - 1 \in Hour
  <2>1. Hour = 1..Cardinality(Hour) /\ Cardinality(Hour) \in Nat
    BY CalendarAssumption, FS_CardinalityType
  <2> QED BY <1>1, <1>2, <2>1
<1>5. t - s0 + 1 \in at
  <2>1. t - s0 + 1 \in 1..(u - s0 + 1) /\ s0 + (t - s0 + 1) - 1 = t
    BY <1>1, <1>2
  <2> QED BY <1>0, <1>3, <2>1
<1>6. at \subseteq 1..(u - s0 + 1)
  <2>1. DOMAIN keys = 1..(u - s0 + 1)
    BY <1>3
  <2> QED BY <1>0, <2>1
<1>7. ASSUME Cardinality(at) > 1 PROVE Repeated([day |-> Wall[t].day, hour |-> Wall[t].hour])
  <2>1. IsFiniteSet(at)
    <3>1. u - s0 + 1 \in Int /\ 1 \in Int
      BY <1>1, <1>2
    <3>2. IsFiniteSet(1..(u - s0 + 1))
      BY <3>1, FS_Interval
    <3> QED BY <1>6, <3>2, FS_Subset
  <2>2. PICK i \in at, j \in at : i # j
    BY <1>7, <2>1, OneOrTwo
  <2>3. /\ i \in 1..(u - s0 + 1) /\ j \in 1..(u - s0 + 1) /\ s0 + i - 1 # s0 + j - 1
        /\ s0 + i - 1 \in Hour /\ s0 + j - 1 \in Hour
    <3>1. i \in 1..(u - s0 + 1) /\ j \in 1..(u - s0 + 1)
      BY <1>6, <2>2
    <3>2. s0 + i - 1 \in Hour /\ s0 + j - 1 \in Hour
      BY <1>4, <3>1
    <3> QED BY <1>1, <1>2, <2>2, <3>1, <3>2
  <2>4. \A k \in at : Wall[s0 + k - 1].day = Wall[t].day /\ Wall[s0 + k - 1].hour = Wall[t].hour
    <3> SUFFICES ASSUME NEW k \in at
                 PROVE  Wall[s0 + k - 1].day = Wall[t].day /\ Wall[s0 + k - 1].hour = Wall[t].hour
      OBVIOUS
    <3>1. k \in DOMAIN keys /\ keys[k] = <<Wall[t].day, Wall[t].hour>>
      BY <1>0
    <3>2. keys[k] = <<Wall[s0 + k - 1].day, Wall[s0 + k - 1].hour>>
      BY <1>3, <3>1
    <3> QED BY <3>1, <3>2
  <2>5. \A x, y \in Hour : Wall[x].day = Wall[y].day /\ Wall[x].hour = Wall[y].hour => Wall[x] = Wall[y]
    BY CalendarAssumption
  <2>6. Wall[t] = [day |-> Wall[t].day, hour |-> Wall[t].hour]
    BY CalendarAssumption
  <2>7. Wall[s0 + i - 1] = Wall[t] /\ Wall[s0 + j - 1] = Wall[t]
    BY <2>2, <2>3, <2>4, <2>5
  <2>8. Repeated(Wall[t])
    BY <2>3, <2>7, Twice
  <2> QED BY <2>6, <2>8
<1> QED BY <1>5, <1>7 DEF at, keys

LEMMA TimesInjective ==
  ASSUME NEW a \in Nat, NEW b \in Nat, NEW w \in Nat \ {0}, a * w = b * w
  PROVE  a = b
OBVIOUS

(* The multiples of w whose day begins by an hour. *)
Steps(first, w, u) == {k \in 0..LastDay : Midnight(first + k * w) <= u}

Stepped(first, w, u) == [i \in 1..Cardinality(Steps(first, w, u)) |-> <<first + (i - 1) * w>>]

(* An axis that steps by w days from a first day shows the day a multiple   *)
(* of w after it exactly once, if an hour within the bound is not before    *)
(* that day.                                                                *)
LEMMA SteppedAxis ==
  ASSUME NEW first \in Nat \ {0}, NEW w \in Nat \ {0}, NEW u \in Hour,
         NEW d \in Nat, d <= Wall[u].day, \E j \in Nat : d = first + j * w
  PROVE  /\ Places(Stepped(first, w, u), <<d>>) # {}
         /\ Cardinality(Places(Stepped(first, w, u), <<d>>)) = 1
<1> DEFINE K == Steps(first, w, u)
           n == Cardinality(K)
           keys == Stepped(first, w, u)
           at == Places(keys, <<d>>)
<1>0. /\ K = {k \in 0..LastDay : Midnight(first + k * w) <= u}
      /\ keys = [i \in 1..n |-> <<first + (i - 1) * w>>]
      /\ \A i : i \in at <=> i \in DOMAIN keys /\ keys[i] = <<d>>
  BY DEF Steps, Stepped, Places
<1> HIDE DEF K, n, keys, at
<1>1. LastDay \in Nat /\ Wall[u].day \in Nat /\ Wall[u].day <= LastDay
  <2>1. Wall[u].day \in Day
    BY Calendar
  <2> QED BY <2>1, LastDayIs, Calendar
<1>2. PICK j \in Nat : d = first + j * w
  OBVIOUS
<1>3. \A k \in Nat : k * w \in Nat
  BY TimesNat
<1>4. \A k \in 0..LastDay : k \in K <=> first + k * w <= Wall[u].day
  <2> SUFFICES ASSUME NEW k \in 0..LastDay PROVE k \in K <=> first + k * w <= Wall[u].day
    OBVIOUS
  <2>1. k \in K <=> Midnight(first + k * w) <= u
    BY <1>0
  <2>2. k \in Nat /\ k * w \in Nat /\ first + k * w \in Int /\ u \in Int
    BY <1>1, <1>3, Calendar
  <2>3. /\ Midnight(first + k * w) \in Int
        /\ u >= Midnight(first + k * w) <=> Wall[u].day >= first + k * w
    BY <2>2, MidnightSeparates
  <2> QED BY <1>1, <2>1, <2>2, <2>3
<1>5. \A k \in K : \A i \in 0..k : i \in K
  <2> SUFFICES ASSUME NEW k \in K, NEW i \in 0..k PROVE i \in K
    OBVIOUS
  <2>1. k \in 0..LastDay /\ i \in 0..LastDay /\ i \in Nat /\ k \in Nat /\ i <= k
    BY <1>0, <1>1
  <2>2. i * w <= k * w /\ i * w \in Nat /\ k * w \in Nat
    BY <1>3, <2>1, Times
  <2>3. first + k * w <= Wall[u].day
    BY <1>4, <2>1
  <2>4. first + i * w <= Wall[u].day
    BY <1>1, <2>2, <2>3
  <2> QED BY <1>4, <2>1, <2>4
<1>6. j \in 0..LastDay
  <2>1. j * 1 <= j * w
    OBVIOUS
  <2>2. j * w \in Nat
    BY <1>3
  <2> QED BY <1>1, <1>2, <2>1, <2>2
<1>7. j \in K
  BY <1>2, <1>4, <1>6
<1>8. n \in Nat /\ \A k \in 0..LastDay : k \in K <=> k + 1 \in 1..n
  <2>1. K \in SUBSET (0..LastDay)
    BY <1>0
  <2> QED BY <1>1, <1>5, <2>1, Segment DEF n
<1>9. ASSUME NEW i \in 1..n, first + (i - 1) * w = d
      PROVE  i = j + 1
  <2>1. i - 1 \in Nat /\ i \in Nat
    BY <1>8
  <2>2. (i - 1) * w \in Nat /\ j * w \in Nat
    BY <1>3, <2>1
  <2>3. (i - 1) * w = j * w
    BY <1>2, <1>9, <2>2
  <2>4. i - 1 = j
    BY <2>1, <2>3, TimesInjective
  <2> QED BY <2>1, <2>4
<1>10. j + 1 \in 1..n /\ first + ((j + 1) - 1) * w = d
  BY <1>2, <1>6, <1>7, <1>8
<1>11. \A i : i \in at <=> i \in 1..n /\ first + (i - 1) * w = d
  BY <1>0
<1>12. at = {j + 1}
  BY <1>9, <1>10, <1>11
<1>13. at # {} /\ Cardinality(at) = 1
  BY <1>12, FS_Singleton
<1> QED BY <1>13 DEF at, keys

(* Weeks begin a number of weeks apart. *)
LEMMA Quotient ==
  ASSUME NEW a \in Nat, NEW w \in Nat \ {0}
  PROVE  /\ a % w = a - w * (a \div w) /\ a \div w \in Nat
         /\ w * (a \div w) \in Nat /\ w * (a \div w) <= a
OBVIOUS

LEMMA Quotients ==
  ASSUME NEW a \in Nat, NEW b \in Nat, a <= b, NEW w \in Nat \ {0}
  PROVE  a \div w <= b \div w
OBVIOUS

LEMMA Spread ==
  ASSUME NEW a \in Nat, NEW b \in Nat, a <= b, NEW w \in Nat
  PROVE  w * b = w * a + (b - a) * w
OBVIOUS

LEMMA Weeks ==
  ASSUME NEW a \in Nat \ {0}, NEW b \in Nat \ {0}, a <= b
  PROVE  /\ weekStart(a) \in Nat \ {0} /\ weekStart(b) \in Nat \ {0} /\ weekStart(b) <= b
         /\ \E j \in Nat : weekStart(b) = weekStart(a) + j * DaysPerWeek
<1> DEFINE w == DaysPerWeek
           x == (a - 1) \div w
           y == (b - 1) \div w
<1>1. w \in Nat \ {0} /\ a - 1 \in Nat /\ b - 1 \in Nat /\ a - 1 <= b - 1
  BY StatsAssumption
<1> HIDE DEF w
<1>2. /\ (a - 1) % w = (a - 1) - w * x /\ x \in Nat /\ w * x \in Nat /\ w * x <= a - 1
      /\ (b - 1) % w = (b - 1) - w * y /\ y \in Nat /\ w * y \in Nat /\ w * y <= b - 1
  BY <1>1, Quotient
<1>3. x <= y
  BY <1>1, Quotients
<1> HIDE DEF x, y
<1>4. weekStart(a) = 1 + w * x /\ weekStart(b) = 1 + w * y
  <2>1. weekStart(a) = a - ((a - 1) % w) /\ weekStart(b) = b - ((b - 1) % w)
    BY DEF weekStart, w
  <2> QED BY <1>1, <1>2, <2>1
<1>5. y - x \in Nat /\ (y - x) * w \in Nat /\ w * y = w * x + (y - x) * w
  <2>1. y - x \in Nat
    BY <1>2, <1>3
  <2> QED BY <1>1, <1>2, <1>3, <2>1, TimesNat, Spread
<1>6. weekStart(b) = weekStart(a) + (y - x) * w
  BY <1>2, <1>4, <1>5
<1> QED BY <1>2, <1>4, <1>5, <1>6 DEF w

LEMMA DailyTimeline ==
  ASSUME NEW a \in Hour, NEW u \in Hour, a <= u
  PROVE  timeline(a, u, "day") = Stepped(Wall[a].day, 1, u)
<1> DEFINE A == Wall[a].day
           n == Cardinality({k \in 0..LastDay : Midnight(A + k) <= u})
<1>1. a > 0 /\ u > 0 /\ a \in Nat /\ u \in Nat
  BY Calendar
<1>2. A \in Nat
  <2>1. A \in Day
    BY Calendar
  <2> QED BY <2>1, Calendar
<1>3. Steps(A, 1, u) = {k \in 0..LastDay : Midnight(A + k) <= u}
  <2>1. \A k \in 0..LastDay : k * 1 = k
    BY LastDayIs
  <2> QED BY <2>1 DEF Steps
<1>4. timeline(a, u, "day") = [i \in 1..n |-> <<A + i - 1>>]
  BY <1>1 DEF timeline
<1>5. n = Cardinality(Steps(A, 1, u))
  BY <1>3
<1> HIDE DEF n, A
<1>6. \A i \in 1..n : A + i - 1 = A + (i - 1) * 1
  BY <1>2
<1>7. [i \in 1..n |-> <<A + i - 1>>] = [i \in 1..n |-> <<A + (i - 1) * 1>>]
  BY <1>6
<1> QED BY <1>4, <1>5, <1>7 DEF Stepped, A

LEMMA WeeklyTimeline ==
  ASSUME NEW a \in Hour, NEW u \in Hour, a <= u
  PROVE  timeline(a, u, "week") = Stepped(weekStart(Wall[a].day), DaysPerWeek, u)
<1>1. a > 0 /\ u > 0 /\ a \in Nat /\ u \in Nat
  BY Calendar
<1> QED BY <1>1 DEF timeline, Steps, Stepped

(* An entry is drawn: once, or once in each of the two hours of one name.   *)
LEMMA EntryDrawn ==
  ASSUME NEW a \in Hour, NEW u \in Hour, NEW t \in Hour, a <= t, t <= u,
         NEW gran \in {"hour", "day", "week"}, NEW e,
         Wall[t].day = e.rec.day, Wall[t].hour = e.rec.hour
  PROVE  /\ Places(timeline(a, u, gran), bucketKey(e, gran)) # {}
         /\ Cardinality(Places(timeline(a, u, gran), bucketKey(e, gran))) > 1 =>
              /\ gran = "hour"
              /\ Repeated([day |-> bucketKey(e, gran)[1], hour |-> bucketKey(e, gran)[2]])
<1> DEFINE D == Wall[t].day
           A == Wall[a].day
           at == Places(timeline(a, u, gran), bucketKey(e, gran))
<1>1. a \in Nat /\ u \in Nat /\ t \in Nat /\ a > 0 /\ u > 0 /\ a <= u
  <2>1. Hour \subseteq Nat \ {0}
    BY Calendar
  <2> QED BY <2>1
<1>2. A \in Nat \ {0} /\ D \in Nat \ {0} /\ A <= D /\ D <= Wall[u].day
  <2>1. A \in Day /\ D \in Day /\ Day \subseteq Nat \ {0}
    BY Calendar
  <2> QED BY <2>1, CalendarAssumption
<1>3. CASE gran = "hour"
  <2>1. bucketKey(e, gran) = <<Wall[t].day, Wall[t].hour>>
    BY <1>3 DEF bucketKey
  <2>2. bucketKey(e, gran)[1] = Wall[t].day /\ bucketKey(e, gran)[2] = Wall[t].hour
    BY <2>1
  <2>3. at = Places(timeline(a, u, "hour"), <<Wall[t].day, Wall[t].hour>>)
    BY <1>3, <2>1
  <2> HIDE DEF at
  <2>4. /\ at # {}
        /\ Cardinality(at) > 1 => Repeated([day |-> Wall[t].day, hour |-> Wall[t].hour])
    BY <1>1, <2>3, HourlyAxis
  <2> QED BY <1>3, <2>2, <2>4 DEF at
<1>4. CASE gran = "day"
  <2>1. at = Places(Stepped(A, 1, u), <<D>>)
    BY <1>1, <1>4, DailyTimeline DEF bucketKey
  <2> HIDE DEF at, A, D
  <2>2. \E j \in Nat : D = A + j * 1
    <3>1. D - A \in Nat /\ D = A + (D - A) * 1
      BY <1>2
    <3> QED BY <3>1
  <2>3. D <= Wall[u].day /\ 1 \in Nat \ {0}
    BY <1>2
  <2>4. at # {} /\ Cardinality(at) = 1
    BY <1>2, <2>1, <2>2, <2>3, SteppedAxis
  <2> QED BY <2>4 DEF at
<1>5. CASE gran = "week"
  <2>1. at = Places(Stepped(weekStart(A), DaysPerWeek, u), <<weekStart(D)>>)
    BY <1>1, <1>5, WeeklyTimeline DEF bucketKey
  <2> HIDE DEF at
  <2>2. weekStart(A) \in Nat \ {0} /\ weekStart(D) \in Nat /\ weekStart(D) <= D
    BY <1>2, Weeks
  <2>3. \E j \in Nat : weekStart(D) = weekStart(A) + j * DaysPerWeek
    BY <1>2, Weeks
  <2>4. weekStart(D) <= Wall[u].day /\ DaysPerWeek \in Nat \ {0}
    <3>1. Wall[u].day \in Nat
      BY Calendar
    <3> QED BY <1>2, <2>2, <3>1, StatsAssumption
  <2>5. at # {} /\ Cardinality(at) = 1
    BY <2>1, <2>2, <2>3, <2>4, SteppedAxis
  <2> QED BY <2>5 DEF at
<1> QED BY <1>3, <1>4, <1>5

LEMMA AxisHolds ==
  ASSUME Typed, NEW f \in Filters
  PROVE  OnTheAxis(f)
<1> DEFINE gran == granularityFor(f.since, f.until)
           keys == timeline(f.since, f.until, gran)
<1>1. gran \in {"hour", "day", "week"}
  BY DEF granularityFor
<1> HIDE DEF gran
<1>2. ASSUME f.since > 0, f.until >= f.since, NEW m \in Counted(f)
      PROVE  /\ Places(keys, bucketKey(EntryAt(m), gran)) # {}
             /\ Cardinality(Places(keys, bucketKey(EntryAt(m), gran))) > 1 =>
                  /\ gran = "hour"
                  /\ Repeated([day |-> bucketKey(EntryAt(m), gran)[1],
                               hour |-> bucketKey(EntryAt(m), gran)[2]])
  <2>1. PICK t \in Hour :
           /\ f.since \in Hour /\ f.until \in Hour /\ f.since <= t /\ t <= f.until
           /\ Wall[t].day = EntryAt(m).rec.day /\ Wall[t].hour = EntryAt(m).rec.hour
    BY <1>2, CountedAt
  <2> QED BY <1>1, <2>1, EntryDrawn
<1> QED BY <1>2 DEF OnTheAxis, gran, Places

(* The statistics lose nothing and count nothing twice: the rows of every   *)
(* breakdown, with the one that sums those cut off, the hours of the day    *)
(* and the weekdays add up to the totals, and every entry that is counted   *)
(* is on the drawn axis, twice only in an hour the clock shows twice: for   *)
(* any archive, calendar, limits and filters.                               *)
THEOREM NothingUncounted == Spec => []BreakdownsAddUp
<1>1. IInv => BreakdownsAddUp
  <2> SUFFICES ASSUME Typed, NEW f \in Filters PROVE Reconciles(f) /\ OnTheAxis(f)
    BY DEF IInv, BreakdownsAddUp
  <2>1. f \in Asked
    BY FilterType
  <2> QED BY <2>1, AllReconcile, AxisHolds
<1> QED BY <1>1, Always, PTL

=============================================================================
