------------------------------- MODULE Query -------------------------------
(***************************************************************************)
(* What the page reads from the archive (query.go, the ranges of server.go *)
(* and archive.go): which entries of the day files a filter shows, in      *)
(* which pages, and which version of a call a detail view opens.           *)
(*                                                                         *)
(* `arc' is the archive as RecordStore gives it to readers: for each day   *)
(* the entries of its index, in order.  An entry stands for its record;    *)
(* `good' says whether the record can be read back, `age' when its line    *)
(* was written: before the index had outcomes and token names ("old"), by  *)
(* an append ("new"), or by a rebuild, which derives the outcome again.    *)
(*                                                                         *)
(* Time is counted in hours: Wall gives the clock of each, and an hour the *)
(* clock shows twice is two hours with one Wall.  0 is no time, and in a   *)
(* filter no bound.  Strings are model data; "" is an absent one.          *)
(***************************************************************************)
EXTENDS Integers, Sequences, FiniteSets, SequencesExt

CONSTANTS
  Record,      \* the records of an instance
  RidDay,      \* the day an id begins with, 0 when it begins otherwise
  Wall,        \* hour -> [day, hour]
  Now,
  SearchDays,  \* SEARCH_DAYS, 0 for no limit
  Span,        \* named range -> days before today it begins
  YearStart,   \* the first day of the year of Now
  Filters,     \* the filters an instance asks
  PageSizes

VARIABLE arc

Hour == DOMAIN Wall
Day == {Wall[t].day : t \in Hour}
LastDay == Max(Day)
LastHour == Max(Hour)

ASSUME CalendarAssumption ==
  /\ IsFiniteSet(Hour) /\ Hour = 1..Cardinality(Hour) /\ Day = 1..Cardinality(Day)
  /\ Wall \in [Hour -> [day : Nat, hour : Nat]]
  /\ \A s, t \in Hour : s <= t => Wall[s].day <= Wall[t].day
  /\ Now \in Hour /\ SearchDays \in Nat /\ YearStart \in Day
  /\ \A r \in Record : IF r.epoch = 0 THEN r.day \in Day
                       ELSE r.epoch \in Hour /\ Wall[r.epoch] = [day |-> r.day, hour |-> r.hour]

(* What a request can ask (listFilter); its "err" is the outcome "error". *)
Outcomes == {"", "ok", "error"}
Filter ==
  [model : STRING, token : STRING, status : Outcomes, stream : {"", "0", "1"}, tool : STRING,
   search : STRING, withTools : BOOLEAN, withErrors : BOOLEAN, since : Nat, until : Nat]

(* The calendar has the times that are asked for; ids and the clock's hours *)
(* are numbered in the order the code compares their strings; a page holds  *)
(* at least one row (server.go:183). *)
ASSUME RangeAssumption ==
  /\ Filters \subseteq Filter
  /\ \A f \in Filters : f.since <= LastHour /\ f.until <= LastHour
  /\ \A name \in DOMAIN Span : Span[name] \in Nat
  /\ \A r \in Record : r.rid \in Nat /\ r.hour \in Nat /\ {r.model, r.token} \subseteq STRING
  /\ PageSizes \subseteq Nat \ {0}

Entry == [rec : Record, good : BOOLEAN, age : {"old", "new", "rebuilt"}]

(* time.Date of a day at midnight; days beyond the instance's calendar are  *)
(* before or after all of it. *)
FirstHour == [d \in Day |-> Min({t \in Hour : Wall[t].day = d})]
Midnight(d) ==
  IF d \in Day THEN FirstHour[d] ELSE IF d < 1 THEN 0 ELSE LastHour + 1

-----------------------------------------------------------------------------
(* The fields of an index line that depend on when it was written. *)
TN(e) == IF e.age = "old" THEN "" ELSE e.rec.token
Outcome(e) ==
  CASE e.age = "old" -> "" [] e.age = "new" -> e.rec.outcome [] OTHER -> e.rec.derived

(* The outcome, or what the HTTP status says, or unknown. *)
entryOutcome(e) == IF Outcome(e) # "" THEN Outcome(e) ELSE e.rec.status

days == {d \in Day : arc[d] # <<>>}

(* The variant takes the last midnight of a day for its end. *)
EndsAtMidnight(d) == Midnight(d)
DayEnd(d) == Midnight(d + 1) - 1

daysInRange(since, until) ==
  {d \in days : /\ since > 0 => DayEnd(d) >= since
                /\ until > 0 => Midnight(d) <= until}

InRange(e, f) ==
  e.rec.epoch > 0 => /\ f.since > 0 => e.rec.epoch >= f.since
                     /\ f.until > 0 => e.rec.epoch <= f.until

TokenMatches(e, f) == f.token # "" => TN(e) = f.token

matchIndex(e, f) ==
  /\ f.model # "" => e.rec.model = f.model
  /\ TokenMatches(e, f)
  /\ f.status # "" => entryOutcome(e) = f.status
  /\ f.stream # "" => e.rec.stream = f.stream
  /\ f.withTools => e.rec.tools # {}
  /\ f.withErrors => e.rec.errors > 0
  /\ InRange(e, f)

(* The last version of each id in the day's file. *)
Latest(d) ==
  {i \in DOMAIN arc[d] :
     \A j \in DOMAIN arc[d] : j > i => arc[d][j].rec.rid # arc[d][i].rec.rid}

EntryAt(m) == arc[m[1]][m[2]]

eachMatch(f) ==
  UNION {{<<d, i>> : i \in {k \in Latest(d) : matchIndex(arc[d][k], f)}} :
           d \in daysInRange(f.since, f.until)}

-----------------------------------------------------------------------------
(* The list. *)

(* Newest first by the clock of the log, then by id. *)
NewerThan(m, n) ==
  LET r == EntryAt(m).rec
      s == EntryAt(n).rec
  IN IF r.day # s.day THEN r.day > s.day
     ELSE IF r.hour # s.hour THEN r.hour > s.hour
     ELSE r.rid > s.rid

(* A set in the order R, a set of pairs: k - 1 members are before the k-th. *)
Sorted(S, R) ==
  [k \in 1..Cardinality(S) |->
     CHOOSE m \in S : Cardinality({n \in S : <<n, m>> \in R}) = k - 1]

NewestFirst(S) == Sorted(S, {p \in S \X S : NewerThan(p[1], p[2])})

candidates(f) == NewestFirst(eachMatch(f))

NeedsBody(f) == f.search # "" \/ f.tool # ""

(* A search reads nothing older than this time SEARCH_DAYS ago. *)
searchWindow(f) ==
  LET ago == {t \in Hour : /\ Wall[t].day = Wall[Now].day - SearchDays
                            /\ Wall[t].hour = Wall[Now].hour}
      floor == IF ago = {} THEN 0 ELSE Min(ago)
  IN IF SearchDays = 0 \/ f.since >= floor THEN f ELSE [f EXCEPT !.since = floor]

BodyMatches(e, f) ==
  /\ e.good
  /\ f.tool # "" => f.tool \in e.rec.tools
  /\ f.search # "" => f.search \in e.rec.words

(* What a search keeps of the candidates stays in their order. *)
matched(f) ==
  IF NeedsBody(f)
  THEN NewestFirst({m \in eachMatch(searchWindow(f)) : BodyMatches(EntryAt(m), f)})
  ELSE candidates(f)

(* Where a page begins; the variant counts pages from 0. *)
ZeroBased(page, size) == page * size
PageStart(page, size) == (page - 1) * size
Clip(n, total) == IF n > total THEN total ELSE n

items(m, page, size) ==
  LET start == Clip(PageStart(page, size), Len(m))
  IN SubSeq(m, start + 1, Clip(start + size, Len(m)))

(* The names the page offers to filter by. *)
tokens(f) == {TN(EntryAt(m)) : m \in Range(matched(f))} \ {""}
models(f) == {EntryAt(m).rec.model : m \in Range(matched(f))} \ {""}

-----------------------------------------------------------------------------
(* get(): the day the id names, then the other days, the newest first; in a *)
(* day the last version that can be read.  The variant starts at the first. *)
Readable(rid) ==
  {m \in UNION {{d} \X DOMAIN arc[d] : d \in days} :
     EntryAt(m).rec.rid = rid /\ EntryAt(m).good}

FirstVersion(m, n) == m[2] < n[2]
LastVersion(m, n) == m[2] > n[2]
TriedBefore(m, n, rid) ==
  IF m[1] = n[1] THEN LastVersion(m, n)
  ELSE m[1] = RidDay[rid] \/ (n[1] # RidDay[rid] /\ m[1] > n[1])

get(rid) ==
  IF Readable(rid) = {} THEN <<>>
  ELSE CHOOSE m \in Readable(rid) :
         \A n \in Readable(rid) \ {m} : TriedBefore(m, n, rid)

-----------------------------------------------------------------------------
(* The range of a statistics request: a named one, or bounds of which       *)
(* either may be missing. *)
earliest(fallback) == IF days = {} THEN fallback ELSE Midnight(Min(days))

EndOfToday == Midnight(Wall[Now].day + 1) - 1

resolveRange(name) ==
  <<IF name = "ytd" THEN Midnight(YearStart)
    ELSE Midnight(Wall[Now].day - Span[name]), EndOfToday>>

CustomRange(since, until) ==
  LET u == IF until = 0 THEN Now ELSE until
  IN <<IF since = 0 THEN earliest(u) ELSE since, u>>

-----------------------------------------------------------------------------
(* What the page promises, for a filter or an entry; Maintenance states the *)
(* properties. *)

Timed(S) == {m \in S : EntryAt(m).rec.epoch > 0}
AllLatest == UNION {{d} \X Latest(d) : d \in days}
Rows(f) == Range(matched(f))
Days(rid) == {d \in days : \E i \in DOMAIN arc[d] : arc[d][i].rec.rid = rid}

(* A walk over every day would show no more.  (Entries without a time are   *)
(* shown with the days the range touches.) *)
WholeRange(f) ==
  Timed(eachMatch(f)) = Timed({m \in AllLatest : matchIndex(EntryAt(m), f)})

OneRowPerCall(f) ==
  \A r, s \in Rows(f) :
    r[1] = s[1] /\ EntryAt(r).rec.rid = EntryAt(s).rec.rid => r = s

OnOnePage(f, size) ==
  LET m == matched(f)
      pages == [p \in 1..Len(m) |-> Range(items(m, p, size))]
  IN \A i \in DOMAIN m : Cardinality({p \in 1..Len(m) : m[i] \in pages[p]}) = 1

(* The version a row was drawn from is the one opened; if it cannot be read *)
(* an older one is. *)
OpensItsRow(m) ==
  LET rid == EntryAt(m).rec.rid IN
  Days(rid) = {m[1]} =>
    /\ EntryAt(m).good => get(rid) = m
    /\ get(rid) = <<>> \/ (get(rid)[1] = m[1] /\ get(rid)[2] <= m[2])

OptionsFind(f) ==
  /\ \A t \in tokens(f) : matched([f EXCEPT !.token = t]) # <<>>
  /\ \A n \in models(f) : matched([f EXCEPT !.model = n]) # <<>>
=============================================================================
