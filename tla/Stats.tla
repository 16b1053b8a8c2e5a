------------------------------- MODULE Stats -------------------------------
(***************************************************************************)
(* The statistics page (stats.go): the entries a filter shows, folded into *)
(* totals, a time series and four breakdowns.  The amounts summed beside   *)
(* the number of requests (tokens, latencies, cached and reasoning tokens) *)
(* are all summed as `quota' is, which stands for them.                    *)
(***************************************************************************)
EXTENDS Query

CONSTANTS
  HoursPerDay, HourlyMaxDays, DailyMaxDays, DaysPerWeek,
  ChannelNames, \* channel -> its name, for those the resolver knows
  ModelLimit, ChanLimit, TokenLimit,
  OrderOf      \* a total order of names: name -> rank

(* The names rows of the breakdowns can have. *)
Named == UNION {{r.model, r.token, r.up} : r \in Record}
RowNames ==
  {"(unknown)", "(unnamed)", "(no channel)", "#"} \cup Range(ChannelNames)
    \cup (Named \ {""})

(* Names compare as strings do.  What is summed are numbers, and a call     *)
(* succeeded, failed, or is not known to have done either.                  *)
ASSUME NamesAssumption ==
  /\ RowNames \subseteq DOMAIN OrderOf /\ IsInjective(OrderOf) /\ Range(OrderOf) \subseteq Nat
  /\ \A r \in Record : /\ r.quota \in Int /\ r.hour < HoursPerDay
                        /\ {r.outcome, r.derived, r.status} \subseteq Outcomes

ASSUME StatsAssumption ==
  /\ {HoursPerDay, DaysPerWeek} \subseteq Nat \ {0}
  /\ HourlyMaxDays \in Nat /\ DailyMaxDays \in Nat
  /\ {ModelLimit, ChanLimit, TokenLimit} \subseteq Nat

(* toList: no search, and none of the filters a statistics page lacks. *)
toList(f) == [f EXCEPT !.search = "", !.tool = "", !.status = "", !.withTools = FALSE,
                       !.withErrors = FALSE]

(* Entries without a time are counted apart; the variant counts them in.    *)
Everything(S) == S
Placeable(S) == Timed(S)
Counted(f) == Placeable(eachMatch(toList(f)))
UnknownTime(f) == Cardinality({m \in eachMatch(toList(f)) : EntryAt(m).rec.epoch <= 0})

QuotaOf(m) == EntryAt(m).rec.quota
SumQuota(S) == SumFunction([m \in S |-> QuotaOf(m)])
With(S, outcome) == {m \in S : entryOutcome(EntryAt(m)) = outcome}

totals(S) ==
  [requests |-> Cardinality(S), quota |-> SumQuota(S),
   ok |-> Cardinality(With(S, "ok")), err |-> Cardinality(With(S, "error"))]

Unknown(f) == Cardinality(With(Counted(f), ""))

-----------------------------------------------------------------------------
(* The time series. *)

(* Rounded up: the bounds are inclusive. *)
granularityFor(since, until) ==
  LET width == (until - since + HoursPerDay - 1) \div HoursPerDay
  IN IF width <= HourlyMaxDays THEN "hour"
     ELSE IF width <= DailyMaxDays THEN "day"
     ELSE "week"

(* The first day of a day's week. *)
weekStart(d) == d - ((d - 1) % DaysPerWeek)

(* The bucket of an entry comes from the clock of the log, not its epoch. *)
bucketKey(e, gran) ==
  CASE gran = "hour" -> <<e.rec.day, e.rec.hour>>
    [] gran = "week" -> <<weekStart(e.rec.day)>>
    [] OTHER -> <<e.rec.day>>

(* time.Date of an hour the clock shows twice is one of the two. *)
HourStart(t) == Min({s \in Hour : Wall[s] = Wall[t]})

timeline(since, until, gran) ==
  IF since <= 0 \/ until <= 0 \/ until < since THEN <<>>
  ELSE CASE gran = "hour" ->
              [i \in 1..(until - HourStart(since) + 1) |->
                 LET w == Wall[HourStart(since) + i - 1] IN <<w.day, w.hour>>]
         [] gran = "week" ->
              LET first == weekStart(Wall[since].day)
                  n == Cardinality({k \in 0..LastDay : Midnight(first + k * DaysPerWeek) <= until})
              IN [i \in 1..n |-> <<first + (i - 1) * DaysPerWeek>>]
         [] OTHER ->
              LET first == Wall[since].day
                  n == Cardinality({k \in 0..LastDay : Midnight(first + k) <= until})
              IN [i \in 1..n |-> <<first + i - 1>>]

buckets(f, gran) ==
  LET keys == {bucketKey(EntryAt(m), gran) : m \in Counted(f)}
  IN [k \in keys |-> totals({m \in Counted(f) : bucketKey(EntryAt(m), gran) = k})]

(* Without bounds the axis is the keys there are. *)
axis(f, gran) ==
  LET keys == timeline(f.since, f.until, gran)
  IN IF keys # <<>> THEN Range(keys) ELSE DOMAIN buckets(f, gran)
series(f) == axis(f, granularityFor(f.since, f.until))

(* The hours, and the weekdays by hours, of the day. *)
Hours(S) == [h \in 0..HoursPerDay - 1 |-> Cardinality({m \in S : EntryAt(m).rec.hour = h})]
DowHours(S) ==
  [d \in 0..DaysPerWeek - 1 |->
     Hours({m \in S : (EntryAt(m).rec.day - 1) % DaysPerWeek = d})]

-----------------------------------------------------------------------------
(* The breakdowns: one row a name (that of a token shows no outcomes), ... *)

ModelRow(e) == IF e.rec.model = "" THEN "(unknown)" ELSE e.rec.model
TokenRow(e) == IF TN(e) = "" THEN "(unnamed)" ELSE TN(e)
ChanRow(e) ==
  IF e.rec.chan # 0
  THEN IF e.rec.chan \in DOMAIN ChannelNames THEN ChannelNames[e.rec.chan] ELSE "#"
  ELSE IF e.rec.up # "" THEN e.rec.up ELSE "(no channel)"

RowsBy(name) ==
  {[name |-> n, sum |-> totals({m \in DOMAIN name : name[m] = n})] : n \in Range(name)}
ByModel(S) == RowsBy([m \in S |-> ModelRow(EntryAt(m))])
ByChan(S) == RowsBy([m \in S |-> ChanRow(EntryAt(m))])
ByToken(S) == RowsBy([m \in S |-> TokenRow(EntryAt(m))])

(* ... ranked by requests, or for tokens by quota and then requests, ...    *)
ByRequests(a, b) ==
  IF a.sum.requests # b.sum.requests THEN a.sum.requests > b.sum.requests
  ELSE OrderOf[a.name] < OrderOf[b.name]
ByQuota(a, b) ==
  IF a.sum.quota # b.sum.quota THEN a.sum.quota > b.sum.quota ELSE ByRequests(a, b)

(* ... and cut at a limit, behind which one more row has the sums of the    *)
(* rest.  The variant loses the first of the rest.                          *)
SumRows(rows) ==
  [k \in {"requests", "quota", "ok", "err"} |->
     SumFunction([i \in DOMAIN rows |-> rows[i].sum[k]])]
AfterNext(rows, limit) == SubSeq(rows, limit + 2, Len(rows))
Rest(rows, limit) == SubSeq(rows, limit + 1, Len(rows))
folded(rows, limit) ==
  IF Len(rows) <= limit THEN rows
  ELSE Append(SubSeq(rows, 1, limit), [name |-> "other", sum |-> SumRows(Rest(rows, limit))])

Busiest(rows) == Sorted(rows, {p \in rows \X rows : ByRequests(p[1], p[2])})
Dearest(rows) == Sorted(rows, {p \in rows \X rows : ByQuota(p[1], p[2])})
foldModels(S) == folded(Busiest(ByModel(S)), ModelLimit)
foldChans(S) == folded(Busiest(ByChan(S)), ChanLimit)
foldTokens(S) == folded(Dearest(ByToken(S)), TokenLimit)

-----------------------------------------------------------------------------
(* What the page promises, for a filter; Maintenance states the properties. *)

Reconciles(f) ==
  LET S == Counted(f)
      sum == totals(S)
  IN /\ \A rows \in {foldModels(S), foldChans(S), foldTokens(S)} : SumRows(rows) = sum
     /\ Unknown(f) = sum.requests - sum.ok - sum.err
     /\ SumFunction(Hours(S)) = sum.requests
     /\ \A h \in 0..HoursPerDay - 1 :
          SumFunction([d \in 0..DaysPerWeek - 1 |-> DowHours(S)[d][h]]) = Hours(S)[h]

(* The list has the requests and the calls without a time; its outcome      *)
(* filter finds what the page counts under that outcome; following a        *)
(* token's row lists the calls of the row.                                  *)
AgreesWithList(f) ==
  LET g == toList(f)
      S == Counted(f)
  IN /\ Len(matched(g)) = Cardinality(S) + UnknownTime(f)
     /\ \A o \in {"ok", "error"} :
          Cardinality(Timed(Rows([g EXCEPT !.status = o]))) = Cardinality(With(S, o))
     /\ \A row \in Range(foldTokens(S)) :
          row.name \notin {"other", "(unnamed)"} /\ f.token = "" =>
            Cardinality(Timed(Rows([g EXCEPT !.token = row.name]))) = row.sum.requests

(* The hourly axis steps by elapsed hours, and draws the bucket of an hour  *)
(* the clock shows twice once for each of them (stats.go:334-336).          *)
Repeated(w) == Cardinality({t \in Hour : Wall[t] = w}) > 1
OnTheAxis(f) ==
  LET gran == granularityFor(f.since, f.until)
      keys == timeline(f.since, f.until, gran)
  IN f.since > 0 /\ f.until >= f.since =>
       \A m \in Counted(f) :
         LET k == bucketKey(EntryAt(m), gran)
             at == {i \in DOMAIN keys : keys[i] = k}
         IN /\ at # {}
            /\ Cardinality(at) > 1 =>
                 gran = "hour" /\ Repeated([day |-> k[1], hour |-> k[2]])

NoLowerBound(until) ==
  LET r == CustomRange(0, until)
  IN \A m \in Timed(AllLatest) : EntryAt(m).rec.epoch <= r[2] => EntryAt(m).rec.epoch >= r[1]

NamedDays(name) ==
  LET r == resolveRange(name)
      first == IF name = "ytd" THEN YearStart ELSE Wall[Now].day - Span[name]
  IN \A m \in Timed(AllLatest) :
       (EntryAt(m).rec.epoch \in r[1]..r[2]) <=> EntryAt(m).rec.day \in first..Wall[Now].day
=============================================================================
