------------------------------- MODULE Parser -------------------------------
(***************************************************************************)
(* How the lines of one call become its record (logparse.go), and what     *)
(* -repair and -reindex later make of the record (repair.go, reindex.go).  *)
(*                                                                         *)
(* The ingester reads a call's lines over any number of passes: a line is  *)
(* merged as it is read, and after the lines of a pass `finalize' derives  *)
(* the fields again from everything seen so far and drops the chunks.  A   *)
(* line may never be read (the head of a call after a restart, an entry    *)
(* over maxEntry); the others are read once, in the order of the file.     *)
(* Ingester has the passes themselves.                                     *)
(*                                                                         *)
(* A text is a sequence of the pieces it came in, and so are the arguments *)
(* of a tool call: those in Values are the ones that parse.  A field that  *)
(* may be absent is a sequence of at most one.  Visible text stands for    *)
(* reasoning text too, a call's name for its id and type; the fields a     *)
(* line merely sets (path, latency, stream_end, preview) are left out.     *)
(***************************************************************************)
EXTENDS Integers, Sequences, FiniteSets, SequencesExt

CONSTANTS
  Scripts,     \* the calls: sequences of lines
  Usages,      \* the token counts their lines report
  Values,      \* argument strings that are one JSON value
  MaxSamples   \* how many unknown chunks are kept

VARIABLES
  left,    \* lines not read yet
  lines,   \* history: the lines read
  rec,     \* the record
  dirty    \* lines have been read since finalize

vars == <<left, lines, rec, dirty>>

Valid(args) == args \in Values
NoIndex == -1

(* What a line can say.  Names are empty where a wire leaves them out; of   *)
(* an Anthropic block only the opener has one, and it has no arguments.     *)
Name == {""} \cup STRING
AtMostOne(S) == {s \in Seq(S) : Len(s) <= 1}
Fragment == [idx : Nat \cup {NoIndex}, name : Name, args : Seq(STRING)]
Event == [open : {TRUE}, idx : Nat, name : Name, args : {<<>>}]
         \cup [open : {FALSE}, idx : Nat, name : {""}, args : Seq(STRING)]
ChunkLine == [kind : {"chunk"}, class : {"payload", "unknown", "empty"}, text : Seq(STRING),
              frags : Seq(Fragment), whole : Seq(Fragment), anth : Seq(Event),
              usage : AtMostOne(Usages)]
RequestBody == [messages : Seq(STRING), contents : Seq([role : STRING, result : BOOLEAN]),
                tools : Nat, declared : Nat, stream : BOOLEAN]
ResponseBody == [calls : SUBSET STRING, usage : AtMostOne(Usages)]
BillingBody == [stream : Name, usage : AtMostOne(Usages)]
Line == ChunkLine \cup [kind : {"gin"}, status : Nat] \cup [kind : {"error"}]
        \cup [kind : {"request"}, body : AtMostOne(RequestBody)]
        \cup [kind : {"response"}, body : AtMostOne(ResponseBody)]
        \cup [kind : {"billing"}, body : AtMostOne(BillingBody)]

NoTools == [calls |-> <<>>, last |-> 0, seen |-> FALSE]

blank ==
  [request |-> <<>>, response |-> <<>>, billing |-> <<>>, billed |-> FALSE, status |-> 0,
   errors |-> 0, stalled |-> FALSE, chunks |-> <<>>, saw |-> FALSE, count |-> 0,
   samples |-> 0, unknown |-> 0, tacc |-> NoTools, anth |-> <<>>,
   text |-> <<>>, calls |-> <<>>, called |-> {}, usage |-> <<>>, stream |-> FALSE,
   msgs |-> 0, turns |-> 0, tools |-> 0, outcome |-> <<"", "">>]

-----------------------------------------------------------------------------
(* Tool calls that arrive in fragments, joined by their index. *)

Positions(calls, idx) == {i \in DOMAIN calls : calls[i].idx = idx}
The(S) == CHOOSE x \in S : TRUE
NameAt(calls, idx) ==
  IF Positions(calls, idx) = {} THEN "" ELSE calls[The(Positions(calls, idx))].name

(* A fragment without an index belongs to the call being streamed, unless   *)
(* it names another tool. *)
IndexOf(acc, frag) ==
  CASE frag.idx # NoIndex -> frag.idx
    [] frag.idx = NoIndex /\ ~acc.seen -> 0
    [] OTHER -> IF frag.name # "" /\ NameAt(acc.calls, acc.last) \notin {"", frag.name}
                THEN acc.last + 1 ELSE acc.last

add(acc, frag) ==
  LET idx == IndexOf(acc, frag)
      calls == IF Positions(acc.calls, idx) # {} THEN acc.calls
               ELSE Append(acc.calls, [idx |-> idx, name |-> "", args |-> <<>>])
      i == The(Positions(calls, idx))
  IN [calls |-> [calls EXCEPT ![i].name = IF frag.name # "" THEN frag.name ELSE @,
                              ![i].args = @ \o frag.args],
      last |-> idx, seen |-> TRUE]

(* A call that arrived whole takes the next free index. *)
addWhole(acc, call) ==
  add(acc, [call EXCEPT !.idx = Max({-1} \cup {c.idx : c \in Range(acc.calls)}) + 1])

(* Anthropic opens a block with the name and then sends arguments; a block  *)
(* whose opener was never read keeps them under no name. *)
applyAnthropic(calls, ev) ==
  LET known == Positions(calls, ev.idx) # {}
      i == The(Positions(calls, ev.idx))
      call == [idx |-> ev.idx, name |-> ev.name, args |-> ev.args]
  IN IF ~known THEN Append(calls, call)
     ELSE IF ev.open THEN [calls EXCEPT ![i] = call]
     ELSE [calls EXCEPT ![i].args = @ \o ev.args]

-----------------------------------------------------------------------------
(* Token accounting: each wire's counts as one usage, a function of the     *)
(* counts that are known; and two of them as one.  Cached and reasoning     *)
(* tokens come in structs of details that may be there without the count.   *)
Blank == -1
Details == {"cached", "reasoning"}

Count(n, k) == IF k \in DOMAIN n THEN n[k] ELSE 0

anthropicUsage(n) ==
  LET cached == Count(n, "read") + Count(n, "write")
      prompt == Count(n, "in") + cached
      out == Count(n, "out")
      known == {"prompt"} \cup (IF cached > 0 THEN {"cached"} ELSE {})
               \cup (IF "out" \in DOMAIN n THEN {"completion", "total"} ELSE {})
  IN Restrict([prompt |-> prompt, cached |-> cached, completion |-> out,
               total |-> prompt + out], known)

geminiUsage(n) ==
  LET from == [prompt |-> {"prompt", "toolUse"}, completion |-> {"candidates", "thoughts"},
               reasoning |-> {"thoughts"}, cached |-> {"cached"}, total |-> {"total"}]
      value == [prompt |-> Count(n, "prompt") + Count(n, "toolUse"),
                completion |-> Count(n, "candidates") + Count(n, "thoughts"),
                reasoning |-> Count(n, "thoughts"), cached |-> Count(n, "cached"),
                total |-> Count(n, "total")]
  IN Restrict(value, {k \in DOMAIN from : from[k] \cap DOMAIN n # {}})

toUsage(raw) ==
  CASE raw.wire = "anthropic" -> anthropicUsage(raw.n)
    [] raw.wire = "gemini" -> geminiUsage(raw.n)
    [] OTHER -> raw.n

(* The larger prompt, the later of the other counts, the total from both; a *)
(* later struct without its count takes the place of an earlier one.  The   *)
(* variant takes the later usage whole.                                     *)
LaterWhole(old, next) == next
Merged(old, next) ==
  LET known == DOMAIN old \cup DOMAIN next
      both == {"prompt", "completion"} \subseteq known
      later(k) == IF k \in DOMAIN next THEN next[k] ELSE old[k]
      larger == IF Count(next, "prompt") < Count(old, "prompt") THEN old["prompt"]
                ELSE later("prompt")
  IN [k \in known \cup (IF both THEN {"total"} ELSE {}) |->
        CASE k = "prompt" -> larger
          [] k = "total" /\ both -> larger + later("completion")
          [] OTHER -> later(k)]

mergeUsage(old, next) ==
  IF old = <<>> THEN next
  ELSE IF next = <<>> THEN old
  ELSE <<Merged(old[1], next[1])>>

UsageOf(body) == IF body = <<>> \/ body[1].usage = <<>> THEN <<>>
                 ELSE <<toUsage(body[1].usage[1])>>

ASSUME ParserAssumption ==
  /\ MaxSamples \in Nat
  /\ \A u \in Usages : \A k \in DOMAIN u.n :
       \/ u.n[k] \in Nat
       \/ u.n[k] = Blank /\ k \in Details /\ u.wire \notin {"anthropic", "gemini"}
  /\ \A s \in Scripts : s \in Seq(Line)

-----------------------------------------------------------------------------
(* One line. *)

Chunk(r, ch) ==
  CASE ch.class = "payload" ->
         [r EXCEPT !.anth = FoldLeft(applyAnthropic, @, ch.anth),
                   !.chunks = Append(@, ch), !.count = @ + 1]
    [] ch.class = "unknown" ->
         [r EXCEPT !.samples = IF @ < MaxSamples THEN @ + 1 ELSE @, !.unknown = @ + 1]
    [] OTHER -> r

handleLine(r, l) ==
  CASE l.kind = "gin" -> [r EXCEPT !.status = l.status]
    [] l.kind = "request" -> [r EXCEPT !.request = l.body]
    [] l.kind = "response" -> [r EXCEPT !.response = l.body]
    [] l.kind = "billing" -> [r EXCEPT !.billing = l.body, !.billed = TRUE]
    [] l.kind = "error" -> [r EXCEPT !.errors = @ + 1]
    [] OTHER -> Chunk(r, l)

-----------------------------------------------------------------------------
(* The derived fields. *)

(* Gemini's contents as messages. *)
fromGemini(body) ==
  IF body.messages # <<>> THEN body.messages
  ELSE [i \in DOMAIN body.contents |->
          CASE body.contents[i].role = "model" -> "assistant"
            [] body.contents[i].role # "model" /\ body.contents[i].result -> "tool"
            [] OTHER -> body.contents[i].role]

Turns(messages) == Cardinality({i \in DOMAIN messages : messages[i] = "assistant"})
Names(calls) == {c.name : c \in Range(calls)} \ {""}

(* The evidence, strongest first. *)
deriveOutcome(r) ==
  LET bill == IF r.billing = <<>> THEN "" ELSE r.billing[1].stream IN
  CASE r.status # 0 -> <<IF r.status < 400 THEN "ok" ELSE "error", "http">>
    [] r.status = 0 /\ bill # "" -> <<bill, "stream_status">>
    [] r.status = 0 /\ bill = "" /\ (r.billed \/ r.billing # <<>>) -> <<"ok", "billed">>
    [] OTHER -> IF r.stalled THEN <<"error", "stalled">>
                ELSE IF r.errors > 0 THEN <<"error", "logged_error">>
                ELSE <<"", "">>

(* A chunk's usage, text and tool fragments go on from what earlier passes  *)
(* left; the response's usage counts only for a call that never streamed.   *)
foldChunk(r, ch) ==
  [r EXCEPT !.text = @ \o ch.text,
            !.tacc = FoldLeft(addWhole, FoldLeft(add, @, ch.frags), ch.whole),
            !.usage = mergeUsage(@, UsageOf(<<ch>>))]
Streamed(r) ==
  IF r.chunks # <<>> THEN [FoldLeft(foldChunk, r, r.chunks) EXCEPT !.saw = TRUE]
  ELSE IF ~r.saw THEN [r EXCEPT !.usage = UsageOf(r.response)]
  ELSE r

(* The joined calls replace those of the pass before; the variant appends   *)
(* them. *)
AppendedCalls(calls, r) == calls \o r.tacc.calls \o r.anth
JoinedCalls(calls, r) ==
  IF r.anth # <<>> THEN r.anth ELSE IF r.tacc.calls # <<>> THEN r.tacc.calls ELSE calls

finalize(r) ==
  LET s == Streamed(r)
      calls == JoinedCalls(r.calls, s)
      body == IF r.request = <<>> THEN [messages |-> <<>>, contents |-> <<>>, tools |-> 0,
                                        declared |-> 0, stream |-> FALSE]
              ELSE r.request[1]
      messages == fromGemini(body)
      stream == body.stream \/ s.saw
  IN [s EXCEPT
        !.calls = calls,
        !.usage = IF @ = <<>> THEN UsageOf(r.billing) ELSE @,
        !.stream = stream,
        !.called = IF stream THEN Names(calls)
                   ELSE IF r.response = <<>> THEN {} ELSE r.response[1].calls,
        !.msgs = Len(messages), !.turns = Turns(messages),
        !.tools = body.tools + body.declared,
        !.outcome = deriveOutcome(r),
        !.chunks = <<>>]

(* For a record whose bodies are assembled; the variant derives everything. *)
FinalizedAgain(r) == finalize(r)
refreshOutcome(r) == [r EXCEPT !.outcome = deriveOutcome(r)]

-----------------------------------------------------------------------------
(* The archived record: what is not written to it. *)
Archived(r) == [r EXCEPT !.tacc = NoTools, !.anth = <<>>, !.saw = FALSE, !.billed = FALSE]

(* -repair: calls that are fragments are joined, the arguments cut back to  *)
(* one value where lines were read twice, the counts taken from the request *)
(* again.  The variant of `fragmented' looks at the names only, that of     *)
(* recountFrom adds to the count there is.                                  *)
NamelessOnly(calls) == \E c \in Range(calls) : c.name = "" /\ c.args # <<>>
fragmented(calls) ==
  \E c \in Range(calls) : c.args # <<>> /\ (c.name = "" \/ ~Valid(c.args))

Cut(s, from, to) == SubSeq(s, 1, from) \o SubSeq(s, to + 1, Len(s))

(* A value and a tail; a cut-off start and the whole value; or a stretch in *)
(* the middle that is there twice, the longest of the first place (the      *)
(* bounds of the search, 4 KB and 512 candidates, are left out).            *)
trimReread(args) ==
  LET n == Len(args)
      tailed == {i \in 1..n : Valid(SubSeq(args, 1, i))}
      restarted == {i \in 1..n - 1 : /\ IsPrefix(SubSeq(args, 1, i), Cut(args, 0, i))
                                     /\ Valid(Cut(args, 0, i))}
      again(s, k) == /\ k <= s /\ s + k <= n
                     /\ SubSeq(args, s - k + 1, s) = SubSeq(args, s + 1, s + k)
                     /\ Valid(Cut(args, s - k, s))
      spliced == {p \in (1..n - 1) \X (1..n) : again(p[1], p[2])}
      first == Min({p[1] : p \in spliced})
      longest == Max({p[2] : p \in {q \in spliced : q[1] = first}})
  IN IF args = <<>> \/ Valid(args) THEN args
     ELSE IF tailed # {} THEN SubSeq(args, 1, Min(tailed))
     ELSE IF restarted # {} THEN Cut(args, 0, Min(restarted))
     ELSE IF spliced # {} THEN Cut(args, first - longest, first)
     ELSE args

CountedAgain(r) ==
  IF r.request = <<>> THEN r
  ELSE [r EXCEPT !.msgs = @ + Len(r.request[1].messages)]
recountFrom(r) ==
  IF r.request = <<>> THEN r
  ELSE LET body == r.request[1]
       IN [r EXCEPT !.msgs = Len(body.messages), !.turns = Turns(body.messages),
                    !.tools = body.tools]

Rejoined(calls) ==
  LET joined == FoldLeft(add, NoTools, calls).calls
  IN IF Len(calls) > 1 /\ fragmented(calls) /\ Len(joined) < Len(calls)
     THEN [i \in DOMAIN joined |-> [joined[i] EXCEPT !.args = trimReread(@)]]
     ELSE calls

repairRecord(r) ==
  LET calls == Rejoined(r.calls)
  IN [recountFrom(r) EXCEPT !.calls = calls,
                            !.called = IF r.stream THEN Names(calls) ELSE @]

-----------------------------------------------------------------------------
Init == left \in Scripts /\ lines = <<>> /\ rec = blank /\ dirty = FALSE

Read ==
  /\ left # <<>> /\ left' = Tail(left)
  /\ lines' = Append(lines, Head(left))
  /\ rec' = handleLine(rec, Head(left)) /\ dirty' = TRUE

(* A line that is never read. *)
Miss ==
  /\ left # <<>> /\ left' = Tail(left)
  /\ UNCHANGED <<lines, rec, dirty>>

EndPass ==
  /\ dirty /\ rec' = finalize(rec) /\ dirty' = FALSE
  /\ UNCHANGED <<left, lines>>

(* The ingester's deadline passes for a call without a completion marker,   *)
(* and the record it could not store yet is held for more lines to come.    *)
Stall ==
  /\ ~dirty /\ lines # <<>> /\ ~rec.stalled /\ rec.status = 0 /\ ~rec.billed
  /\ rec' = refreshOutcome([rec EXCEPT !.stalled = TRUE])
  /\ UNCHANGED <<left, lines, dirty>>

Next == Read \/ Miss \/ EndPass \/ Stall
Spec == Init /\ [][Next]_vars

-----------------------------------------------------------------------------
(* The usage a billing line has counts for a call that reported none, and   *)
(* that of a response for a call that did not stream.  Lines in order are   *)
(* those where no chunk takes either back: after a billing line that has    *)
(* one no chunk reports another, and no second billing line comes.  Nothing *)
(* makes new-api keep to it (ingest.go:43-46, 195-203).                     *)
Payload(l) == l.kind = "chunk" /\ l.class = "payload"
Reports(l, kind) == l.kind = kind /\ UsageOf(l.body) # <<>>
MayFollow(l, next) ==
  /\ Reports(l, "response") => ~Payload(next)
  /\ Reports(l, "billing") =>
       next.kind # "billing" /\ (Payload(next) => next.usage = <<>>)
InOrder(s) == \A i, j \in DOMAIN s : i < j => MayFollow(s[i], s[j])

(* The record does not depend on how the reads cut the call up: after a     *)
(* pass it is the record one pass over the same lines would make            *)
(* (logparse.go:1384-1388, 1412-1414, 1461-1466, 1542-1543).  Of lines that *)
(* are not in order all but the usage is: a pass that ends between a        *)
(* billing line and a usage chunk that trails it counts the tokens of both, *)
(* and which of the two a record has is up to when the passes run.          *)
InOnePass ==
  finalize([FoldLeft(handleLine, blank, lines) EXCEPT !.stalled = rec.stalled])
ButUsage(r) == [r EXCEPT !.usage = <<>>]
OnePass ==
  ~dirty /\ lines # <<>> =>
    /\ ButUsage(rec) = ButUsage(InOnePass)
    /\ InOrder(lines) => rec.usage = InOnePass.usage

(* The record says what the lines said.  Chunks: their text in order and    *)
(* their number, and the number of those that were not understood.  A tool  *)
(* call sent under an index: the last name given and every piece of its     *)
(* arguments, from its opener on.  Usage: the largest prompt and the last   *)
(* of each other count, for a stream in order that reported any.            *)
thenText(said, l) == IF Payload(l) THEN said \o l.text ELSE said
thenFrags(said, l) == IF Payload(l) THEN said \o l.frags ELSE said
thenWhole(said, l) == IF Payload(l) THEN said \o l.whole ELSE said
thenEvents(said, l) == IF Payload(l) THEN said \o l.anth ELSE said
thenUsage(said, l) ==
  IF Payload(l) /\ l.usage # <<>> THEN Append(said, toUsage(l.usage[1])) ELSE said
Text == FoldLeft(thenText, <<>>, lines)
Sent == FoldLeft(thenFrags, <<>>, lines)
Whole == FoldLeft(thenWhole, <<>>, lines)
Events == FoldLeft(thenEvents, <<>>, lines)
Reported == FoldLeft(thenUsage, <<>>, lines)
LinesOf(class) == {i \in DOMAIN lines : lines[i].kind = "chunk" /\ lines[i].class = class}

Nothing(idx) == [idx |-> idx, name |-> "", args |-> <<>>]
thenFrag(call, f) ==
  IF f.idx # call.idx THEN call
  ELSE [call EXCEPT !.name = IF f.name # "" THEN f.name ELSE @, !.args = @ \o f.args]
thenEvent(call, ev) ==
  IF ev.idx # call.idx THEN call
  ELSE IF ev.open THEN [call EXCEPT !.name = ev.name, !.args = <<>>]
  ELSE [call EXCEPT !.args = @ \o ev.args]
Said(frags, idx) == FoldLeft(thenFrag, Nothing(idx), frags)
SaidByEvents(events, idx) == FoldLeft(thenEvent, Nothing(idx), events)
OneCallEach(calls) == \A i, j \in DOMAIN calls : calls[i].idx = calls[j].idx => i = j
Indexed == \A f \in Range(Sent) : f.idx # NoIndex

Telling(k) == {i \in DOMAIN Reported : k \in DOMAIN Reported[i]}
UsageSays(u) ==
  /\ DOMAIN u \cup {"total"}
       = (UNION {DOMAIN Reported[i] : i \in DOMAIN Reported}) \cup {"total"}
  /\ \A k \in DOMAIN u \ {"total"} :
       u[k] = IF k = "prompt" THEN Max({Reported[i][k] : i \in Telling(k)})
              ELSE Reported[Max(Telling(k))][k]
LinesAreKept ==
  ~dirty =>
    /\ rec.text = Text
    /\ rec.count = Cardinality(LinesOf("payload"))
    /\ rec.unknown = Cardinality(LinesOf("unknown"))
    /\ Indexed /\ Whole = <<>> /\ Events = <<>> =>
         /\ OneCallEach(rec.calls)
         /\ Range(rec.calls) = {Said(Sent, f.idx) : f \in Range(Sent)}
    /\ Events # <<>> =>
         /\ OneCallEach(rec.calls)
         /\ Range(rec.calls) = {SaidByEvents(Events, ev.idx) : ev \in Range(Events)}
    /\ Sent = <<>> /\ Events = <<>> =>
         /\ Len(rec.calls) = Len(Whole)
         /\ \A i \in DOMAIN Whole : rec.calls[i] = [Whole[i] EXCEPT !.idx = i - 1]
    /\ InOrder(lines) /\ Reported # <<>> => UsageSays(rec.usage[1])

(* -reindex derives from the archived record the outcome the parser gave it *)
(* and leaves every other field alone (logparse.go:1576-1585), unless the   *)
(* record's billing line was cut, which only the parser saw.                *)
Garbled == \E l \in Range(lines) : l.kind = "billing" /\ l.body = <<>>
ReindexKeeps ==
  ~dirty /\ ~Garbled => refreshOutcome(Archived(rec)) = Archived(rec)

(* What the parser left before its accumulators: every fragment a call, the *)
(* lines from b on read again after a, and the counts times the passes      *)
(* (repair.go:22-29, 171-178). *)
Before(a, b, passes) ==
  LET calls == SubSeq(Sent, 1, a) \o SubSeq(Sent, b + 1, Len(Sent))
  IN [Archived(rec) EXCEPT !.calls = calls, !.called = Names(calls), !.msgs = @ * passes,
                           !.turns = @ * passes, !.tools = @ * passes]
GeminiRequest == rec.request # <<>> /\ (rec.request[1].contents # <<>>
                                        \/ rec.request[1].declared > 0)
Counts(r) == <<r.msgs, r.turns, r.tools>>

(* -repair does nothing to a record of the present parser                   *)
(* (repair_test.go:51-53), but for the counts of a Gemini request, which it *)
(* takes from a body that is not decoded as finalize does (repair.go:273).  *)
RepairKeeps ==
  ~dirty =>
    LET now == Archived(rec)
    IN /\ GeminiRequest \/ repairRecord(now) = now
       /\ repairRecord(now).calls = now.calls

(* -repair undoes both kinds of damage, wherever the second read began, for *)
(* calls whose fragments were all stored: but arguments that parse with     *)
(* what was read twice in them are left alone (repair_test.go:408-410).  It *)
(* does nothing to its own work.                                            *)
Repairable ==
  /\ Events = <<>> /\ Whole = <<>> /\ Indexed
  /\ \E f \in Range(Sent) : f.args # <<>> /\ ~Valid(f.args)
  /\ \A c \in Range(rec.calls) : c.name # "" /\ Valid(c.args)
Restored(calls, damaged) ==
  [i \in DOMAIN calls |->
     LET doubled == Said(damaged, calls[i].idx)
     IN IF Valid(doubled.args) THEN doubled ELSE calls[i]]
RepairRestores ==
  ~dirty /\ Repairable =>
    LET now == Archived(rec)
        n == Len(Sent)
    IN \A a, b \in 0..n, passes \in 1..2 : b <= a =>
         LET was == Before(a, b, passes)
             fixed == repairRecord(was)
         IN /\ fixed.calls = Restored(now.calls, was.calls)
            /\ fixed.called = now.called
            /\ rec.request = <<>> \/ GeminiRequest \/ Counts(fixed) = Counts(now)
            /\ repairRecord(fixed) = fixed
=============================================================================
