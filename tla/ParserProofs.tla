---------------------------- MODULE ParserProofs ----------------------------
(***************************************************************************)
(* Proofs about the parser, for any calls of lines as they come and any    *)
(* cut of them into passes.                                                *)
(***************************************************************************)
EXTENDS Parser, SetFacts, SequenceTheorems, TLAPS

-----------------------------------------------------------------------------
(* The folds. *)

(* What foldChunk folds, field by field. *)
addText(text, ch) == text \o ch.text
addCalls(acc, ch) == FoldLeft(addWhole, FoldLeft(add, acc, ch.frags), ch.whole)
addUsage(usage, ch) == mergeUsage(usage, UsageOf(<<ch>>))

OfLines == INSTANCE FoldFacts WITH op <- handleLine
OfChunks == INSTANCE FoldFacts WITH op <- foldChunk
OfFrags == INSTANCE FoldFacts WITH op <- add
OfWhole == INSTANCE FoldFacts WITH op <- addWhole
OfEvents == INSTANCE FoldFacts WITH op <- applyAnthropic
ToText == INSTANCE FoldFacts WITH op <- addText
ToCalls == INSTANCE FoldFacts WITH op <- addCalls
ToUsage == INSTANCE FoldFacts WITH op <- addUsage
SaidText == INSTANCE FoldFacts WITH op <- thenText
SaidFrags == INSTANCE FoldFacts WITH op <- thenFrags
SaidWhole == INSTANCE FoldFacts WITH op <- thenWhole
SaidEvents == INSTANCE FoldFacts WITH op <- thenEvents
SaidUsage == INSTANCE FoldFacts WITH op <- thenUsage
SaidFrag == INSTANCE FoldFacts WITH op <- thenFrag
SaidEvent == INSTANCE FoldFacts WITH op <- thenEvent

(* The hypothesis of the facts about folds. *)
LEMMA Least == \A S \in SUBSET Nat : S # {} => \E n \in S : \A m \in S : n <= m
BY LeastIn

(* The record of one pass over the lines read, before it is finalized. *)
Raw == OfLines!Folded(blank, lines)

(* Every fold of the parser is one of these. *)
LEMMA ParserFolds ==
  /\ InOnePass = finalize([Raw EXCEPT !.stalled = rec.stalled])
  /\ Text = SaidText!Folded(<<>>, lines)
  /\ Sent = SaidFrags!Folded(<<>>, lines)
  /\ Whole = SaidWhole!Folded(<<>>, lines)
  /\ Events = SaidEvents!Folded(<<>>, lines)
  /\ Reported = SaidUsage!Folded(<<>>, lines)
<1>1. InOnePass = finalize([Raw EXCEPT !.stalled = rec.stalled])
  BY DEF InOnePass, Raw, FoldLeft, MapThenFoldSet, Max, OfLines!Folded, OfLines!Table,
         OfLines!Before, OfLines!Largest
<1>2. Text = SaidText!Folded(<<>>, lines)
  BY DEF Text, FoldLeft, MapThenFoldSet, Max, SaidText!Folded, SaidText!Table,
         SaidText!Before, SaidText!Largest
<1>3. Sent = SaidFrags!Folded(<<>>, lines)
  BY DEF Sent, FoldLeft, MapThenFoldSet, Max, SaidFrags!Folded, SaidFrags!Table,
         SaidFrags!Before, SaidFrags!Largest
<1>4. Whole = SaidWhole!Folded(<<>>, lines)
  BY DEF Whole, FoldLeft, MapThenFoldSet, Max, SaidWhole!Folded, SaidWhole!Table,
         SaidWhole!Before, SaidWhole!Largest
<1>5. Events = SaidEvents!Folded(<<>>, lines)
  BY DEF Events, FoldLeft, MapThenFoldSet, Max, SaidEvents!Folded, SaidEvents!Table,
         SaidEvents!Before, SaidEvents!Largest
<1>6. Reported = SaidUsage!Folded(<<>>, lines)
  BY DEF Reported, FoldLeft, MapThenFoldSet, Max, SaidUsage!Folded, SaidUsage!Table,
         SaidUsage!Before, SaidUsage!Largest
<1> QED BY <1>1, <1>2, <1>3, <1>4, <1>5, <1>6

LEMMA CallFolds ==
  ASSUME NEW b, NEW s
  PROVE  /\ FoldLeft(add, b, s) = OfFrags!Folded(b, s)
         /\ FoldLeft(addWhole, b, s) = OfWhole!Folded(b, s)
         /\ FoldLeft(applyAnthropic, b, s) = OfEvents!Folded(b, s)
<1>1. FoldLeft(add, b, s) = OfFrags!Folded(b, s)
  BY DEF FoldLeft, MapThenFoldSet, Max, OfFrags!Folded, OfFrags!Table, OfFrags!Before,
         OfFrags!Largest
<1>2. FoldLeft(addWhole, b, s) = OfWhole!Folded(b, s)
  BY DEF FoldLeft, MapThenFoldSet, Max, OfWhole!Folded, OfWhole!Table, OfWhole!Before,
         OfWhole!Largest
<1>3. FoldLeft(applyAnthropic, b, s) = OfEvents!Folded(b, s)
  BY DEF FoldLeft, MapThenFoldSet, Max, OfEvents!Folded, OfEvents!Table,
         OfEvents!Before, OfEvents!Largest
<1> QED BY <1>1, <1>2, <1>3

LEMMA AddCallsIs ==
  ASSUME NEW acc, NEW ch
  PROVE  addCalls(acc, ch) = OfWhole!Folded(OfFrags!Folded(acc, ch.frags), ch.whole)
BY CallFolds DEF addCalls
(* One more chunk, folded. *)
LEMMA EndAppend ==
  ASSUME NEW b, NEW s \in Seq(ChunkLine), NEW l \in ChunkLine
  PROVE  /\ ToText!Folded(b, Append(s, l)) = addText(ToText!Folded(b, s), l)
         /\ ToCalls!Folded(b, Append(s, l)) = addCalls(ToCalls!Folded(b, s), l)
         /\ ToUsage!Folded(b, Append(s, l)) = addUsage(ToUsage!Folded(b, s), l)
<1>1. ToText!Folded(b, Append(s, l)) = addText(ToText!Folded(b, s), l)
  BY ToText!FoldAppend, Least
<1>2. ToCalls!Folded(b, Append(s, l)) = addCalls(ToCalls!Folded(b, s), l)
  BY ToCalls!FoldAppend, Least
<1>3. ToUsage!Folded(b, Append(s, l)) = addUsage(ToUsage!Folded(b, s), l)
  BY ToUsage!FoldAppend, Least
<1> QED BY <1>1, <1>2, <1>3

-----------------------------------------------------------------------------
(* Joined calls. *)

Call == [idx : Nat, name : Name, args : Seq(STRING)]
Acc == [calls : Seq(Call), last : Nat, seen : BOOLEAN]

(* What a fragment leaves of the call it belongs to. *)
Joined(call, f) == [call EXCEPT !.name = IF f.name # "" THEN f.name ELSE @,
                                !.args = @ \o f.args]

(* One call becomes another in its place, or a new one comes last. *)
Updated(calls, old, new, after) ==
  \/ \E i \in DOMAIN calls : calls[i] = old /\ after = [calls EXCEPT ![i] = new]
  \/ /\ old = Nothing(old.idx) /\ \A i \in DOMAIN calls : calls[i].idx # old.idx
     /\ after = Append(calls, new)

LEMMA JoinedType ==
  ASSUME NEW call \in Call, NEW f \in Fragment
  PROVE  /\ Joined(call, f) \in Call /\ Joined(call, f).idx = call.idx
         /\ Joined(call, f).name = (IF f.name # "" THEN f.name ELSE call.name)
         /\ Joined(call, f).args = call.args \o f.args
<1> DEFINE n == IF f.name # "" THEN f.name ELSE call.name
           a == call.args \o f.args
<1>1. /\ call.idx \in Nat /\ call.name \in Name /\ call.args \in Seq(STRING)
      /\ call = [idx |-> call.idx, name |-> call.name, args |-> call.args]
  BY DEF Call
<1>2. f.name \in Name /\ f.args \in Seq(STRING)
  BY DEF Fragment
<1>3. n \in Name /\ a \in Seq(STRING)
  BY <1>1, <1>2, ConcatProperties
<1>4. Joined(call, f) = [call EXCEPT !.name = n, !.args = a]
  BY <1>1 DEF Joined
<1> HIDE DEF n, a
<1>5. Joined(call, f) = [idx |-> call.idx, name |-> n, args |-> a]
  BY <1>1, <1>4
<1>6. [idx |-> call.idx, name |-> n, args |-> a] \in Call
  BY <1>1, <1>3 DEF Call
<1>7. Joined(call, f).idx = call.idx /\ Joined(call, f).name = n /\ Joined(call, f).args = a
  BY <1>5
<1> QED BY <1>5, <1>6, <1>7 DEF n, a

LEMMA NothingType == ASSUME NEW idx \in Nat PROVE Nothing(idx) \in Call /\ Nothing(idx).idx = idx
BY DEF Nothing, Call, Name

LEMMA IndexOfType ==
  ASSUME NEW acc \in Acc, NEW f \in Fragment
  PROVE  IndexOf(acc, f) \in Nat /\ (f.idx # NoIndex => IndexOf(acc, f) = f.idx)
<1>1. f.idx \in Nat \cup {NoIndex} /\ acc.last \in Nat /\ NoIndex = -1
  BY DEF Fragment, Acc, NoIndex
<1>2. CASE f.idx # NoIndex
  BY <1>1, <1>2 DEF IndexOf
<1>3. CASE f.idx = NoIndex /\ ~acc.seen
  BY <1>1, <1>3 DEF IndexOf
<1>4. CASE f.idx = NoIndex /\ acc.seen
  <2>1. IndexOf(acc, f) = IF f.name # "" /\ NameAt(acc.calls, acc.last) \notin {"", f.name}
                          THEN acc.last + 1 ELSE acc.last
    BY <1>4 DEF IndexOf
  <2>2. acc.last + 1 \in Nat
    BY <1>1
  <2>3. CASE f.name # "" /\ NameAt(acc.calls, acc.last) \notin {"", f.name}
    <3>1. IndexOf(acc, f) = acc.last + 1
      BY <2>1, <2>3
    <3> QED BY <1>4, <2>2, <3>1
  <2>4. CASE ~(f.name # "" /\ NameAt(acc.calls, acc.last) \notin {"", f.name})
    <3>1. IndexOf(acc, f) = acc.last
      BY <2>1, <2>4
    <3> QED BY <1>1, <1>4, <3>1
  <2> QED BY <2>3, <2>4
<1> QED BY <1>2, <1>3, <1>4

LEMMA AddDoes ==
  ASSUME NEW acc \in Acc, NEW f \in Fragment
  PROVE  /\ \E old \in Call :
              /\ old.idx = IndexOf(acc, f)
              /\ Updated(acc.calls, old, Joined(old, f), add(acc, f).calls)
         /\ add(acc, f).last = IndexOf(acc, f) /\ add(acc, f).seen = TRUE
         /\ add(acc, f) = [calls |-> add(acc, f).calls, last |-> add(acc, f).last,
                           seen |-> add(acc, f).seen]
<1> DEFINE idx == IndexOf(acc, f)
           known == Positions(acc.calls, idx) # {}
           calls == IF known THEN acc.calls
                    ELSE Append(acc.calls, [idx |-> idx, name |-> "", args |-> <<>>])
           i == The(Positions(calls, idx))
           after == [calls EXCEPT ![i].name = IF f.name # "" THEN f.name ELSE @,
                                  ![i].args = @ \o f.args]
<1>1. add(acc, f) = [calls |-> after, last |-> idx, seen |-> TRUE]
  BY DEF add
<1>2. idx \in Nat /\ acc.calls \in Seq(Call)
  BY IndexOfType DEF Acc
<1> HIDE DEF idx
<1>3. CASE known
  <2>1. i \in DOMAIN acc.calls /\ acc.calls[i].idx = idx /\ calls = acc.calls
    BY <1>3 DEF Positions, The
  <2> HIDE DEF i, calls
  <2>2. acc.calls[i] \in Call
    BY <1>2, <2>1
  <2>3. after = [acc.calls EXCEPT ![i] = Joined(acc.calls[i], f)]
    <3> DEFINE c == acc.calls
    <3>1. after = [c EXCEPT ![i] = [c[i] EXCEPT !.name = IF f.name # "" THEN f.name ELSE @,
                                           !.args = @ \o f.args]]
      BY <1>2, <2>1, <2>2 DEF Call
    <3> QED BY <3>1 DEF Joined
  <2> DEFINE old == acc.calls[i]
  <2>4. Updated(acc.calls, old, Joined(old, f), after)
    <3> HIDE DEF after
    <3> QED BY <2>1, <2>3 DEF Updated
  <2> HIDE DEF after
  <2>5. /\ add(acc, f).calls = after /\ add(acc, f).last = idx /\ add(acc, f).seen = TRUE
        /\ add(acc, f) = [calls |-> add(acc, f).calls, last |-> add(acc, f).last,
                          seen |-> add(acc, f).seen]
    BY <1>1
  <2>6. old.idx = IndexOf(acc, f) /\ Updated(acc.calls, old, Joined(old, f), add(acc, f).calls)
    BY <2>1, <2>4, <2>5 DEF idx
  <2>7. \E c \in Call : /\ c.idx = IndexOf(acc, f)
                        /\ Updated(acc.calls, c, Joined(c, f), add(acc, f).calls)
    <3> HIDE DEF old
    <3>1. old \in Call
      BY <2>2 DEF old
    <3> QED BY <2>6, <3>1
  <2> QED BY <2>5, <2>7 DEF idx
<1>4. CASE ~known
  <2> DEFINE n == Len(acc.calls) + 1
  <2>1. /\ calls = Append(acc.calls, Nothing(idx)) /\ DOMAIN calls = 1..n
        /\ \A j \in DOMAIN acc.calls : calls[j] = acc.calls[j] /\ acc.calls[j].idx # idx
        /\ calls[n] = Nothing(idx) /\ n \in 1..n /\ DOMAIN acc.calls = 1..(n - 1)
        /\ Nothing(idx) \in Call /\ n \in Nat
    <3>1. calls = Append(acc.calls, Nothing(idx))
      BY <1>4 DEF Nothing
    <3>2. \A j \in DOMAIN acc.calls : acc.calls[j].idx # idx
      BY <1>4 DEF Positions
    <3> HIDE DEF calls
    <3> QED BY <1>2, <3>1, <3>2, NothingType, AppendProperties, LenProperties
  <2> HIDE DEF n
  <2>2. Positions(calls, idx) = {n}
    <3>1. \A j \in DOMAIN calls : calls[j].idx = idx <=> j = n
      <4> HIDE DEF calls
      <4> QED BY <1>2, <2>1, NothingType
    <3> HIDE DEF calls
    <3> QED BY <2>1, <3>1 DEF Positions
  <2>3. i = n
    <3> HIDE DEF calls
    <3> QED BY <2>2 DEF The
  <2> HIDE DEF calls, i
  <2>4. after = [calls EXCEPT ![n] = Joined(Nothing(idx), f)]
    <3>1. after = [calls EXCEPT ![n] =
                     [calls[n] EXCEPT !.name = IF f.name # "" THEN f.name ELSE @,
                                      !.args = @ \o f.args]]
      BY <2>1, <2>3 DEF Call
    <3> QED BY <2>1, <3>1 DEF Joined
  <2>5. after = Append(acc.calls, Joined(Nothing(idx), f))
    <3> DEFINE c == Joined(Nothing(idx), f)
    <3> HIDE DEF c
    <3>1. after = [calls EXCEPT ![n] = c]
      BY <2>4 DEF c
    <3>2. n = Len(acc.calls) + 1
      BY DEF n
    <3> HIDE DEF after
    <3> DEFINE q == Append(acc.calls, c)
    <3>3. /\ DOMAIN q = 1..n /\ q[n] = c /\ \A j \in 1..(n - 1) : q[j] = acc.calls[j]
      BY <1>2, <2>1, <3>2
    <3>4. q = [j \in 1..n |-> q[j]]
      BY <1>2, <2>1, <3>2
    <3> HIDE DEF q
    <3>5. DOMAIN after = 1..n /\ after = [j \in 1..n |-> after[j]]
      BY <2>1, <3>1
    <3>6. \A j \in 1..n : after[j] = q[j]
      <4> SUFFICES ASSUME NEW j \in 1..n PROVE after[j] = q[j]
        OBVIOUS
      <4>1. CASE j = n
        BY <2>1, <3>1, <3>3, <4>1
      <4>2. CASE j # n
        <5>1. j \in 1..(n - 1)
          BY <2>1, <4>2
        <5>2. after[j] = calls[j]
          BY <2>1, <3>1, <4>2
        <5> QED BY <2>1, <3>3, <5>1, <5>2
      <4> QED BY <4>1, <4>2
    <3>7. after = q
      BY <3>4, <3>5, <3>6
    <3> QED BY <3>7 DEF q, c
  <2> DEFINE old == Nothing(idx)
  <2>6. old \in Call /\ old.idx = idx
    BY <1>2, NothingType
  <2>7. Updated(acc.calls, old, Joined(old, f), after)
    <3> HIDE DEF after
    <3> QED BY <2>1, <2>5, <2>6 DEF Updated
  <2> HIDE DEF after
  <2> QED BY <1>1, <2>6, <2>7 DEF idx
<1> QED BY <1>3, <1>4

LEMMA UpdatedType ==
  ASSUME NEW calls \in Seq(Call), NEW old \in Call, NEW new \in Call, new.idx = old.idx,
         NEW after, Updated(calls, old, new, after)
  PROVE  /\ after \in Seq(Call) /\ after # <<>> /\ Len(calls) <= Len(after)
         /\ OneCallEach(calls) =>
              /\ OneCallEach(after)
              /\ Range(after) = {c \in Range(calls) : c.idx # old.idx} \cup {new}
<1>1. CASE \E i \in DOMAIN calls : calls[i] = old /\ after = [calls EXCEPT ![i] = new]
  <2>1. PICK i \in DOMAIN calls : calls[i] = old /\ after = [calls EXCEPT ![i] = new]
    BY <1>1
  <2>2. after \in Seq(Call) /\ after # <<>> /\ Len(calls) <= Len(after)
    BY <2>1
  <2>3. DOMAIN after = DOMAIN calls /\ after[i] = new
        /\ \A j \in DOMAIN calls : j # i => after[j] = calls[j]
    BY <2>1
  <2>4. ASSUME OneCallEach(calls)
        PROVE  /\ OneCallEach(after)
               /\ Range(after) = {c \in Range(calls) : c.idx # old.idx} \cup {new}
    <3>1. \A j \in DOMAIN calls : after[j].idx = calls[j].idx
      BY <2>1, <2>3
    <3>2. OneCallEach(after)
      BY <2>3, <2>4, <3>1 DEF OneCallEach
    <3>3. \A j \in DOMAIN calls : j # i => calls[j].idx # old.idx
      BY <2>1, <2>4 DEF OneCallEach
    <3>4. ASSUME NEW c \in Range(after)
          PROVE  c \in {d \in Range(calls) : d.idx # old.idx} \cup {new}
      BY <2>3, <3>3 DEF Range
    <3>5. ASSUME NEW c \in Range(calls), c.idx # old.idx PROVE c \in Range(after)
      <4>1. PICK j \in DOMAIN calls : calls[j] = c
        BY DEF Range
      <4> QED BY <2>1, <2>3, <3>5, <4>1 DEF Range
    <3>6. new \in Range(after)
      BY <2>3 DEF Range
    <3> QED BY <3>2, <3>4, <3>5, <3>6
  <2> QED BY <2>2, <2>4
<1>2. CASE /\ \A i \in DOMAIN calls : calls[i].idx # old.idx
           /\ after = Append(calls, new)
  <2> DEFINE n == Len(calls) + 1
  <2>1. /\ after \in Seq(Call) /\ after # <<>> /\ Len(calls) <= Len(after)
        /\ DOMAIN after = 1..n /\ after[n] = new /\ DOMAIN calls = 1..(n - 1) /\ n \in Nat
        /\ n \in 1..n /\ \A j \in 1..(n - 1) : after[j] = calls[j]
    BY <1>2, AppendProperties, LenProperties
  <2> HIDE DEF n
  <2>2. \A j \in 1..n : j = n \/ j \in 1..(n - 1)
    BY <2>1
  <2>3. ASSUME OneCallEach(calls) PROVE OneCallEach(after)
    BY <1>2, <2>1, <2>2, <2>3 DEF OneCallEach
  <2>4. ASSUME NEW c \in Range(after)
        PROVE  c \in {d \in Range(calls) : d.idx # old.idx} \cup {new}
    <3>1. PICK j \in 1..n : after[j] = c
      BY <2>1 DEF Range
    <3> QED BY <1>2, <2>1, <2>2, <3>1 DEF Range
  <2>5. ASSUME NEW c \in Range(calls) PROVE c \in Range(after)
    <3>1. PICK j \in 1..(n - 1) : calls[j] = c
      BY <2>1 DEF Range
    <3>2. j \in 1..n
      BY <2>1
    <3> QED BY <2>1, <3>1, <3>2 DEF Range
  <2>6. new \in Range(after)
    BY <2>1 DEF Range
  <2> QED BY <2>1, <2>3, <2>4, <2>5, <2>6
<1> QED BY <1>1, <1>2 DEF Updated

Apart == {acc \in Acc : OneCallEach(acc.calls)}

LEMMA AddType ==
  ASSUME NEW acc \in Apart, NEW f \in Fragment
  PROVE  add(acc, f) \in Apart /\ add(acc, f).calls # <<>>
<1>0. acc \in Acc /\ acc.calls \in Seq(Call) /\ OneCallEach(acc.calls)
  BY DEF Apart, Acc
<1>1. PICK old \in Call : /\ old.idx = IndexOf(acc, f)
                          /\ Updated(acc.calls, old, Joined(old, f), add(acc, f).calls)
  BY <1>0, AddDoes
<1>2. Joined(old, f) \in Call /\ Joined(old, f).idx = old.idx
  BY JoinedType
<1>3. /\ add(acc, f).calls \in Seq(Call) /\ add(acc, f).calls # <<>>
      /\ OneCallEach(add(acc, f).calls)
  BY <1>0, <1>1, <1>2, UpdatedType
<1>4. IndexOf(acc, f) \in Nat
  BY <1>0, IndexOfType
<1> DEFINE a == add(acc, f)
<1>5. a.last \in Nat /\ a.seen \in BOOLEAN
      /\ a = [calls |-> a.calls, last |-> a.last, seen |-> a.seen]
  BY <1>0, <1>4, AddDoes
<1> HIDE DEF a
<1>6. a.calls \in Seq(Call) /\ a.calls # <<>> /\ OneCallEach(a.calls)
  BY <1>3 DEF a
<1>7. [calls |-> a.calls, last |-> a.last, seen |-> a.seen] \in Acc
  BY <1>5, <1>6 DEF Acc
<1>8. a \in Apart
  BY <1>5, <1>6, <1>7 DEF Apart
<1> QED BY <1>6, <1>8 DEF a

(* The next free index. *)
LEMMA Indexes ==
  ASSUME NEW calls \in Seq(Call)
  PROVE  LET S == {-1} \cup {c.idx : c \in Range(calls)}
         IN  Max(S) \in S /\ Max(S) + 1 \in Nat /\ \A j \in DOMAIN calls : calls[j].idx < Max(S) + 1
<1> DEFINE S == {-1} \cup {c.idx : c \in Range(calls)}
           Q == {s \in Seq(Call) : \E b \in Nat : \A j \in DOMAIN s : s[j].idx <= b}
<1>1. calls \in Q
  <2>1. <<>> \in Q
    OBVIOUS
  <2>2. ASSUME NEW s \in Seq(Call), NEW x \in Call, s \in Q PROVE Append(s, x) \in Q
    <3>1. PICK b \in Nat : \A j \in DOMAIN s : s[j].idx <= b
      BY <2>2
    <3>2. x.idx \in Nat /\ \A j \in DOMAIN s : s[j].idx \in Nat
      <4>1. \A j \in DOMAIN s : s[j] \in Call
        OBVIOUS
      <4>2. \A c \in Call : c.idx \in Nat
        BY DEF Call
      <4> QED BY <4>1, <4>2
    <3> DEFINE d == IF x.idx <= b THEN b ELSE x.idx
    <3>3. d \in Nat /\ b <= d /\ x.idx <= d
      BY <3>2
    <3> HIDE DEF d
    <3>4. /\ DOMAIN Append(s, x) = 1..(Len(s) + 1) /\ DOMAIN s = 1..Len(s)
          /\ Len(s) \in Nat /\ Append(s, x)[Len(s) + 1] = x
          /\ \A j \in 1..Len(s) : Append(s, x)[j] = s[j]
      BY AppendProperties, LenProperties
    <3>5. ASSUME NEW j \in DOMAIN Append(s, x) PROVE Append(s, x)[j].idx <= d
      <4>1. CASE j = Len(s) + 1
        BY <3>3, <3>4, <4>1
      <4>2. CASE j # Len(s) + 1
        <5>1. j \in 1..Len(s)
          BY <3>4, <3>5, <4>2
        <5> QED BY <3>1, <3>2, <3>3, <3>4, <5>1
      <4> QED BY <4>1, <4>2
    <3>6. \E e \in Nat : \A j \in DOMAIN Append(s, x) : Append(s, x)[j].idx <= e
      BY <3>3, <3>5
    <3>7. Append(s, x) \in Seq(Call)
      BY AppendProperties
    <3> QED BY <3>6, <3>7
  <2>3. Seq(Call) \subseteq Q
    <3> HIDE DEF Q
    <3> QED BY <2>1, <2>2, OfFrags!SeqInduction, Least
  <2> QED BY <2>3
<1>2. PICK b \in Nat : \A j \in DOMAIN calls : calls[j].idx <= b
  BY <1>1
<1>3. \A x \in S : x \in Int /\ x + 1 \in Nat /\ x <= b
  <2>1. \A j \in DOMAIN calls : calls[j].idx \in Nat
    <3>1. \A j \in DOMAIN calls : calls[j] \in Call
      OBVIOUS
    <3>2. \A c \in Call : c.idx \in Nat
      BY DEF Call
    <3> QED BY <3>1, <3>2
  <2>2. \A c \in Range(calls) : c.idx \in Nat /\ c.idx <= b
    BY <1>2, <2>1 DEF Range
  <2> QED BY <1>2, <2>2
<1> DEFINE T == {x + 1 : x \in S}
<1>4. T \in SUBSET Nat /\ T # {} /\ \A y \in T : y <= b + 1
  BY <1>3
<1>5. PICK y \in T : \A z \in T : z <= y
  <2>1. b + 1 \in Nat
    BY <1>2
  <2> HIDE DEF T
  <2> QED BY <1>4, <2>1, GreatestIn
<1>6. PICK x \in S : y = x + 1
  BY <1>5
<1>7. \A z \in S : x >= z
  <2> SUFFICES ASSUME NEW z \in S PROVE x >= z
    OBVIOUS
  <2>1. z + 1 \in T
    OBVIOUS
  <2> HIDE DEF T
  <2>2. z + 1 <= y
    BY <1>5, <2>1
  <2> HIDE DEF S
  <2> QED BY <1>3, <1>6, <2>2
<1>8. Max(S) \in S /\ \A z \in S : Max(S) >= z
  <2> HIDE DEF S
  <2> QED BY <1>6, <1>7 DEF Max
<1>9. \A j \in DOMAIN calls : calls[j].idx \in S
  BY DEF Range
<1> HIDE DEF S
<1>10. \A j \in DOMAIN calls : calls[j].idx < Max(S) + 1
  BY <1>3, <1>8, <1>9
<1> QED BY <1>3, <1>8, <1>10 DEF S

NextFree(acc) == Max({-1} \cup {c.idx : c \in Range(acc.calls)}) + 1

LEMMA AddWholeIs ==
  ASSUME NEW acc \in Acc, NEW f \in Fragment
  PROVE  /\ [f EXCEPT !.idx = NextFree(acc)] \in Fragment
         /\ [f EXCEPT !.idx = NextFree(acc)].idx # NoIndex
         /\ NextFree(acc) \in Nat /\ \A j \in DOMAIN acc.calls : acc.calls[j].idx < NextFree(acc)
         /\ addWhole(acc, f) = add(acc, [f EXCEPT !.idx = NextFree(acc)])
<1>1. acc.calls \in Seq(Call)
  BY DEF Acc
<1>2. NextFree(acc) \in Nat /\ \A j \in DOMAIN acc.calls : acc.calls[j].idx < NextFree(acc)
  BY <1>1, Indexes DEF NextFree
<1>3. addWhole(acc, f) = add(acc, [f EXCEPT !.idx = NextFree(acc)])
  BY DEF addWhole, NextFree
<1> HIDE DEF NextFree
<1> QED BY <1>2, <1>3 DEF Fragment, NoIndex

LEMMA AddWholeType ==
  ASSUME NEW acc \in Apart, NEW f \in Fragment
  PROVE  addWhole(acc, f) \in Apart /\ addWhole(acc, f).calls # <<>>
<1>1. acc \in Acc
  BY DEF Apart
<1> QED BY <1>1, AddWholeIs, AddType

LEMMA EventDoes ==
  ASSUME NEW calls \in Seq(Call), NEW ev \in Event
  PROVE  \E old \in Call :
           /\ old.idx = ev.idx /\ thenEvent(old, ev) \in Call /\ thenEvent(old, ev).idx = old.idx
           /\ Updated(calls, old, thenEvent(old, ev), applyAnthropic(calls, ev))
<1> DEFINE i == The(Positions(calls, ev.idx))
           after == applyAnthropic(calls, ev)
<1>1. /\ ev.idx \in Nat /\ ev.name \in Name /\ ev.args \in Seq(STRING) /\ ev.open \in BOOLEAN
      /\ ev.open => ev.args = <<>>
      /\ ~ev.open => ev.name = ""
  <2>0. <<>> \in Seq(STRING)
    OBVIOUS
  <2>1. CASE ev \in [open : {TRUE}, idx : Nat, name : Name, args : {<<>>}]
    <3>1. ev.open = TRUE /\ ev.idx \in Nat /\ ev.name \in Name /\ ev.args = <<>>
      BY <2>1
    <3> QED BY <2>0, <3>1
  <2>2. CASE ev \in [open : {FALSE}, idx : Nat, name : {""}, args : Seq(STRING)]
    BY <2>2 DEF Name
  <2> QED BY <2>1, <2>2 DEF Event
<1>2. ASSUME NEW old \in Call, old.idx = ev.idx
      PROVE  thenEvent(old, ev) \in Call /\ thenEvent(old, ev).idx = old.idx
  <2>0. /\ old.idx \in Nat /\ old.name \in Name /\ old.args \in Seq(STRING)
        /\ old = [idx |-> old.idx, name |-> old.name, args |-> old.args]
    BY DEF Call
  <2>1. CASE ev.open
    <3>1. thenEvent(old, ev) = [old EXCEPT !.name = ev.name, !.args = <<>>]
      BY <1>2, <2>1 DEF thenEvent
    <3>2. thenEvent(old, ev) = [idx |-> old.idx, name |-> ev.name, args |-> <<>>]
      BY <2>0, <3>1
    <3>3. <<>> \in Seq(STRING)
      OBVIOUS
    <3>4. [idx |-> old.idx, name |-> ev.name, args |-> <<>>] \in Call
      BY <1>1, <2>0, <3>3 DEF Call
    <3> QED BY <3>2, <3>4
  <2>2. CASE ~ev.open
    <3> DEFINE a == old.args \o ev.args
    <3>1. a \in Seq(STRING)
      BY <1>1, <2>0, ConcatProperties
    <3>2. thenEvent(old, ev) = [old EXCEPT !.args = a]
      BY <1>2, <2>0, <2>2 DEF thenEvent
    <3> HIDE DEF a
    <3>3. thenEvent(old, ev) = [idx |-> old.idx, name |-> old.name, args |-> a]
      BY <2>0, <3>2
    <3>4. [idx |-> old.idx, name |-> old.name, args |-> a] \in Call
      BY <2>0, <3>1 DEF Call
    <3> QED BY <3>3, <3>4
  <2> QED BY <1>1, <2>1, <2>2
<1>3. CASE Positions(calls, ev.idx) # {}
  <2>1. i \in DOMAIN calls /\ calls[i].idx = ev.idx /\ calls[i] \in Call
    BY <1>3 DEF Positions, The
  <2>2. after = [calls EXCEPT ![i] = thenEvent(calls[i], ev)]
    <3>1. CASE ev.open
      <4>1. after = [calls EXCEPT ![i] = [idx |-> ev.idx, name |-> ev.name, args |-> ev.args]]
        BY <1>3, <3>1 DEF applyAnthropic
      <4>2. thenEvent(calls[i], ev) = [idx |-> ev.idx, name |-> ev.name, args |-> ev.args]
        <5> DEFINE c == calls[i]
        <5> HIDE DEF c, i
        <5>1. c \in Call /\ c.idx = ev.idx
          BY <2>1 DEF c
        <5>2. thenEvent(c, ev) = [idx |-> ev.idx, name |-> ev.name, args |-> ev.args]
          BY <1>1, <3>1, <5>1 DEF thenEvent, Call
        <5> QED BY <5>2 DEF c
      <4> QED BY <4>1, <4>2
    <3>2. CASE ~ev.open
      <4>1. after = [calls EXCEPT ![i] = [calls[i] EXCEPT !.args = @ \o ev.args]]
        BY <1>3, <2>1, <3>2 DEF applyAnthropic, Call
      <4>2. thenEvent(calls[i], ev) = [calls[i] EXCEPT !.args = @ \o ev.args]
        BY <2>1, <3>2 DEF thenEvent
      <4> QED BY <4>1, <4>2
    <3> QED BY <3>1, <3>2
  <2> DEFINE old == calls[i]
  <2>3. Updated(calls, old, thenEvent(old, ev), after)
    <3> HIDE DEF after, i
    <3> QED BY <2>1, <2>2 DEF Updated
  <2> HIDE DEF i
  <2> QED BY <1>2, <2>1, <2>3
<1>4. CASE Positions(calls, ev.idx) = {}
  <2> DEFINE old == Nothing(ev.idx)
  <2>1. old \in Call /\ old.idx = ev.idx /\ \A j \in DOMAIN calls : calls[j].idx # old.idx
    BY <1>1, <1>4, NothingType DEF Positions
  <2>2. thenEvent(old, ev) = [idx |-> ev.idx, name |-> ev.name, args |-> ev.args]
    <3>1. <<>> \o ev.args = ev.args
      BY <1>1, ConcatEmptySeq
    <3>2. CASE ev.open
      BY <1>1, <3>2 DEF thenEvent, Nothing
    <3>3. CASE ~ev.open
      BY <1>1, <3>1, <3>3 DEF thenEvent, Nothing
    <3> QED BY <3>2, <3>3
  <2>3. after = Append(calls, thenEvent(old, ev))
    BY <1>4, <2>2 DEF applyAnthropic
  <2>4. Updated(calls, old, thenEvent(old, ev), after)
    <3>1. old = Nothing(old.idx)
      BY <2>1
    <3> HIDE DEF after, old
    <3> QED BY <2>1, <2>3, <3>1 DEF Updated
  <2> HIDE DEF old, after
  <2> QED BY <1>2, <2>1, <2>4 DEF after
<1> QED BY <1>3, <1>4

ApartCalls == {calls \in Seq(Call) : OneCallEach(calls)}

LEMMA EventType ==
  ASSUME NEW calls \in ApartCalls, NEW ev \in Event
  PROVE  applyAnthropic(calls, ev) \in ApartCalls /\ applyAnthropic(calls, ev) # <<>>
<1>1. PICK old \in Call :
           /\ old.idx = ev.idx /\ thenEvent(old, ev) \in Call /\ thenEvent(old, ev).idx = old.idx
           /\ Updated(calls, old, thenEvent(old, ev), applyAnthropic(calls, ev))
  BY EventDoes DEF ApartCalls
<1> QED BY <1>1, UpdatedType DEF ApartCalls

-----------------------------------------------------------------------------
(* The joined calls are what was said. *)

Idxs(s) == {f.idx : f \in Range(s)}

(* A list of the calls that were said something, those of indexes I, once   *)
(* each.                                                                    *)
Listed(calls, said, I) ==
  /\ OneCallEach(calls) /\ said \in [Nat -> Call] /\ I \subseteq Nat
  /\ \A i \in Nat : said[i].idx = i
  /\ \A i \in Nat \ I : said[i] = Nothing(i)
  /\ Range(calls) = {said[i] : i \in I}

LEMMA ListedOne ==
  ASSUME NEW calls \in Seq(Call), NEW said, NEW I, Listed(calls, said, I),
         NEW old \in Call, NEW new \in Call, new.idx = old.idx, NEW after,
         Updated(calls, old, new, after)
  PROVE  old = said[old.idx] /\ Listed(after, [said EXCEPT ![old.idx] = new], I \cup {old.idx})
<1> DEFINE k == old.idx
           then == [said EXCEPT ![k] = new]
<1>1. /\ k \in Nat /\ OneCallEach(calls) /\ said \in [Nat -> Call] /\ I \subseteq Nat
      /\ \A i \in Nat : said[i].idx = i
      /\ \A i \in Nat \ I : said[i] = Nothing(i)
      /\ Range(calls) = {said[i] : i \in I}
  BY DEF Listed, Call
<1>2. old = said[k]
  <2>1. CASE \E i \in DOMAIN calls : calls[i] = old
    <3>1. old \in Range(calls)
      BY <2>1 DEF Range
    <3>2. PICK i \in I : old = said[i]
      BY <1>1, <3>1
    <3> QED BY <1>1, <3>2
  <2>2. CASE old = Nothing(old.idx) /\ \A i \in DOMAIN calls : calls[i].idx # old.idx
    <3>1. k \notin I
      <4> SUFFICES ASSUME k \in I PROVE FALSE
        OBVIOUS
      <4>1. said[k] \in Range(calls) /\ said[k].idx = k
        BY <1>1
      <4> QED BY <2>2, <4>1 DEF Range
    <3> QED BY <1>1, <2>2, <3>1
  <2> QED BY <2>1, <2>2 DEF Updated
<1>3. /\ OneCallEach(after)
      /\ Range(after) = {c \in Range(calls) : c.idx # k} \cup {new}
  BY <1>1, UpdatedType
<1>4. /\ then \in [Nat -> Call] /\ then[k] = new
      /\ \A i \in Nat : i # k => then[i] = said[i]
  BY <1>1
<1> HIDE DEF then, k
<1>5. new.idx = k
  BY DEF k
<1>6. Range(after) = {then[i] : i \in I \cup {k}}
  <2>1. ASSUME NEW c \in Range(after) PROVE \E i \in I \cup {k} : c = then[i]
    <3>1. CASE c = new
      BY <1>4, <3>1
    <3>2. CASE c # new
      <4>1. c \in Range(calls) /\ c.idx # k
        BY <1>3, <3>2
      <4>2. PICK i \in I : c = said[i]
        BY <1>1, <4>1
      <4> QED BY <1>1, <1>4, <4>1, <4>2
    <3> QED BY <3>1, <3>2
  <2>2. ASSUME NEW i \in I \cup {k} PROVE then[i] \in Range(after)
    <3>1. CASE i = k
      BY <1>3, <1>4, <3>1
    <3>2. CASE i # k
      <4>1. said[i] \in Range(calls) /\ said[i].idx = i
        BY <1>1, <3>2
      <4> QED BY <1>1, <1>3, <1>4, <3>2, <4>1
    <3> QED BY <3>1, <3>2
  <2> QED BY <2>1, <2>2
<1>7. \A i \in Nat : then[i].idx = i
  BY <1>1, <1>4, <1>5
<1>8. \A i \in Nat \ (I \cup {k}) : then[i] = Nothing(i)
  BY <1>1, <1>4
<1>9. Listed(after, then, I \cup {k})
  BY <1>1, <1>3, <1>4, <1>6, <1>7, <1>8 DEF Listed
<1> QED BY <1>2, <1>9 DEF then, k

LEMMA ListedNone ==
  Listed(<<>>, [i \in Nat |-> Nothing(i)], {})
<1>1. Range(<<>>) = {}
  BY DEF Range
<1> QED BY <1>1, NothingType DEF Listed, OneCallEach

LEMMA IdxsOfAppend ==
  ASSUME NEW T, NEW s \in Seq(T), NEW x \in T
  PROVE  /\ Idxs(Append(s, x)) = Idxs(s) \cup {x.idx} /\ Idxs(<<>>) = {}
         /\ \A y \in Range(Append(s, x)) : y \in Range(s) \/ y = x
         /\ \A y \in Range(s) : y \in Range(Append(s, x))
<1>1. Range(Append(s, x)) = Range(s) \cup {x}
  <2> DEFINE n == Len(s) + 1
  <2>1. /\ DOMAIN Append(s, x) = 1..n /\ DOMAIN s = 1..(n - 1) /\ n \in 1..n /\ n \in Nat
        /\ Append(s, x)[n] = x /\ \A j \in 1..(n - 1) : Append(s, x)[j] = s[j]
    BY AppendProperties, LenProperties
  <2> HIDE DEF n
  <2>2. \A j \in 1..n : j = n \/ j \in 1..(n - 1)
    BY <2>1
  <2>3. \A j \in 1..(n - 1) : j \in 1..n
    BY <2>1
  <2> QED BY <2>1, <2>2, <2>3 DEF Range
<1>2. Range(<<>>) = {}
  BY DEF Range
<1> QED BY <1>1, <1>2 DEF Idxs

LEMMA NoToolsType == NoTools \in Apart /\ NoTools \in Acc /\ NoTools.calls = <<>>
BY DEF NoTools, Apart, Acc, OneCallEach

SaidOf(s) == [i \in Nat |-> SaidFrag!Folded(Nothing(i), s)]

(* Fragments with an index are joined to the calls they name. *)
LEMMA FragsListed ==
  ASSUME NEW s \in Seq(Fragment), NoIndex \notin Idxs(s)
  PROVE  /\ OfFrags!Folded(NoTools, s) \in Apart
         /\ Listed(OfFrags!Folded(NoTools, s).calls, SaidOf(s), Idxs(s))
<1> DEFINE Good(u) == /\ OfFrags!Folded(NoTools, u) \in Apart
                      /\ Listed(OfFrags!Folded(NoTools, u).calls, SaidOf(u), Idxs(u))
           Q == {u \in Seq(Fragment) : NoIndex \notin Idxs(u) => Good(u)}
<1>1. <<>> \in Q
  <2>1. SaidOf(<<>>) = [i \in Nat |-> Nothing(i)]
    BY SaidFrag!FoldEmpty DEF SaidOf
  <2>2. Idxs(<<>>) = {}
    BY DEF Idxs, Range
  <2>3. OfFrags!Folded(NoTools, <<>>) = NoTools
    BY OfFrags!FoldEmpty
  <2>4. Good(<<>>)
    BY <2>1, <2>2, <2>3, NoToolsType, ListedNone
  <2>5. <<>> \in Seq(Fragment)
    OBVIOUS
  <2> HIDE DEF Good
  <2> QED BY <2>4, <2>5
<1>2. ASSUME NEW u \in Seq(Fragment), NEW f \in Fragment, u \in Q PROVE Append(u, f) \in Q
  <2> SUFFICES ASSUME NoIndex \notin Idxs(Append(u, f)) PROVE Good(Append(u, f))
    OBVIOUS
  <2> DEFINE acc == OfFrags!Folded(NoTools, u)
             then == SaidOf(Append(u, f))
  <2>1. Idxs(Append(u, f)) = Idxs(u) \cup {f.idx}
    BY IdxsOfAppend
  <2>2. f.idx # NoIndex /\ f.idx \in Nat
    BY <2>1 DEF Fragment
  <2>3. acc \in Apart /\ Listed(acc.calls, SaidOf(u), Idxs(u))
    BY <1>2, <2>1
  <2>4. OfFrags!Folded(NoTools, Append(u, f)) = add(acc, f)
    BY OfFrags!FoldAppend, Least
  <2> HIDE DEF acc
  <2>5. acc \in Acc /\ acc.calls \in Seq(Call)
    BY <2>3 DEF Apart, Acc
  <2>6. PICK old \in Call : /\ old.idx = f.idx
                            /\ Updated(acc.calls, old, Joined(old, f), add(acc, f).calls)
    BY <2>2, <2>5, AddDoes, IndexOfType
  <2>7. Joined(old, f) \in Call /\ Joined(old, f).idx = old.idx
    BY JoinedType
  <2>8. /\ old = SaidOf(u)[f.idx]
        /\ Listed(add(acc, f).calls, [SaidOf(u) EXCEPT ![f.idx] = Joined(old, f)],
                  Idxs(u) \cup {f.idx})
    BY <2>3, <2>5, <2>6, <2>7, ListedOne
  <2>9. then = [SaidOf(u) EXCEPT ![f.idx] = Joined(old, f)]
    <3>1. \A i \in Nat : then[i] = thenFrag(SaidOf(u)[i], f)
      BY SaidFrag!FoldAppend, Least DEF SaidOf
    <3>2. \A i \in Nat : SaidOf(u)[i].idx = i
      BY <2>3 DEF Listed
    <3>3. then[f.idx] = Joined(old, f)
      <4>1. f.idx = old.idx
        BY <2>6
      <4>2. thenFrag(old, f) = Joined(old, f)
        BY <4>1 DEF thenFrag, Joined
      <4> HIDE DEF then
      <4> QED BY <2>2, <2>8, <3>1, <4>2
    <3>4. \A i \in Nat : i # f.idx => then[i] = SaidOf(u)[i]
      <4> HIDE DEF then
      <4> QED BY <3>1, <3>2 DEF thenFrag
    <3>5. then = [i \in Nat |-> then[i]] /\ SaidOf(u) = [i \in Nat |-> SaidOf(u)[i]]
      BY DEF SaidOf
    <3> HIDE DEF then
    <3> QED BY <2>2, <3>3, <3>4, <3>5
  <2>10. add(acc, f) \in Apart
    BY <2>3, AddType
  <2> HIDE DEF then
  <2> QED BY <2>1, <2>4, <2>8, <2>9, <2>10 DEF then
<1>3. Seq(Fragment) \subseteq Q
  <2> HIDE DEF Q
  <2> QED BY <1>1, <1>2, OfFrags!SeqInduction, Least
<1> QED BY <1>3

SaidInBlocks(s) == [i \in Nat |-> SaidEvent!Folded(Nothing(i), s)]

(* So are the arguments of a block. *)
LEMMA EventsListed ==
  ASSUME NEW s \in Seq(Event)
  PROVE  /\ OfEvents!Folded(<<>>, s) \in ApartCalls
         /\ Listed(OfEvents!Folded(<<>>, s), SaidInBlocks(s), Idxs(s))
<1> DEFINE Good(u) == /\ OfEvents!Folded(<<>>, u) \in ApartCalls
                      /\ Listed(OfEvents!Folded(<<>>, u), SaidInBlocks(u), Idxs(u))
           Q == {u \in Seq(Event) : Good(u)}
<1>1. <<>> \in Q
  <2>1. SaidInBlocks(<<>>) = [i \in Nat |-> Nothing(i)]
    BY SaidEvent!FoldEmpty DEF SaidInBlocks
  <2>2. Idxs(<<>>) = {}
    BY DEF Idxs, Range
  <2>3. OfEvents!Folded(<<>>, <<>>) = <<>>
    BY OfEvents!FoldEmpty
  <2>4. <<>> \in ApartCalls
    BY DEF ApartCalls, OneCallEach
  <2>5. Good(<<>>)
    BY <2>1, <2>2, <2>3, <2>4, ListedNone
  <2>6. <<>> \in Seq(Event)
    OBVIOUS
  <2> HIDE DEF Good
  <2> QED BY <2>5, <2>6
<1>2. ASSUME NEW u \in Seq(Event), NEW f \in Event, u \in Q PROVE Append(u, f) \in Q
  <2> DEFINE calls == OfEvents!Folded(<<>>, u)
             then == SaidInBlocks(Append(u, f))
  <2>1. Idxs(Append(u, f)) = Idxs(u) \cup {f.idx}
    BY IdxsOfAppend
  <2>2. f.idx \in Nat
    BY DEF Event
  <2>3. calls \in ApartCalls /\ Listed(calls, SaidInBlocks(u), Idxs(u))
    BY <1>2
  <2>4. OfEvents!Folded(<<>>, Append(u, f)) = applyAnthropic(calls, f)
    BY OfEvents!FoldAppend, Least
  <2> HIDE DEF calls
  <2>5. calls \in Seq(Call)
    BY <2>3 DEF ApartCalls
  <2>6. PICK old \in Call :
           /\ old.idx = f.idx /\ thenEvent(old, f) \in Call /\ thenEvent(old, f).idx = old.idx
           /\ Updated(calls, old, thenEvent(old, f), applyAnthropic(calls, f))
    BY <2>5, EventDoes
  <2>8. /\ old = SaidInBlocks(u)[f.idx]
        /\ Listed(applyAnthropic(calls, f),
                  [SaidInBlocks(u) EXCEPT ![f.idx] = thenEvent(old, f)],
                  Idxs(u) \cup {f.idx})
    BY <2>3, <2>5, <2>6, ListedOne
  <2>9. then = [SaidInBlocks(u) EXCEPT ![f.idx] = thenEvent(old, f)]
    <3>1. \A i \in Nat : then[i] = thenEvent(SaidInBlocks(u)[i], f)
      BY SaidEvent!FoldAppend, Least DEF SaidInBlocks
    <3>2. \A i \in Nat : SaidInBlocks(u)[i].idx = i
      BY <2>3 DEF Listed
    <3>3. then[f.idx] = thenEvent(old, f)
      <4> HIDE DEF then
      <4> QED BY <2>2, <2>8, <3>1
    <3>4. \A i \in Nat : i # f.idx => then[i] = SaidInBlocks(u)[i]
      <4> HIDE DEF then
      <4> QED BY <3>1, <3>2 DEF thenEvent
    <3>5. then = [i \in Nat |-> then[i]] /\ SaidInBlocks(u) = [i \in Nat |-> SaidInBlocks(u)[i]]
      BY DEF SaidInBlocks
    <3> HIDE DEF then
    <3> QED BY <2>2, <3>3, <3>4, <3>5
  <2>10. applyAnthropic(calls, f) \in ApartCalls
    BY <2>3, EventType
  <2>11. Append(u, f) \in Seq(Event)
    BY AppendProperties
  <2> HIDE DEF then
  <2>12. Listed(applyAnthropic(calls, f), then, Idxs(Append(u, f)))
    BY <2>1, <2>8, <2>9
  <2>13. Good(Append(u, f))
    BY <2>4, <2>10, <2>12 DEF then
  <2> HIDE DEF Good
  <2> QED BY <2>11, <2>13
<1>3. Seq(Event) \subseteq Q
  <2> HIDE DEF Q
  <2> QED BY <1>1, <1>2, OfEvents!SeqInduction, Least
<1> QED BY <1>3

(* Whole calls are numbered as they come. *)
LEMMA WholeListed ==
  ASSUME NEW s \in Seq(Fragment)
  PROVE  LET acc == OfWhole!Folded(NoTools, s)
         IN  /\ acc \in Apart /\ Len(acc.calls) = Len(s)
             /\ \A i \in DOMAIN s : acc.calls[i] = [s[i] EXCEPT !.idx = i - 1]
<1> DEFINE calls(u) == OfWhole!Folded(NoTools, u).calls
           Good(u) == /\ OfWhole!Folded(NoTools, u) \in Apart /\ Len(calls(u)) = Len(u)
                      /\ \A i \in DOMAIN u : calls(u)[i] = [u[i] EXCEPT !.idx = i - 1]
           Q == {u \in Seq(Fragment) : Good(u)}
<1>1. <<>> \in Q
  <2>1. OfWhole!Folded(NoTools, <<>>) = NoTools
    BY OfWhole!FoldEmpty
  <2> QED BY <2>1, NoToolsType
<1>2. ASSUME NEW u \in Seq(Fragment), NEW f \in Fragment, u \in Q PROVE Append(u, f) \in Q
  <2> DEFINE acc == OfWhole!Folded(NoTools, u)
             n == Len(u)
             w == [f EXCEPT !.idx = n]
  <2>1. OfWhole!Folded(NoTools, Append(u, f)) = addWhole(acc, f)
    BY OfWhole!FoldAppend, Least
  <2>2. /\ acc \in Apart /\ Len(acc.calls) = Len(u)
        /\ \A i \in DOMAIN u : acc.calls[i] = [u[i] EXCEPT !.idx = i - 1]
    BY <1>2
  <2> HIDE DEF acc
  <2>3. acc \in Acc /\ acc.calls \in Seq(Call) /\ n \in Nat
        /\ DOMAIN acc.calls = 1..n /\ DOMAIN u = 1..n
    BY <2>2, LenProperties DEF Apart, Acc
  <2>4. \A i \in 1..n : acc.calls[i].idx = i - 1
    <3> SUFFICES ASSUME NEW i \in 1..n PROVE acc.calls[i].idx = i - 1
      OBVIOUS
    <3>1. u[i] \in Fragment
      BY <2>3
    <3>2. acc.calls[i] = [u[i] EXCEPT !.idx = i - 1]
      BY <2>2, <2>3
    <3> DEFINE e == u[i]
    <3> HIDE DEF e, n
    <3>3. [e EXCEPT !.idx = i - 1].idx = i - 1
      BY <3>1 DEF e, Fragment
    <3> QED BY <3>2, <3>3 DEF e
  <2>5. NextFree(acc) = n
    <3> DEFINE S == {-1} \cup {c.idx : c \in Range(acc.calls)}
    <3>1. Max(S) \in S /\ \A j \in 1..n : acc.calls[j].idx < Max(S) + 1
      BY <2>3, Indexes
    <3>2. S \subseteq -1..(n - 1)
      BY <2>3, <2>4 DEF Range
    <3>3. NextFree(acc) = Max(S) + 1
      BY DEF NextFree
    <3> HIDE DEF S
    <3>4. Max(S) \in -1..(n - 1)
      BY <3>1, <3>2
    <3>5. n # 0 => n - 1 < Max(S) + 1
      BY <2>3, <2>4, <3>1
    <3> QED BY <2>3, <3>3, <3>4, <3>5
  <2> HIDE DEF n
  <2>6. addWhole(acc, f) = add(acc, w) /\ w \in Fragment /\ w.idx = n /\ w.idx # NoIndex
    BY <2>3, <2>5, AddWholeIs DEF Fragment
  <2>7. PICK old \in Call : old.idx = n /\ Updated(acc.calls, old, Joined(old, w), add(acc, w).calls)
    <3> HIDE DEF w
    <3> QED BY <2>3, <2>6, AddDoes, IndexOfType
  <2>8. /\ old = Nothing(n) /\ add(acc, w).calls = Append(acc.calls, Joined(old, w))
    <3>1. \A i \in DOMAIN acc.calls : acc.calls[i] # old
      BY <2>3, <2>4, <2>7
    <3> HIDE DEF w
    <3> QED BY <2>7, <3>1 DEF Updated
  <2>9. Joined(old, w) = w
    <3>1. f \in [idx : Nat \cup {NoIndex}, name : Name, args : Seq(STRING)]
      BY DEF Fragment
    <3>2. <<>> \o f.args = f.args
      BY <3>1, ConcatEmptySeq
    <3>3. w = [idx |-> n, name |-> f.name, args |-> f.args]
      BY <3>1
    <3> HIDE DEF w
    <3>4. w.name = f.name /\ w.args = f.args
      BY <3>3
    <3> DEFINE k == IF w.name # "" THEN w.name ELSE old.name
               a == old.args \o w.args
    <3>5. old.name = "" /\ old.args = <<>> /\ old = [idx |-> n, name |-> "", args |-> <<>>]
      BY <2>8 DEF Nothing
    <3>6. k = f.name /\ a = f.args
      BY <3>2, <3>4, <3>5
    <3>7. Joined(old, w) = [old EXCEPT !.name = k, !.args = a]
      BY <3>5 DEF Joined
    <3> HIDE DEF k, a
    <3>8. Joined(old, w) = [idx |-> n, name |-> k, args |-> a]
      BY <3>5, <3>7
    <3> QED BY <3>3, <3>6, <3>8
  <2>10. calls(Append(u, f)) = Append(acc.calls, w)
    <3> HIDE DEF w
    <3> QED BY <2>1, <2>6, <2>8, <2>9
  <2>11. OfWhole!Folded(NoTools, Append(u, f)) \in Apart
    BY <2>1, <2>2, AddWholeType
  <2> HIDE DEF calls
  <2>12. /\ Len(calls(Append(u, f))) = n + 1 /\ Len(Append(u, f)) = n + 1
         /\ DOMAIN Append(u, f) = 1..(n + 1)
         /\ Append(u, f)[n + 1] = f /\ calls(Append(u, f))[n + 1] = w
         /\ \A i \in 1..n : /\ Append(u, f)[i] = u[i]
                            /\ calls(Append(u, f))[i] = acc.calls[i]
    <3> HIDE DEF w
    <3>1. n = Len(u) /\ n = Len(acc.calls) /\ w \in Call
      BY <2>2, <2>6, <2>9, <2>7, JoinedType DEF n
    <3> QED BY <2>3, <2>10, <3>1, AppendProperties, LenProperties
  <2>13. ASSUME NEW i \in 1..(n + 1)
         PROVE  calls(Append(u, f))[i] = [Append(u, f)[i] EXCEPT !.idx = i - 1]
    <3>1. CASE i = n + 1
      BY <2>3, <2>12, <3>1
    <3>2. CASE i # n + 1
      <4>1. i \in 1..n
        BY <2>3, <3>2
      <4> QED BY <2>2, <2>3, <2>12, <4>1
    <3> QED BY <3>1, <3>2
  <2>14. Good(Append(u, f))
    BY <2>11, <2>12, <2>13 DEF calls
  <2>15. Append(u, f) \in Seq(Fragment)
    BY AppendProperties
  <2> HIDE DEF Good
  <2> QED BY <2>14, <2>15
<1>3. Seq(Fragment) \subseteq Q
  <2> HIDE DEF Q
  <2> QED BY <1>1, <1>2, OfWhole!SeqInduction, Least
<1>4. s \in Q
  BY <1>3
<1> QED BY <1>4

-----------------------------------------------------------------------------
(* A chunk's calls. *)

LEMMA AddCallsType ==
  ASSUME NEW acc \in Apart, NEW ch \in ChunkLine
  PROVE  /\ addCalls(acc, ch) \in Apart
         /\ acc.calls # <<>> => addCalls(acc, ch).calls # <<>>
<1> DEFINE Some == {a \in Apart : a.calls # <<>>}
<1>1. ch.frags \in Seq(Fragment) /\ ch.whole \in Seq(Fragment)
  BY DEF ChunkLine
<1>2. /\ \A a \in Apart, f \in Fragment : add(a, f) \in Apart /\ addWhole(a, f) \in Apart
      /\ \A a \in Some, f \in Fragment : add(a, f) \in Some /\ addWhole(a, f) \in Some
  BY AddType, AddWholeType
<1> DEFINE mid == OfFrags!Folded(acc, ch.frags)
<1>3. mid \in Apart
  BY <1>1, <1>2, OfFrags!FoldType, Least
<1>4. acc \in Some => mid \in Some
  <2> SUFFICES ASSUME acc \in Some PROVE mid \in Some
    OBVIOUS
  <2> HIDE DEF Some
  <2> QED BY <1>1, <1>2, OfFrags!FoldType, Least
<1> HIDE DEF mid
<1>5. OfWhole!Folded(mid, ch.whole) \in Apart
  BY <1>1, <1>2, <1>3, OfWhole!FoldType, Least
<1>6. mid \in Some => OfWhole!Folded(mid, ch.whole) \in Some
  <2> SUFFICES ASSUME mid \in Some PROVE OfWhole!Folded(mid, ch.whole) \in Some
    OBVIOUS
  <2> HIDE DEF Some
  <2> QED BY <1>1, <1>2, OfWhole!FoldType, Least
<1> QED BY <1>4, <1>5, <1>6, AddCallsIs DEF mid

LEMMA ToCallsType ==
  ASSUME NEW acc \in Apart, NEW s \in Seq(ChunkLine)
  PROVE  /\ ToCalls!Folded(acc, s) \in Apart
         /\ acc.calls # <<>> => ToCalls!Folded(acc, s).calls # <<>>
<1> DEFINE Some == {a \in Apart : a.calls # <<>>}
<1>1. \A a \in Apart, ch \in ChunkLine : addCalls(a, ch) \in Apart
  BY AddCallsType
<1>2. \A a \in Some, ch \in ChunkLine : addCalls(a, ch) \in Some
  BY AddCallsType
<1>3. ToCalls!Folded(acc, s) \in Apart
  BY <1>1, ToCalls!FoldType, Least
<1>4. ASSUME acc \in Some PROVE ToCalls!Folded(acc, s) \in Some
  <2> HIDE DEF Some
  <2> QED BY <1>2, <1>4, ToCalls!FoldType, Least
<1> QED BY <1>3, <1>4

-----------------------------------------------------------------------------
(* The invariant. *)

(* What is known of a record once its chunks are folded. *)
EndText(r) == ToText!Folded(r.text, r.chunks)
EndCalls(r) == ToCalls!Folded(r.tacc, r.chunks)
EndSaw(r) == r.saw \/ r.chunks # <<>>
EndUsage(r) == ToUsage!Folded(r.usage, r.chunks)

IsRecord(r) ==
  r = [request |-> r.request, response |-> r.response, billing |-> r.billing,
       billed |-> r.billed, status |-> r.status, errors |-> r.errors,
       stalled |-> r.stalled, chunks |-> r.chunks, saw |-> r.saw, count |-> r.count,
       samples |-> r.samples, unknown |-> r.unknown, tacc |-> r.tacc, anth |-> r.anth,
       text |-> r.text, calls |-> r.calls, called |-> r.called, usage |-> r.usage,
       stream |-> r.stream, msgs |-> r.msgs, turns |-> r.turns, tools |-> r.tools,
       outcome |-> r.outcome]

(* What a line sets or adds to: the same in one pass and in many. *)
AsRead(r) == <<r.request, r.response, r.billing, r.billed, r.status, r.errors, r.count,
                r.samples, r.unknown, r.anth>>

Bodies(r) ==
  /\ r.request \in AtMostOne(RequestBody) /\ r.response \in AtMostOne(ResponseBody)
  /\ r.billing \in AtMostOne(BillingBody)

TypeInv ==
  /\ left \in Seq(Line) /\ lines \in Seq(Line) /\ dirty \in BOOLEAN
  /\ IsRecord(rec) /\ Bodies(rec) /\ rec.chunks \in Seq(ChunkLine)
  /\ rec.saw \in BOOLEAN /\ rec.billed \in BOOLEAN /\ rec.stalled \in BOOLEAN
  /\ rec.tacc \in Apart /\ rec.anth \in ApartCalls /\ rec.count \in Nat /\ rec.unknown \in Nat

RawInv ==
  /\ IsRecord(Raw) /\ Raw.chunks \in Seq(ChunkLine)
  /\ ~Raw.saw /\ Raw.tacc = NoTools /\ Raw.text = <<>> /\ Raw.calls = <<>>
  /\ Raw.usage = <<>> /\ ~Raw.stalled

(* The passes behind leave what one pass would. *)
PassInv ==
  /\ AsRead(rec) = AsRead(Raw)
  /\ EndText(rec) = EndText(Raw) /\ EndCalls(rec) = EndCalls(Raw)
  /\ EndSaw(rec) <=> Raw.chunks # <<>>
  /\ rec.calls # <<>> => rec.anth # <<>> \/ rec.tacc.calls # <<>>

Told(kind) == \E i \in DOMAIN lines : Reports(lines[i], kind)

(* A stream's usage is that of its chunks, or, as long as they have none,   *)
(* that of the billing line, which comes last; the usage of a call that has *)
(* not streamed yet is that of a body, and then it never will.  So it is    *)
(* with lines in order.                                                     *)
UsageInOrder ==
  /\ Raw.chunks # <<>> =>
       \/ EndUsage(rec) = EndUsage(Raw)
       \/ EndUsage(Raw) = <<>> /\ EndUsage(rec) = UsageOf(rec.billing)
  /\ Raw.chunks = <<>> =>
       rec.usage = <<>> \/ rec.usage = UsageOf(rec.billing) \/ Told("response")
UsageInv ==
  /\ UsageOf(rec.billing) # <<>> => Told("billing")
  /\ UsageOf(rec.response) # <<>> => Told("response")
  /\ InOrder(lines) => UsageInOrder

(* What finalize derived stands until the next line. *)
CleanInv ==
  /\ lines = <<>> => rec = blank /\ ~dirty
  /\ ~dirty => rec.chunks = <<>> /\ rec.outcome = deriveOutcome(rec) /\ OnePass

(* The lines, field by field. *)
KeptInv ==
  /\ Sent \in Seq(Fragment) /\ Whole \in Seq(Fragment) /\ Events \in Seq(Event)
  /\ EndText(Raw) = Text
  /\ Raw.count = Cardinality(LinesOf("payload"))
  /\ Raw.unknown = Cardinality(LinesOf("unknown"))
  /\ Raw.anth = OfEvents!Folded(<<>>, Events)
  /\ Whole = <<>> => EndCalls(Raw) = OfFrags!Folded(NoTools, Sent)
  /\ Sent = <<>> => EndCalls(Raw) = OfWhole!Folded(NoTools, Whole)

IInv == TypeInv /\ RawInv /\ PassInv /\ UsageInv /\ CleanInv

-----------------------------------------------------------------------------
(* What a line does to a record. *)

LEMMA LineKinds ==
  ASSUME NEW l \in Line
  PROVE  /\ l \in ChunkLine \/ l.kind \in {"gin", "error", "request", "response", "billing"}
         /\ l.kind = "gin" => l.status \in Nat
         /\ l.kind = "request" => l.body \in AtMostOne(RequestBody)
         /\ l.kind = "response" => l.body \in AtMostOne(ResponseBody)
         /\ l.kind = "billing" => l.body \in AtMostOne(BillingBody)
         /\ Payload(l) => l \in ChunkLine
         /\ l.kind \in {"chunk", "gin", "error", "request", "response", "billing"}
         /\ l.kind = "chunk" <=> l \in ChunkLine
<1>1. CASE l \in ChunkLine
  BY <1>1 DEF ChunkLine
<1>2. CASE l \in [kind : {"gin"}, status : Nat] \cup [kind : {"error"}]
  BY <1>2 DEF ChunkLine, Payload
<1>3. CASE l \in [kind : {"request"}, body : AtMostOne(RequestBody)]
  BY <1>3 DEF ChunkLine, Payload
<1>4. CASE l \in [kind : {"response"}, body : AtMostOne(ResponseBody)]
  BY <1>4 DEF ChunkLine, Payload
<1>5. CASE l \in [kind : {"billing"}, body : AtMostOne(BillingBody)]
  BY <1>5 DEF ChunkLine, Payload
<1> QED BY <1>1, <1>2, <1>3, <1>4, <1>5 DEF Line

LEMMA ChunkIs ==
  ASSUME NEW r, NEW ch
  PROVE  Chunk(r, ch) =
           CASE ch.class = "payload" ->
                  [r EXCEPT !.anth = OfEvents!Folded(@, ch.anth),
                            !.chunks = Append(@, ch), !.count = @ + 1]
             [] ch.class = "unknown" ->
                  [r EXCEPT !.samples = IF @ < MaxSamples THEN @ + 1 ELSE @,
                            !.unknown = @ + 1]
             [] OTHER -> r
<1>1. FoldLeft(applyAnthropic, r.anth, ch.anth) = OfEvents!Folded(r.anth, ch.anth)
  BY CallFolds
<1> QED BY <1>1 DEF Chunk

Unknown(l) == l.kind = "chunk" /\ l.class = "unknown"

Handled(r, l, q) ==
  /\ IsRecord(q)
  /\ q.request = IF l.kind = "request" THEN l.body ELSE r.request
  /\ q.response = IF l.kind = "response" THEN l.body ELSE r.response
  /\ q.billing = IF l.kind = "billing" THEN l.body ELSE r.billing
  /\ q.billed = IF l.kind = "billing" THEN TRUE ELSE r.billed
  /\ q.status = IF l.kind = "gin" THEN l.status ELSE r.status
  /\ q.errors = IF l.kind = "error" THEN r.errors + 1 ELSE r.errors
  /\ q.chunks = IF Payload(l) THEN Append(r.chunks, l) ELSE r.chunks
  /\ q.count = IF Payload(l) THEN r.count + 1 ELSE r.count
  /\ q.anth = IF Payload(l) THEN OfEvents!Folded(r.anth, l.anth) ELSE r.anth
  /\ q.samples = IF Unknown(l) /\ r.samples < MaxSamples THEN r.samples + 1 ELSE r.samples
  /\ q.unknown = IF Unknown(l) THEN r.unknown + 1 ELSE r.unknown
  /\ q.stalled = r.stalled /\ q.saw = r.saw /\ q.tacc = r.tacc /\ q.text = r.text
  /\ q.calls = r.calls /\ q.usage = r.usage

LEMMA HandleLineDoes ==
  ASSUME NEW r, IsRecord(r), NEW l \in Line
  PROVE  Handled(r, l, handleLine(r, l))
<1> DEFINE q == handleLine(r, l)
<1>1. CASE l \in ChunkLine
  <2>1. l.kind = "chunk" /\ l.class \in {"payload", "unknown", "empty"} /\ q = Chunk(r, l)
    BY <1>1 DEF ChunkLine, handleLine
  <2>2. CASE l.class = "payload"
    <3> DEFINE a == OfEvents!Folded(r.anth, l.anth)
    <3>1. q = [r EXCEPT !.anth = OfEvents!Folded(@, l.anth), !.chunks = Append(@, l),
                        !.count = @ + 1]
      BY <2>1, <2>2, ChunkIs
    <3>2. q = [r EXCEPT !.anth = a, !.chunks = Append(r.chunks, l), !.count = r.count + 1]
      BY <3>1 DEF IsRecord
    <3> HIDE DEF q, a
    <3>3. Payload(l) /\ ~Unknown(l)
      BY <2>1, <2>2 DEF Payload, Unknown
    <3>4. Handled(r, l, q) <=>
            /\ IsRecord(q) /\ q.chunks = Append(r.chunks, l) /\ q.count = r.count + 1
            /\ q.anth = a /\ q.request = r.request /\ q.response = r.response
            /\ q.billing = r.billing /\ q.billed = r.billed /\ q.status = r.status
            /\ q.errors = r.errors /\ q.samples = r.samples /\ q.unknown = r.unknown
            /\ q.stalled = r.stalled /\ q.saw = r.saw /\ q.tacc = r.tacc /\ q.text = r.text
            /\ q.calls = r.calls /\ q.usage = r.usage
      BY <2>1, <3>3 DEF Handled, a
    <3>5. Handled(r, l, q)
      BY <3>2, <3>4 DEF IsRecord
    <3> QED BY <3>5 DEF q
  <2>3. CASE l.class = "unknown"
    <3>1. q = [r EXCEPT !.samples = IF r.samples < MaxSamples THEN r.samples + 1 ELSE r.samples,
                        !.unknown = r.unknown + 1]
      BY <2>1, <2>3, ChunkIs DEF IsRecord
    <3> HIDE DEF q
    <3>2. ~Payload(l) /\ Unknown(l)
      BY <2>1, <2>3 DEF Payload, Unknown
    <3> DEFINE n == IF r.samples < MaxSamples THEN r.samples + 1 ELSE r.samples
               k == r.unknown + 1
    <3>3. q = [r EXCEPT !.samples = n, !.unknown = k]
      BY <3>1
    <3> HIDE DEF n, k
    <3>4. IsRecord(q) /\ q.samples = n /\ q.unknown = k
      BY <3>3 DEF IsRecord
    <3>5. /\ q.chunks = r.chunks /\ q.count = r.count /\ q.anth = r.anth
          /\ q.request = r.request /\ q.response = r.response /\ q.billing = r.billing
          /\ q.billed = r.billed /\ q.status = r.status /\ q.errors = r.errors
          /\ q.stalled = r.stalled /\ q.saw = r.saw /\ q.tacc = r.tacc /\ q.text = r.text
          /\ q.calls = r.calls /\ q.usage = r.usage
      BY <3>3
    <3>6. Handled(r, l, q)
      BY <2>1, <3>2, <3>4, <3>5 DEF Handled, n, k
    <3> QED BY <3>6 DEF q
  <2>4. CASE l.class = "empty"
    <3>1. q = r
      BY <2>1, <2>4, ChunkIs
    <3> HIDE DEF q
    <3>2. ~Payload(l) /\ ~Unknown(l)
      BY <2>1, <2>4 DEF Payload, Unknown
    <3>3. Handled(r, l, q)
      BY <2>1, <3>1, <3>2 DEF Handled
    <3> QED BY <3>3 DEF q
  <2> QED BY <2>1, <2>2, <2>3, <2>4
<1>2. ASSUME l.kind # "chunk" PROVE ~Payload(l) /\ ~Unknown(l)
  BY <1>2 DEF Payload, Unknown
<1>3. CASE l.kind = "gin"
  <2>1. q = [r EXCEPT !.status = l.status]
    BY <1>3 DEF handleLine
  <2> HIDE DEF q
  <2>2. Handled(r, l, q)
    BY <1>2, <1>3, <2>1 DEF IsRecord, Handled
  <2> QED BY <2>2 DEF q
<1>4. CASE l.kind = "request"
  <2>1. q = [r EXCEPT !.request = l.body]
    BY <1>4 DEF handleLine
  <2> HIDE DEF q
  <2>2. Handled(r, l, q)
    BY <1>2, <1>4, <2>1 DEF IsRecord, Handled
  <2> QED BY <2>2 DEF q
<1>5. CASE l.kind = "response"
  <2>1. q = [r EXCEPT !.response = l.body]
    BY <1>5 DEF handleLine
  <2> HIDE DEF q
  <2>2. Handled(r, l, q)
    BY <1>2, <1>5, <2>1 DEF IsRecord, Handled
  <2> QED BY <2>2 DEF q
<1>6. CASE l.kind = "billing"
  <2>1. q = [r EXCEPT !.billing = l.body, !.billed = TRUE]
    BY <1>6 DEF handleLine
  <2> HIDE DEF q
  <2>2. Handled(r, l, q)
    BY <1>2, <1>6, <2>1 DEF IsRecord, Handled
  <2> QED BY <2>2 DEF q
<1>7. CASE l.kind = "error"
  <2>1. q = [r EXCEPT !.errors = r.errors + 1]
    BY <1>7 DEF handleLine, IsRecord
  <2> HIDE DEF q
  <2>2. Handled(r, l, q)
    BY <1>2, <1>7, <2>1 DEF IsRecord, Handled
  <2> QED BY <2>2 DEF q
<1> QED BY <1>1, <1>3, <1>4, <1>5, <1>6, <1>7, LineKinds

LEMMA BlankIs ==
  /\ IsRecord(blank) /\ blank.chunks = <<>> /\ blank.saw = FALSE /\ blank.tacc = NoTools
  /\ blank.text = <<>> /\ blank.calls = <<>> /\ blank.usage = <<>> /\ blank.stalled = FALSE
  /\ blank.request = <<>> /\ blank.response = <<>> /\ blank.billing = <<>>
  /\ blank.billed = FALSE /\ blank.anth = <<>> /\ blank.count = 0 /\ blank.unknown = 0
BY DEF blank, IsRecord

-----------------------------------------------------------------------------
(* What the end of a pass does to a record. *)

LEMMA FoldChunkIs ==
  ASSUME NEW r, NEW ch
  PROVE  foldChunk(r, ch) = [r EXCEPT !.text = addText(@, ch), !.tacc = addCalls(@, ch),
                                      !.usage = addUsage(@, ch)]
BY DEF foldChunk, addText, addCalls, addUsage

Ended(r, s) ==
  [r EXCEPT !.text = ToText!Folded(r.text, s), !.tacc = ToCalls!Folded(r.tacc, s),
            !.usage = ToUsage!Folded(r.usage, s)]

LEMMA ChunksFolded ==
  ASSUME NEW r, IsRecord(r), NEW s \in Seq(ChunkLine)
  PROVE  OfChunks!Folded(r, s) = Ended(r, s)
<1> DEFINE Q == {u \in Seq(ChunkLine) : OfChunks!Folded(r, u) = Ended(r, u)}
<1>1. <<>> \in Q
  <2>1. ToText!Folded(r.text, <<>>) = r.text
    BY ToText!FoldEmpty
  <2>2. ToCalls!Folded(r.tacc, <<>>) = r.tacc
    BY ToCalls!FoldEmpty
  <2>3. ToUsage!Folded(r.usage, <<>>) = r.usage
    BY ToUsage!FoldEmpty
  <2>4. Ended(r, <<>>) = r
    BY <2>1, <2>2, <2>3 DEF Ended, IsRecord
  <2> QED BY <2>4, OfChunks!FoldEmpty
<1>2. ASSUME NEW u \in Seq(ChunkLine), NEW ch \in ChunkLine, u \in Q
      PROVE  Append(u, ch) \in Q
  <2> DEFINE t == ToText!Folded(r.text, u)
             a == ToCalls!Folded(r.tacc, u)
             n == ToUsage!Folded(r.usage, u)
             e == Ended(r, u)
  <2>1. OfChunks!Folded(r, Append(u, ch)) = foldChunk(e, ch)
    BY <1>2, OfChunks!FoldAppend, Least
  <2>2. /\ ToText!Folded(r.text, Append(u, ch)) = addText(t, ch)
        /\ ToCalls!Folded(r.tacc, Append(u, ch)) = addCalls(a, ch)
        /\ ToUsage!Folded(r.usage, Append(u, ch)) = addUsage(n, ch)
    <3>1. ToText!Folded(r.text, Append(u, ch)) = addText(t, ch)
      BY ToText!FoldAppend, Least
    <3>2. ToCalls!Folded(r.tacc, Append(u, ch)) = addCalls(a, ch)
      BY ToCalls!FoldAppend, Least
    <3>3. ToUsage!Folded(r.usage, Append(u, ch)) = addUsage(n, ch)
      BY ToUsage!FoldAppend, Least
    <3> QED BY <3>1, <3>2, <3>3
  <2>3. e = [r EXCEPT !.text = t, !.tacc = a, !.usage = n]
    BY DEF Ended
  <2>4. Ended(r, Append(u, ch)) = [r EXCEPT !.text = addText(t, ch), !.tacc = addCalls(a, ch),
                                            !.usage = addUsage(n, ch)]
    BY <2>2 DEF Ended
  <2> HIDE DEF t, a, n, e
  <2>5. foldChunk(e, ch) = Ended(r, Append(u, ch))
    BY <2>3, <2>4, FoldChunkIs DEF IsRecord
  <2> QED BY <2>1, <2>5
<1>3. Seq(ChunkLine) \subseteq Q
  <2> HIDE DEF Q
  <2> QED BY <1>1, <1>2, OfChunks!SeqInduction, Least
<1> QED BY <1>3

(* The usage finalize starts from. *)
StartUsage(r) == IF EndSaw(r) THEN EndUsage(r) ELSE UsageOf(r.response)

LEMMA StreamedIs ==
  ASSUME NEW r, IsRecord(r), r.chunks \in Seq(ChunkLine), r.saw \in BOOLEAN
  PROVE  Streamed(r) = [r EXCEPT !.text = EndText(r), !.tacc = EndCalls(r),
                                 !.usage = StartUsage(r), !.saw = EndSaw(r)]
<1>1. CASE r.chunks # <<>>
  <2>1. FoldLeft(foldChunk, r, r.chunks) = OfChunks!Folded(r, r.chunks)
    BY DEF FoldLeft, MapThenFoldSet, Max, OfChunks!Folded, OfChunks!Table,
           OfChunks!Before, OfChunks!Largest
  <2>2. Streamed(r) = [Ended(r, r.chunks) EXCEPT !.saw = TRUE]
    BY <1>1, <2>1, ChunksFolded DEF Streamed
  <2>3. EndSaw(r) = TRUE /\ StartUsage(r) = EndUsage(r)
    BY <1>1 DEF EndSaw, StartUsage
  <2> DEFINE t == EndText(r)
             a == EndCalls(r)
             n == EndUsage(r)
  <2>4. Ended(r, r.chunks) = [r EXCEPT !.text = t, !.tacc = a, !.usage = n]
    BY DEF Ended, EndText, EndCalls, EndUsage
  <2> HIDE DEF t, a, n
  <2>5. Streamed(r) = [r EXCEPT !.text = t, !.tacc = a, !.usage = n, !.saw = TRUE]
    BY <2>2, <2>4 DEF IsRecord
  <2> QED BY <2>3, <2>5 DEF t, a, n
<1>2. CASE r.chunks = <<>>
  <2>1. EndText(r) = r.text /\ EndCalls(r) = r.tacc /\ EndUsage(r) = r.usage
    BY <1>2, ToText!FoldEmpty, ToCalls!FoldEmpty, ToUsage!FoldEmpty
       DEF EndText, EndCalls, EndUsage
  <2>2. EndSaw(r) = r.saw
    BY <1>2 DEF EndSaw
  <2>3. CASE r.saw
    <3>1. Streamed(r) = r /\ StartUsage(r) = r.usage
      BY <1>2, <2>1, <2>2, <2>3 DEF Streamed, StartUsage
    <3> QED BY <2>1, <2>2, <3>1 DEF IsRecord
  <2>4. CASE ~r.saw
    <3> DEFINE n == UsageOf(r.response)
    <3>1. Streamed(r) = [r EXCEPT !.usage = n] /\ StartUsage(r) = n
      BY <1>2, <2>2, <2>4 DEF Streamed, StartUsage
    <3> HIDE DEF n
    <3> QED BY <2>1, <2>2, <3>1 DEF IsRecord
  <2> QED BY <2>3, <2>4
<1> QED BY <1>1, <1>2

Body(request) ==
  IF request = <<>> THEN [messages |-> <<>>, contents |-> <<>>, tools |-> 0,
                          declared |-> 0, stream |-> FALSE]
  ELSE request[1]
EndJoined(r) == IF r.anth # <<>> THEN r.anth
                ELSE IF EndCalls(r).calls # <<>> THEN EndCalls(r).calls ELSE r.calls
LastUsage(r) == IF StartUsage(r) = <<>> THEN UsageOf(r.billing) ELSE StartUsage(r)
EndStream(r) == Body(r.request).stream \/ EndSaw(r)

Finalized(r, q) ==
  /\ IsRecord(q)
  /\ q.request = r.request /\ q.response = r.response /\ q.billing = r.billing
  /\ q.billed = r.billed /\ q.status = r.status /\ q.errors = r.errors
  /\ q.stalled = r.stalled /\ q.chunks = <<>> /\ q.saw = EndSaw(r) /\ q.count = r.count
  /\ q.samples = r.samples /\ q.unknown = r.unknown /\ q.tacc = EndCalls(r)
  /\ q.anth = r.anth /\ q.text = EndText(r) /\ q.calls = EndJoined(r)
  /\ q.called = (IF EndStream(r) THEN Names(EndJoined(r))
                 ELSE IF r.response = <<>> THEN {} ELSE r.response[1].calls)
  /\ q.usage = LastUsage(r) /\ q.stream = EndStream(r)
  /\ q.msgs = Len(fromGemini(Body(r.request))) /\ q.turns = Turns(fromGemini(Body(r.request)))
  /\ q.tools = Body(r.request).tools + Body(r.request).declared
  /\ q.outcome = deriveOutcome(r)

LEMMA FinalizeDoes ==
  ASSUME NEW r, IsRecord(r), r.chunks \in Seq(ChunkLine), r.saw \in BOOLEAN
  PROVE  Finalized(r, finalize(r))
<1> DEFINE s == Streamed(r)
           calls == JoinedCalls(r.calls, s)
           body == Body(r.request)
           messages == fromGemini(body)
           stream == body.stream \/ s.saw
           q == finalize(r)
<1>1. q = [s EXCEPT
             !.calls = calls,
             !.usage = IF @ = <<>> THEN UsageOf(r.billing) ELSE @,
             !.stream = stream,
             !.called = IF stream THEN Names(calls)
                        ELSE IF r.response = <<>> THEN {} ELSE r.response[1].calls,
             !.msgs = Len(messages), !.turns = Turns(messages),
             !.tools = body.tools + body.declared,
             !.outcome = deriveOutcome(r),
             !.chunks = <<>>]
  BY DEF finalize, Body
<1> DEFINE t == EndText(r)
           a == EndCalls(r)
           n == StartUsage(r)
           w == EndSaw(r)
<1>2. s = [r EXCEPT !.text = t, !.tacc = a, !.usage = n, !.saw = w]
  BY StreamedIs
<1> HIDE DEF s
<1>3. s.saw = w /\ s.usage = n /\ s.anth = r.anth /\ s.tacc = a
  <2> HIDE DEF t, a, n, w
  <2> QED BY <1>2 DEF IsRecord
<1>4. calls = EndJoined(r)
  BY <1>3 DEF JoinedCalls, EndJoined
<1>5. stream = EndStream(r) /\ LastUsage(r) = IF n = <<>> THEN UsageOf(r.billing) ELSE n
  BY <1>3 DEF EndStream, LastUsage
<1> DEFINE u == LastUsage(r)
           called == IF EndStream(r) THEN Names(EndJoined(r))
                     ELSE IF r.response = <<>> THEN {} ELSE r.response[1].calls
           j == EndJoined(r)
           e == EndStream(r)
           m == Len(messages)
           k == Turns(messages)
           d == body.tools + body.declared
           o == deriveOutcome(r)
<1>6. q = [s EXCEPT !.calls = j, !.usage = u, !.stream = e, !.called = called,
                    !.msgs = m, !.turns = k, !.tools = d, !.outcome = o, !.chunks = <<>>]
  <2> DEFINE p == IF s.usage = <<>> THEN UsageOf(r.billing) ELSE s.usage
  <2>1. p = u
    BY <1>3, <1>5
  <2> DEFINE c == IF stream THEN Names(calls)
                  ELSE IF r.response = <<>> THEN {} ELSE r.response[1].calls
  <2>2. c = called
    BY <1>4, <1>5
  <2>3. calls = j /\ stream = e
    BY <1>4, <1>5
  <2>4. q = [s EXCEPT !.calls = calls, !.usage = p, !.stream = stream, !.called = c,
                      !.msgs = m, !.turns = k, !.tools = d, !.outcome = o, !.chunks = <<>>]
    BY <1>1
  <2> HIDE DEF u, called, j, e, q, calls, stream, p, c, m, k, d, o
  <2> QED BY <2>1, <2>2, <2>3, <2>4
<1> HIDE DEF q, u, called, j, e, m, k, d, o, t, a, n, w
<1>7. q = [request |-> r.request, response |-> r.response, billing |-> r.billing,
           billed |-> r.billed, status |-> r.status, errors |-> r.errors,
           stalled |-> r.stalled, chunks |-> <<>>, saw |-> w, count |-> r.count,
           samples |-> r.samples, unknown |-> r.unknown, tacc |-> a, anth |-> r.anth,
           text |-> t, calls |-> j, called |-> called, usage |-> u, stream |-> e,
           msgs |-> m, turns |-> k, tools |-> d, outcome |-> o]
  BY <1>2, <1>6 DEF IsRecord
<1>8. IsRecord(q)
  BY <1>7 DEF IsRecord
<1> QED BY <1>7, <1>8 DEF Finalized, q, u, called, j, e, m, k, d, o, t, a, w

LEMMA OutcomeOf ==
  ASSUME NEW r, NEW q, r.status = q.status, r.billing = q.billing, r.billed = q.billed,
         r.stalled = q.stalled, r.errors = q.errors
  PROVE  deriveOutcome(r) = deriveOutcome(q)
BY DEF deriveOutcome

(* Two records that differ in their usage at most. *)
SameButUsage(r, q) ==
  /\ r.request = q.request /\ r.response = q.response /\ r.billing = q.billing
  /\ r.billed = q.billed /\ r.status = q.status /\ r.errors = q.errors
  /\ r.stalled = q.stalled /\ r.chunks = q.chunks /\ r.saw = q.saw /\ r.count = q.count
  /\ r.samples = q.samples /\ r.unknown = q.unknown /\ r.tacc = q.tacc
  /\ r.anth = q.anth /\ r.text = q.text /\ r.calls = q.calls /\ r.called = q.called
  /\ r.stream = q.stream /\ r.msgs = q.msgs /\ r.turns = q.turns /\ r.tools = q.tools
  /\ r.outcome = q.outcome

LEMMA ButUsageIs ==
  ASSUME NEW r, IsRecord(r), NEW q, IsRecord(q)
  PROVE  ButUsage(r) = ButUsage(q) <=> SameButUsage(r, q)
<1> DEFINE a == ButUsage(r)
           b == ButUsage(q)
<1>1. /\ IsRecord(a) /\ SameButUsage(a, r) /\ a.usage = <<>>
      /\ IsRecord(b) /\ SameButUsage(b, q) /\ b.usage = <<>>
  <2>1. IsRecord(a) /\ SameButUsage(a, r) /\ a.usage = <<>>
    BY DEF ButUsage, IsRecord, SameButUsage
  <2>2. IsRecord(b) /\ SameButUsage(b, q) /\ b.usage = <<>>
    BY DEF ButUsage, IsRecord, SameButUsage
  <2> QED BY <2>1, <2>2
<1> HIDE DEF a, b
<1>2. a = b => SameButUsage(r, q)
  BY <1>1 DEF SameButUsage
<1>3. SameButUsage(r, q) => SameButUsage(a, b)
  BY <1>1 DEF SameButUsage
<1>4. SameButUsage(a, b) => a = b
  BY <1>1 DEF SameButUsage, IsRecord
<1> QED BY <1>2, <1>3, <1>4 DEF a, b

LEMMA SameEnd ==
  ASSUME NEW r, IsRecord(r), r.chunks \in Seq(ChunkLine), r.saw \in BOOLEAN,
         NEW q, IsRecord(q), q.chunks \in Seq(ChunkLine), q.saw \in BOOLEAN,
         AsRead(r) = AsRead(q), r.stalled = q.stalled, EndText(r) = EndText(q),
         EndCalls(r) = EndCalls(q), EndSaw(r) = EndSaw(q), EndJoined(r) = EndJoined(q)
  PROVE  /\ ButUsage(finalize(r)) = ButUsage(finalize(q))
         /\ LastUsage(r) = LastUsage(q) => finalize(r).usage = finalize(q).usage
<1> DEFINE f == finalize(r)
           g == finalize(q)
<1>1. Finalized(r, f) /\ Finalized(q, g)
  BY FinalizeDoes
<1>2. /\ r.request = q.request /\ r.response = q.response /\ r.billing = q.billing
      /\ r.billed = q.billed /\ r.status = q.status /\ r.errors = q.errors
      /\ r.count = q.count /\ r.samples = q.samples /\ r.unknown = q.unknown
      /\ r.anth = q.anth
  BY DEF AsRead
<1>3. deriveOutcome(r) = deriveOutcome(q)
  BY <1>2, OutcomeOf
<1>4. EndStream(r) = EndStream(q)
  BY <1>2 DEF EndStream
<1> HIDE DEF f, g
<1>5. /\ f.request = g.request /\ f.response = g.response /\ f.billing = g.billing
      /\ f.billed = g.billed /\ f.status = g.status /\ f.errors = g.errors
      /\ f.stalled = g.stalled /\ f.chunks = g.chunks /\ f.saw = g.saw /\ f.count = g.count
      /\ f.samples = g.samples /\ f.unknown = g.unknown /\ f.tacc = g.tacc
      /\ f.anth = g.anth /\ f.text = g.text /\ f.calls = g.calls
  BY <1>1, <1>2 DEF Finalized
<1>6. /\ f.called = g.called /\ f.stream = g.stream
      /\ f.msgs = g.msgs /\ f.turns = g.turns /\ f.tools = g.tools /\ f.outcome = g.outcome
  BY <1>1, <1>2, <1>3, <1>4 DEF Finalized
<1>7. IsRecord(f) /\ IsRecord(g)
  BY <1>1 DEF Finalized
<1>8. ButUsage(f) = ButUsage(g)
  <2>1. SameButUsage(f, g)
    BY <1>5, <1>6 DEF SameButUsage
  <2> QED BY <1>7, <2>1, ButUsageIs
<1>9. f.usage = LastUsage(r) /\ g.usage = LastUsage(q)
  BY <1>1 DEF Finalized
<1> QED BY <1>8, <1>9 DEF f, g

-----------------------------------------------------------------------------
(* The invariant holds. *)

LEMMA InitIInv == ASSUME Init PROVE IInv
<1>1. left \in Seq(Line) /\ lines = <<>> /\ rec = blank /\ dirty = FALSE
  BY ParserAssumption DEF Init
<1>2. Raw = blank
  BY <1>1, OfLines!FoldEmpty DEF Raw
<1>3. blank.anth \in ApartCalls /\ blank.tacc \in Apart
  BY BlankIs, NoToolsType DEF ApartCalls, OneCallEach
<1>4. TypeInv
  <2>1. \A S : <<>> \in AtMostOne(S)
    BY DEF AtMostOne
  <2>2. Bodies(blank)
    BY <2>1, BlankIs DEF Bodies
  <2>3. <<>> \in Seq(Line) /\ <<>> \in Seq(ChunkLine)
    OBVIOUS
  <2>4. blank.count \in Nat /\ blank.unknown \in Nat
    BY BlankIs
  <2>5. blank.saw \in BOOLEAN /\ blank.billed \in BOOLEAN /\ blank.stalled \in BOOLEAN
    BY BlankIs
  <2>6. IsRecord(blank) /\ blank.chunks \in Seq(ChunkLine)
    BY <2>3, BlankIs
  <2> QED BY <1>1, <1>3, <2>2, <2>3, <2>4, <2>5, <2>6 DEF TypeInv
<1>5. RawInv
  BY <1>2, BlankIs DEF RawInv
<1>6. PassInv
  BY <1>1, <1>2, BlankIs DEF PassInv, EndSaw
<1>7. UsageInv
  BY <1>1, <1>2, BlankIs DEF UsageInv, UsageInOrder, UsageOf
<1>8. CleanInv
  <2>1. blank.status = 0 /\ blank.errors = 0 /\ blank.outcome = <<"", "">>
    BY DEF blank
  <2>2. deriveOutcome(blank) = <<"", "">>
    <3> DEFINE bill == IF blank.billing = <<>> THEN "" ELSE blank.billing[1].stream
    <3>1. bill = "" /\ ~(blank.billed \/ blank.billing # <<>>) /\ ~blank.stalled
      BY BlankIs
    <3>2. ~(blank.errors > 0)
      <4> HIDE DEF bill
      <4>1. blank.errors = 0
        BY <2>1
      <4>2. ~(0 > 0)
        OBVIOUS
      <4> QED BY <4>1, <4>2, Zenon
    <3> QED BY <2>1, <3>1, <3>2 DEF deriveOutcome
  <2> QED BY <1>1, <2>1, <2>2, BlankIs DEF CleanInv, OnePass
<1> QED BY <1>4, <1>5, <1>6, <1>7, <1>8 DEF IInv

LEMMA TailOf ==
  ASSUME NEW T, NEW s \in Seq(T), s # <<>>
  PROVE  /\ Head(s) \in T /\ Tail(s) \in Seq(T) /\ Len(s) \in Nat /\ Len(s) # 0
         /\ DOMAIN s = 1..Len(s) /\ DOMAIN Tail(s) = 1..(Len(s) - 1)
         /\ Head(s) = s[1] /\ \A i \in 1..(Len(s) - 1) : Tail(s)[i] = s[i + 1]
<1>1. Len(s) \in Nat /\ Len(s) # 0
  BY EmptySeq, LenProperties
<1> QED BY <1>1, HeadTailProperties, LenProperties

LEMMA MissIInv == ASSUME IInv, Miss PROVE IInv'
<1>1. /\ left # <<>> /\ left' = Tail(left) /\ lines' = lines /\ rec' = rec /\ dirty' = dirty
  BY DEF Miss
<1>2. Raw' = Raw
  BY <1>1 DEF Raw
<1>3. TypeInv'
  <2>1. left' \in Seq(Line)
    BY <1>1, TailOf DEF IInv, TypeInv
  <2> QED BY <1>1, <2>1 DEF IInv, TypeInv
<1>4. RawInv'
  BY <1>2 DEF IInv, RawInv
<1>5. PassInv'
  BY <1>1, <1>2 DEF IInv, PassInv, EndText, EndCalls, EndSaw
<1>6. UsageInv'
  BY <1>1, <1>2 DEF IInv, UsageInv, UsageInOrder, Told
<1>7. CleanInv'
  BY <1>1 DEF IInv, CleanInv, OnePass, InOnePass
<1> QED BY <1>3, <1>4, <1>5, <1>6, <1>7 DEF IInv

LEMMA ReadDoes ==
  ASSUME IInv, Read
  PROVE  LET l == Head(left)
         IN  /\ l \in Line /\ left # <<>> /\ left' = Tail(left) /\ lines' = Append(lines, l)
             /\ dirty' = TRUE /\ Handled(rec, l, rec') /\ Handled(Raw, l, Raw')
<1> DEFINE l == Head(left)
<1>1. left # <<>> /\ l \in Line /\ lines \in Seq(Line)
  BY TailOf DEF Read, IInv, TypeInv
<1>2. Raw' = handleLine(Raw, l)
  <2>1. lines' = Append(lines, l)
    BY DEF Read
  <2> HIDE DEF l
  <2>2. OfLines!Folded(blank, Append(lines, l)) = handleLine(OfLines!Folded(blank, lines), l)
    BY <1>1, OfLines!FoldAppend, Least
  <2> QED BY <2>1, <2>2 DEF Raw
<1>3. rec' = handleLine(rec, l)
  BY DEF Read
<1>4. IsRecord(rec) /\ IsRecord(Raw)
  BY DEF IInv, TypeInv, RawInv
<1> HIDE DEF l
<1>5. Handled(rec, l, rec') /\ Handled(Raw, l, Raw')
  BY <1>1, <1>2, <1>3, <1>4, HandleLineDoes
<1> QED BY <1>1, <1>5 DEF Read, l

LEMMA ReadTypes == ASSUME IInv, Read PROVE TypeInv' /\ RawInv'
<1> DEFINE l == Head(left)
<1>1. /\ l \in Line /\ left # <<>> /\ left' = Tail(left) /\ lines' = Append(lines, l)
      /\ dirty' = TRUE /\ Handled(rec, l, rec') /\ Handled(Raw, l, Raw')
  BY ReadDoes
<1> HIDE DEF l
<1>2. left' \in Seq(Line) /\ lines' \in Seq(Line)
  BY <1>1, TailOf DEF IInv, TypeInv
<1>3. /\ l.kind = "request" => l.body \in AtMostOne(RequestBody)
      /\ l.kind = "response" => l.body \in AtMostOne(ResponseBody)
      /\ l.kind = "billing" => l.body \in AtMostOne(BillingBody)
  BY <1>1, LineKinds
<1>4. Bodies(rec')
  BY <1>1, <1>3 DEF IInv, TypeInv, Bodies, Handled
<1>5. ASSUME NEW s \in Seq(ChunkLine) PROVE (IF Payload(l) THEN Append(s, l) ELSE s) \in Seq(ChunkLine)
  BY <1>1, LineKinds
<1>6. rec'.chunks \in Seq(ChunkLine) /\ Raw'.chunks \in Seq(ChunkLine)
  BY <1>1, <1>5 DEF IInv, TypeInv, RawInv, Handled
<1>7. rec'.anth \in ApartCalls
  <2>1. CASE Payload(l)
    <3>1. l.anth \in Seq(Event) /\ rec.anth \in ApartCalls
      BY <1>1, <2>1, LineKinds DEF ChunkLine, IInv, TypeInv
    <3>2. \A a \in ApartCalls, ev \in Event : applyAnthropic(a, ev) \in ApartCalls
      BY EventType
    <3>3. OfEvents!Folded(rec.anth, l.anth) \in ApartCalls
      BY <3>1, <3>2, OfEvents!FoldType, Least
    <3> QED BY <1>1, <2>1, <3>3 DEF Handled
  <2>2. CASE ~Payload(l)
    BY <1>1, <2>2 DEF Handled, IInv, TypeInv
  <2> QED BY <2>1, <2>2
<1>8. /\ IsRecord(rec') /\ rec'.saw = rec.saw /\ rec'.stalled = rec.stalled
      /\ rec'.billed \in BOOLEAN /\ rec'.tacc = rec.tacc
      /\ rec'.count \in Nat /\ rec'.unknown \in Nat
  <2>1. rec.count \in Nat /\ rec.unknown \in Nat /\ rec.billed \in BOOLEAN
    BY DEF IInv, TypeInv
  <2>2. /\ IsRecord(rec') /\ rec'.saw = rec.saw /\ rec'.stalled = rec.stalled
        /\ rec'.tacc = rec.tacc
        /\ rec'.billed = IF l.kind = "billing" THEN TRUE ELSE rec.billed
        /\ rec'.count = IF Payload(l) THEN rec.count + 1 ELSE rec.count
        /\ rec'.unknown = IF Unknown(l) THEN rec.unknown + 1 ELSE rec.unknown
    BY <1>1 DEF Handled
  <2>3. rec'.count \in Nat
    BY <2>1, <2>2
  <2>4. rec'.unknown \in Nat
    BY <2>1, <2>2
  <2>5. rec'.billed \in BOOLEAN
    BY <2>1, <2>2
  <2> QED BY <2>2, <2>3, <2>4, <2>5
<1>9. TypeInv'
  BY <1>1, <1>2, <1>4, <1>6, <1>7, <1>8 DEF IInv, TypeInv
<1>10. RawInv'
  BY <1>1, <1>6 DEF Handled, IInv, RawInv
<1> QED BY <1>9, <1>10

LEMMA AppendNotEmpty ==
  ASSUME NEW T, NEW s \in Seq(T), NEW x \in T PROVE Append(s, x) # <<>>
<1>1. Len(Append(s, x)) = Len(s) + 1 /\ Len(s) \in Nat
  BY AppendProperties, LenProperties
<1>2. Len(<<>>) = 0
  OBVIOUS
<1> QED BY <1>1, <1>2

LEMMA ReadPass == ASSUME IInv, Read PROVE PassInv'
<1> DEFINE l == Head(left)
<1>1. l \in Line /\ Handled(rec, l, rec') /\ Handled(Raw, l, Raw')
  BY ReadDoes
<1> HIDE DEF l
<1>2. /\ rec.chunks \in Seq(ChunkLine) /\ Raw.chunks \in Seq(ChunkLine)
      /\ rec.anth \in ApartCalls /\ rec.saw \in BOOLEAN /\ ~Raw.saw
  BY DEF IInv, TypeInv, RawInv
<1>3. /\ AsRead(rec) = AsRead(Raw) /\ EndText(rec) = EndText(Raw)
      /\ EndCalls(rec) = EndCalls(Raw) /\ (EndSaw(rec) <=> Raw.chunks # <<>>)
      /\ rec.calls # <<>> => rec.anth # <<>> \/ rec.tacc.calls # <<>>
  BY DEF IInv, PassInv
<1>4. AsRead(rec') = AsRead(Raw')
  <2>1. /\ rec.request = Raw.request /\ rec.response = Raw.response
        /\ rec.billing = Raw.billing /\ rec.billed = Raw.billed
        /\ rec.status = Raw.status /\ rec.errors = Raw.errors /\ rec.count = Raw.count
        /\ rec.samples = Raw.samples /\ rec.unknown = Raw.unknown /\ rec.anth = Raw.anth
    BY <1>3 DEF AsRead
  <2> QED BY <1>1, <2>1 DEF Handled, AsRead
<1>5. /\ rec'.text = rec.text /\ rec'.tacc = rec.tacc /\ rec'.saw = rec.saw
      /\ Raw'.text = Raw.text /\ Raw'.tacc = Raw.tacc /\ rec'.calls = rec.calls
  BY <1>1 DEF Handled
<1>6. CASE Payload(l)
  <2>1. /\ rec'.chunks = Append(rec.chunks, l) /\ Raw'.chunks = Append(Raw.chunks, l)
        /\ rec'.anth = OfEvents!Folded(rec.anth, l.anth)
        /\ l \in ChunkLine /\ l.anth \in Seq(Event)
    BY <1>1, <1>6, LineKinds DEF Handled, ChunkLine
  <2>2. EndText(rec') = EndText(Raw')
    <3>1. /\ ToText!Folded(rec.text, Append(rec.chunks, l)) = addText(EndText(rec), l)
          /\ ToText!Folded(Raw.text, Append(Raw.chunks, l)) = addText(EndText(Raw), l)
      BY <1>2, <2>1, EndAppend DEF EndText
    <3> QED BY <1>3, <1>5, <2>1, <3>1 DEF EndText
  <2>3. EndCalls(rec') = EndCalls(Raw')
    <3>1. /\ ToCalls!Folded(rec.tacc, Append(rec.chunks, l)) = addCalls(EndCalls(rec), l)
          /\ ToCalls!Folded(Raw.tacc, Append(Raw.chunks, l)) = addCalls(EndCalls(Raw), l)
      BY <1>2, <2>1, EndAppend DEF EndCalls
    <3> QED BY <1>3, <1>5, <2>1, <3>1 DEF EndCalls
  <2>4. EndSaw(rec') /\ Raw'.chunks # <<>>
    <3>1. Append(rec.chunks, l) # <<>> /\ Append(Raw.chunks, l) # <<>>
      BY <1>2, <2>1, AppendNotEmpty
    <3>2. rec'.chunks # <<>> /\ Raw'.chunks # <<>>
      BY <2>1, <3>1
    <3> QED BY <3>2 DEF EndSaw
  <2>5. rec.anth # <<>> => rec'.anth # <<>>
    <3> DEFINE Some == {a \in ApartCalls : a # <<>>}
    <3> SUFFICES ASSUME rec.anth # <<>> PROVE rec'.anth # <<>>
      OBVIOUS
    <3>1. rec.anth \in Some
      BY <1>2
    <3>2. \A a \in Some, ev \in Event : applyAnthropic(a, ev) \in Some
      BY EventType
    <3>3. OfEvents!Folded(rec.anth, l.anth) \in Some
      <4> HIDE DEF Some
      <4> QED BY <2>1, <3>1, <3>2, OfEvents!FoldType, Least
    <3> QED BY <2>1, <3>3
  <2> QED BY <1>3, <1>4, <1>5, <2>2, <2>3, <2>4, <2>5 DEF PassInv
<1>7. CASE ~Payload(l)
  <2>1. rec'.chunks = rec.chunks /\ Raw'.chunks = Raw.chunks /\ rec'.anth = rec.anth
    BY <1>1, <1>7 DEF Handled
  <2>2. EndText(rec') = EndText(Raw') /\ EndCalls(rec') = EndCalls(Raw')
        /\ (EndSaw(rec') <=> Raw'.chunks # <<>>)
    BY <1>3, <1>5, <2>1 DEF EndText, EndCalls, EndSaw
  <2> QED BY <1>3, <1>4, <1>5, <2>1, <2>2 DEF PassInv
<1> QED BY <1>6, <1>7

LEMMA AppendOf ==
  ASSUME NEW T, NEW s \in Seq(T), NEW x \in T
  PROVE  /\ Len(s) \in Nat /\ DOMAIN s = 1..Len(s) /\ DOMAIN Append(s, x) = 1..(Len(s) + 1)
         /\ Append(s, x)[Len(s) + 1] = x /\ \A i \in 1..Len(s) : Append(s, x)[i] = s[i]
         /\ \A i \in 1..(Len(s) + 1) : i = Len(s) + 1 \/ i \in 1..Len(s)
         /\ \A i \in 1..Len(s) : i \in 1..(Len(s) + 1)
         /\ Len(s) + 1 \in 1..(Len(s) + 1)
BY AppendProperties, LenProperties

LEMMA ReadOrder ==
  ASSUME IInv, Read
  PROVE  /\ \A kind : Reports(Head(left), kind) \/ Told(kind) => Told(kind)'
         /\ InOrder(lines') =>
              /\ InOrder(lines)
              /\ \A kind : Told(kind) => \E i \in DOMAIN lines : /\ Reports(lines[i], kind)
                                                                 /\ MayFollow(lines[i], Head(left))
<1> DEFINE l == Head(left)
           n == Len(lines)
<1>1. l \in Line /\ lines' = Append(lines, l)
  BY ReadDoes
<1>2. /\ n \in Nat /\ DOMAIN lines = 1..n /\ DOMAIN lines' = 1..(n + 1) /\ lines'[n + 1] = l
      /\ \A i \in 1..n : lines'[i] = lines[i]
      /\ \A i \in 1..(n + 1) : i = n + 1 \/ i \in 1..n
      /\ \A i \in 1..n : i \in 1..(n + 1)
      /\ n + 1 \in 1..(n + 1)
  BY <1>1, AppendOf DEF IInv, TypeInv
<1> HIDE DEF l, n
<1>3. ASSUME NEW kind, Reports(l, kind) \/ Told(kind) PROVE Told(kind)'
  BY <1>2, <1>3 DEF Told
<1>4. ASSUME InOrder(lines')
      PROVE  InOrder(lines) /\ \A i \in DOMAIN lines : MayFollow(lines[i], l)
  <2>1. \A i, j \in 1..(n + 1) : i < j => MayFollow(lines'[i], lines'[j])
    BY <1>2, <1>4 DEF InOrder
  <2>2. \A i \in 1..n : i < n + 1
    BY <1>2
  <2> QED BY <1>2, <2>1, <2>2 DEF InOrder
<1>5. ASSUME InOrder(lines'), NEW kind, Told(kind)
      PROVE  \E i \in DOMAIN lines : Reports(lines[i], kind) /\ MayFollow(lines[i], l)
  BY <1>4, <1>5 DEF Told
<1> QED BY <1>3, <1>4, <1>5 DEF l

LEMMA NoUsage ==
  /\ \A u : mergeUsage(u, <<>>) = u /\ mergeUsage(<<>>, u) = u
  /\ \A l : l.usage = <<>> => UsageOf(<<l>>) = <<>>
<1>1. \A u : mergeUsage(u, <<>>) = u /\ mergeUsage(<<>>, u) = u
  BY DEF mergeUsage
<1>2. \A l : <<l>>[1] = l
  OBVIOUS
<1> QED BY <1>1, <1>2 DEF UsageOf

(* A billing line's usage is the last there is. *)
LEMMA AfterBilling ==
  ASSUME IInv, Read, InOrder(lines'), UsageOf(rec.billing) # <<>>
  PROVE  /\ Head(left).kind # "billing"
         /\ Payload(Head(left)) => UsageOf(<<Head(left)>>) = <<>>
<1>1. Told("billing")
  BY DEF IInv, UsageInv
<1>2. PICK i \in DOMAIN lines : Reports(lines[i], "billing") /\ MayFollow(lines[i], Head(left))
  BY <1>1, ReadOrder
<1> QED BY <1>2, NoUsage DEF MayFollow

LEMMA ReadTold ==
  ASSUME IInv, Read
  PROVE  /\ UsageOf(rec'.billing) # <<>> => Told("billing")'
         /\ UsageOf(rec'.response) # <<>> => Told("response")'
<1> DEFINE l == Head(left)
<1>1. l \in Line /\ Handled(rec, l, rec')
  BY ReadDoes
<1>2. /\ Reports(l, "billing") \/ Told("billing") => Told("billing")'
      /\ Reports(l, "response") \/ Told("response") => Told("response")'
  BY ReadOrder
<1> HIDE DEF l
<1>3. /\ UsageOf(rec.billing) # <<>> => Told("billing")
      /\ UsageOf(rec.response) # <<>> => Told("response")
  BY DEF IInv, UsageInv
<1>4. /\ rec'.billing = (IF l.kind = "billing" THEN l.body ELSE rec.billing)
      /\ rec'.response = (IF l.kind = "response" THEN l.body ELSE rec.response)
  BY <1>1 DEF Handled
<1>5. UsageOf(rec'.billing) # <<>> => Told("billing")'
  <2>1. CASE l.kind = "billing"
    BY <1>2, <1>4, <2>1 DEF Reports
  <2>2. CASE l.kind # "billing"
    BY <1>2, <1>3, <1>4, <2>2
  <2> QED BY <2>1, <2>2
<1>6. UsageOf(rec'.response) # <<>> => Told("response")'
  <2>1. CASE l.kind = "response"
    BY <1>2, <1>4, <2>1 DEF Reports
  <2>2. CASE l.kind # "response"
    BY <1>2, <1>3, <1>4, <2>2
  <2> QED BY <2>1, <2>2
<1> QED BY <1>5, <1>6

LEMMA ReadUsage == ASSUME IInv, Read, InOrder(lines') PROVE UsageInOrder'
<1> DEFINE l == Head(left)
           u == UsageOf(<<l>>)
           bill == UsageOf(rec.billing)
<1>1. l \in Line /\ Handled(rec, l, rec') /\ Handled(Raw, l, Raw')
  BY ReadDoes
<1>2. Told("response") => Told("response")'
  BY ReadOrder
<1>3. Told("response") => ~Payload(l)
  <2> SUFFICES ASSUME Told("response") PROVE ~Payload(l)
    OBVIOUS
  <2>1. PICK i \in DOMAIN lines : Reports(lines[i], "response") /\ MayFollow(lines[i], l)
    BY ReadOrder
  <2> QED BY <2>1 DEF MayFollow
<1>4. bill # <<>> => l.kind # "billing" /\ (Payload(l) => u = <<>>)
  BY AfterBilling
<1> HIDE DEF l
<1>5. /\ Raw.chunks # <<>> => \/ EndUsage(rec) = EndUsage(Raw)
                              \/ EndUsage(Raw) = <<>> /\ EndUsage(rec) = bill
      /\ Raw.chunks = <<>> => rec.usage = <<>> \/ rec.usage = bill \/ Told("response")
  BY ReadOrder DEF IInv, UsageInv, UsageInOrder
<1>6. /\ rec'.billing = (IF l.kind = "billing" THEN l.body ELSE rec.billing)
      /\ rec'.chunks = (IF Payload(l) THEN Append(rec.chunks, l) ELSE rec.chunks)
      /\ Raw'.chunks = (IF Payload(l) THEN Append(Raw.chunks, l) ELSE Raw.chunks)
      /\ rec'.usage = rec.usage /\ Raw'.usage = Raw.usage
  BY <1>1 DEF Handled
<1>7. rec.chunks \in Seq(ChunkLine) /\ Raw.chunks \in Seq(ChunkLine) /\ Raw.usage = <<>>
  BY DEF IInv, TypeInv, RawInv
<1>8. Raw.chunks = <<>> => EndUsage(rec) = rec.usage /\ EndUsage(Raw) = <<>>
  <2> SUFFICES ASSUME Raw.chunks = <<>>
               PROVE  EndUsage(rec) = rec.usage /\ EndUsage(Raw) = <<>>
    OBVIOUS
  <2>1. rec.chunks = <<>>
    BY DEF IInv, PassInv, EndSaw
  <2>2. ToUsage!Folded(rec.usage, <<>>) = rec.usage /\ ToUsage!Folded(<<>>, <<>>) = <<>>
    BY ToUsage!FoldEmpty
  <2> QED BY <1>7, <2>1, <2>2 DEF EndUsage
<1>9. CASE Payload(l)
  <2>1. /\ l \in ChunkLine /\ l.kind # "billing"
    BY <1>1, <1>9, LineKinds DEF Payload
  <2>2. /\ EndUsage(rec') = mergeUsage(EndUsage(rec), u)
        /\ EndUsage(Raw') = mergeUsage(EndUsage(Raw), u)
    <3>1. /\ ToUsage!Folded(rec.usage, Append(rec.chunks, l)) = addUsage(EndUsage(rec), l)
          /\ ToUsage!Folded(Raw.usage, Append(Raw.chunks, l)) = addUsage(EndUsage(Raw), l)
      BY <1>7, <2>1, EndAppend DEF EndUsage
    <3> QED BY <1>6, <1>9, <3>1 DEF EndUsage, addUsage
  <2>3. \/ EndUsage(rec) = EndUsage(Raw)
        \/ EndUsage(Raw) = <<>> /\ EndUsage(rec) = bill
    BY <1>3, <1>5, <1>8, <1>9
  <2>4. UsageOf(rec'.billing) = bill /\ Raw'.chunks # <<>>
    BY <1>6, <1>7, <1>9, <2>1, AppendNotEmpty
  <2>5. \/ EndUsage(rec') = EndUsage(Raw')
        \/ EndUsage(Raw') = <<>> /\ EndUsage(rec') = bill
    <3> HIDE DEF u, bill
    <3>1. CASE EndUsage(rec) = EndUsage(Raw)
      BY <2>2, <3>1
    <3>2. CASE EndUsage(Raw) = <<>> /\ EndUsage(rec) = bill /\ bill # <<>>
      BY <1>4, <1>9, <2>2, <3>2, NoUsage
    <3> QED BY <2>3, <3>1, <3>2
  <2> QED BY <2>4, <2>5 DEF UsageInOrder
<1>10. CASE ~Payload(l)
  <2>1. EndUsage(rec') = EndUsage(rec) /\ EndUsage(Raw') = EndUsage(Raw)
        /\ Raw'.chunks = Raw.chunks
    BY <1>6, <1>10 DEF EndUsage
  <2>2. bill = <<>> \/ UsageOf(rec'.billing) = bill
    BY <1>4, <1>6
  <2>3. Raw'.chunks # <<>> => \/ EndUsage(rec') = EndUsage(Raw')
                              \/ /\ EndUsage(Raw') = <<>>
                                 /\ EndUsage(rec') = UsageOf(rec'.billing)
    <3> HIDE DEF bill
    <3> QED BY <1>5, <2>1, <2>2
  <2>4. Raw'.chunks = <<>> => \/ rec'.usage = <<>> \/ rec'.usage = UsageOf(rec'.billing)
                              \/ Told("response")'
    <3> HIDE DEF bill
    <3> QED BY <1>2, <1>5, <1>6, <2>1, <2>2
  <2> QED BY <2>3, <2>4 DEF UsageInOrder
<1> QED BY <1>9, <1>10

LEMMA ReadIInv == ASSUME IInv, Read PROVE IInv'
<1>1. CleanInv'
  <2>1. dirty' = TRUE /\ lines' = Append(lines, Head(left)) /\ Head(left) \in Line
    BY ReadDoes
  <2>2. lines' # <<>>
    BY <2>1, AppendNotEmpty DEF IInv, TypeInv
  <2> QED BY <2>1, <2>2 DEF CleanInv
<1>2. UsageInv'
  BY ReadTold, ReadUsage DEF UsageInv
<1> QED BY <1>1, <1>2, ReadTypes, ReadPass DEF IInv

LEMMA StalledIs ==
  ASSUME NEW r, IsRecord(r), NEW b
  PROVE  LET q == [r EXCEPT !.stalled = b]
         IN  /\ IsRecord(q) /\ q.stalled = b /\ AsRead(q) = AsRead(r)
             /\ q.request = r.request /\ q.response = r.response /\ q.billing = r.billing
             /\ q.billed = r.billed /\ q.status = r.status /\ q.errors = r.errors
             /\ q.chunks = r.chunks /\ q.saw = r.saw /\ q.count = r.count
             /\ q.samples = r.samples /\ q.unknown = r.unknown /\ q.tacc = r.tacc
             /\ q.anth = r.anth /\ q.text = r.text /\ q.calls = r.calls
             /\ q.called = r.called /\ q.usage = r.usage /\ q.stream = r.stream
             /\ q.msgs = r.msgs /\ q.turns = r.turns /\ q.tools = r.tools
             /\ q.outcome = r.outcome
             /\ EndText(q) = EndText(r) /\ EndCalls(q) = EndCalls(r)
             /\ EndSaw(q) = EndSaw(r) /\ EndUsage(q) = EndUsage(r)
             /\ EndJoined(q) = EndJoined(r) /\ LastUsage(q) = LastUsage(r)
             /\ EndStream(q) = EndStream(r)
<1> DEFINE q == [r EXCEPT !.stalled = b]
<1>1. /\ q.request = r.request /\ q.response = r.response /\ q.billing = r.billing
      /\ q.billed = r.billed /\ q.status = r.status /\ q.errors = r.errors
      /\ q.chunks = r.chunks /\ q.saw = r.saw /\ q.count = r.count
      /\ q.samples = r.samples /\ q.unknown = r.unknown /\ q.tacc = r.tacc
      /\ q.anth = r.anth /\ q.text = r.text /\ q.calls = r.calls /\ q.called = r.called
      /\ q.usage = r.usage /\ q.stream = r.stream /\ q.msgs = r.msgs
      /\ q.turns = r.turns /\ q.tools = r.tools /\ q.outcome = r.outcome
  OBVIOUS
<1>2. IsRecord(q) /\ q.stalled = b
  BY DEF IsRecord
<1> HIDE DEF q
<1>3. AsRead(q) = AsRead(r)
  BY <1>1 DEF AsRead
<1>4. /\ EndText(q) = EndText(r) /\ EndCalls(q) = EndCalls(r)
      /\ EndSaw(q) = EndSaw(r) /\ EndUsage(q) = EndUsage(r)
  BY <1>1 DEF EndText, EndCalls, EndSaw, EndUsage
<1>5. EndJoined(q) = EndJoined(r) /\ EndStream(q) = EndStream(r)
  BY <1>1, <1>4 DEF EndJoined, EndStream
<1>6. StartUsage(q) = StartUsage(r)
  BY <1>1, <1>4 DEF StartUsage
<1>7. LastUsage(q) = LastUsage(r)
  BY <1>1, <1>6 DEF LastUsage
<1> QED BY <1>1, <1>2, <1>3, <1>4, <1>5, <1>7 DEF q

LEMMA OnePassIs ==
  (InOnePass = finalize([Raw EXCEPT !.stalled = rec.stalled]))'
BY ParserFolds, PTL

(* A record that is the one of one pass, its usage included when the lines  *)
(* are in order. *)
Passed(r) ==
  LET f == finalize([Raw EXCEPT !.stalled = rec.stalled])
  IN ButUsage(r) = ButUsage(f) /\ (InOrder(lines) => r.usage = f.usage)

LEMMA EndPassIs ==
  ASSUME IInv, EndPass
  PROVE  /\ Passed(rec')
         /\ Finalized(rec, rec') /\ Raw' = Raw /\ left' = left /\ lines' = lines
         /\ dirty' = FALSE /\ lines # <<>>
         /\ rec'.text = EndText(Raw) /\ rec'.tacc = EndCalls(Raw)
         /\ rec'.calls # <<>> => rec'.anth # <<>> \/ rec'.tacc.calls # <<>>
<1> DEFINE q == [Raw EXCEPT !.stalled = rec.stalled]
<1>1. /\ rec' = finalize(rec) /\ dirty /\ dirty' = FALSE /\ left' = left /\ lines' = lines
  BY DEF EndPass
<1>2. /\ IsRecord(rec) /\ rec.chunks \in Seq(ChunkLine) /\ rec.saw \in BOOLEAN
      /\ rec.tacc \in Apart /\ IsRecord(Raw) /\ Raw.chunks \in Seq(ChunkLine)
      /\ ~Raw.saw /\ Raw.calls = <<>>
  BY DEF IInv, TypeInv, RawInv
<1>3. Finalized(rec, rec')
  BY <1>1, <1>2, FinalizeDoes
<1>4. Raw' = Raw
  BY <1>1 DEF Raw
<1>5. lines # <<>>
  BY <1>1 DEF IInv, CleanInv
<1>6. /\ AsRead(rec) = AsRead(Raw) /\ EndText(rec) = EndText(Raw)
      /\ EndCalls(rec) = EndCalls(Raw) /\ (EndSaw(rec) <=> Raw.chunks # <<>>)
      /\ rec.calls # <<>> => rec.anth # <<>> \/ rec.tacc.calls # <<>>
  BY DEF IInv, PassInv
<1>7. rec.tacc.calls # <<>> => EndCalls(rec).calls # <<>>
  BY <1>2, ToCallsType DEF EndCalls
<1>8. EndJoined(rec) # <<>> => rec.anth # <<>> \/ EndCalls(rec).calls # <<>>
  BY <1>6, <1>7 DEF EndJoined
<1>9. /\ IsRecord(q) /\ q.stalled = rec.stalled /\ AsRead(q) = AsRead(Raw)
      /\ q.chunks = Raw.chunks /\ q.saw = Raw.saw /\ EndText(q) = EndText(Raw)
      /\ EndCalls(q) = EndCalls(Raw) /\ EndSaw(q) = EndSaw(Raw)
      /\ EndJoined(q) = EndJoined(Raw) /\ LastUsage(q) = LastUsage(Raw)
  <2> DEFINE r == Raw
             b == rec.stalled
  <2>1. IsRecord(r)
    BY <1>2
  <2> HIDE DEF r, b
  <2> DEFINE p == [r EXCEPT !.stalled = b]
  <2>2. /\ IsRecord(p) /\ p.stalled = b /\ AsRead(p) = AsRead(r)
        /\ p.chunks = r.chunks /\ p.saw = r.saw /\ EndText(p) = EndText(r)
        /\ EndCalls(p) = EndCalls(r) /\ EndSaw(p) = EndSaw(r)
        /\ EndJoined(p) = EndJoined(r) /\ LastUsage(p) = LastUsage(r)
    BY <2>1, StalledIs
  <2>3. p = q
    BY DEF r, b
  <2> HIDE DEF p, q
  <2> QED BY <2>2, <2>3 DEF r, b
<1> HIDE DEF q
<1>10. rec.anth = Raw.anth /\ rec.billing = Raw.billing /\ rec.response = Raw.response
  BY <1>6 DEF AsRead
<1>11. EndJoined(rec) = EndJoined(Raw)
  BY <1>2, <1>6, <1>7, <1>10 DEF EndJoined
<1>12. EndSaw(rec) = EndSaw(Raw)
  BY <1>2, <1>6 DEF EndSaw
<1>13. ASSUME InOrder(lines) PROVE LastUsage(rec) = LastUsage(Raw)
  <2>1. CASE Raw.chunks # <<>>
    <3>1. StartUsage(rec) = EndUsage(rec) /\ StartUsage(Raw) = EndUsage(Raw)
      BY <1>6, <1>12, <2>1 DEF StartUsage
    <3>2. \/ EndUsage(rec) = EndUsage(Raw)
          \/ EndUsage(Raw) = <<>> /\ EndUsage(rec) = UsageOf(rec.billing)
      BY <1>13, <2>1 DEF IInv, UsageInv, UsageInOrder
    <3> QED BY <1>10, <3>1, <3>2 DEF LastUsage
  <2>2. CASE Raw.chunks = <<>>
    <3>1. StartUsage(rec) = StartUsage(Raw)
      BY <1>6, <1>10, <1>12, <2>2 DEF StartUsage
    <3> QED BY <1>10, <3>1 DEF LastUsage
  <2> QED BY <2>1, <2>2
<1>14. q.saw \in BOOLEAN
  <2>1. Raw.saw = FALSE
    BY DEF IInv, RawInv
  <2> QED BY <1>9, <2>1
<1>15. /\ ButUsage(finalize(rec)) = ButUsage(finalize(q))
       /\ LastUsage(rec) = LastUsage(q) => finalize(rec).usage = finalize(q).usage
  BY <1>2, <1>6, <1>9, <1>11, <1>12, <1>14, SameEnd
<1>16. /\ rec'.text = EndText(rec) /\ rec'.tacc = EndCalls(rec) /\ rec'.anth = rec.anth
       /\ rec'.calls = EndJoined(rec)
  BY <1>3 DEF Finalized
<1>17. Passed(rec')
  BY <1>1, <1>9, <1>13, <1>15 DEF Passed, q
<1> QED BY <1>1, <1>3, <1>4, <1>5, <1>6, <1>8, <1>16, <1>17

LEMMA EndPassIInv == ASSUME IInv, EndPass PROVE IInv'
<1>1. /\ Passed(rec')
      /\ Finalized(rec, rec') /\ Raw' = Raw /\ left' = left /\ lines' = lines
      /\ dirty' = FALSE /\ lines # <<>>
      /\ rec'.text = EndText(Raw) /\ rec'.tacc = EndCalls(Raw)
      /\ rec'.calls # <<>> => rec'.anth # <<>> \/ rec'.tacc.calls # <<>>
  BY EndPassIs
<1>2. /\ IsRecord(rec') /\ rec'.request = rec.request /\ rec'.response = rec.response
      /\ rec'.billing = rec.billing /\ rec'.billed = rec.billed /\ rec'.status = rec.status
      /\ rec'.errors = rec.errors /\ rec'.stalled = rec.stalled /\ rec'.chunks = <<>>
      /\ rec'.saw = EndSaw(rec) /\ rec'.count = rec.count /\ rec'.samples = rec.samples
      /\ rec'.unknown = rec.unknown /\ rec'.tacc = EndCalls(rec) /\ rec'.anth = rec.anth
      /\ rec'.text = EndText(rec) /\ rec'.usage = LastUsage(rec)
      /\ rec'.outcome = deriveOutcome(rec)
  BY <1>1 DEF Finalized
<1>3. TypeInv'
  <2>1. rec'.tacc \in Apart
    BY <1>2, ToCallsType DEF IInv, TypeInv, EndCalls
  <2>2. EndSaw(rec) \in BOOLEAN
    BY DEF EndSaw, IInv, TypeInv
  <2>3. <<>> \in Seq(ChunkLine)
    OBVIOUS
  <2>4. Bodies(rec')
    BY <1>2 DEF Bodies, IInv, TypeInv
  <2> QED BY <1>1, <1>2, <2>1, <2>2, <2>3, <2>4 DEF IInv, TypeInv
<1>4. RawInv'
  BY <1>1 DEF IInv, RawInv
<1>5. /\ EndText(rec') = rec'.text /\ EndCalls(rec') = rec'.tacc /\ EndUsage(rec') = rec'.usage
      /\ EndSaw(rec') = EndSaw(rec)
  <2>1. /\ ToText!Folded(rec'.text, <<>>) = rec'.text
        /\ ToCalls!Folded(rec'.tacc, <<>>) = rec'.tacc
        /\ ToUsage!Folded(rec'.usage, <<>>) = rec'.usage
    BY ToText!FoldEmpty, ToCalls!FoldEmpty, ToUsage!FoldEmpty
  <2>2. EndSaw(rec') = rec'.saw
    <3>1. EndSaw(rec) \in BOOLEAN
      BY DEF EndSaw
    <3> QED BY <1>2, <3>1 DEF EndSaw
  <2> QED BY <1>2, <2>1, <2>2 DEF EndText, EndCalls, EndUsage
<1>6. PassInv'
  <2>1. AsRead(rec') = AsRead(Raw)
    BY <1>2 DEF AsRead, IInv, PassInv
  <2>2. EndSaw(rec) <=> Raw.chunks # <<>>
    BY DEF IInv, PassInv
  <2> QED BY <1>1, <1>5, <2>1, <2>2 DEF PassInv
<1>7. UsageInv'
  <2>1. /\ UsageOf(rec.billing) # <<>> => Told("billing")'
        /\ UsageOf(rec.response) # <<>> => Told("response")'
    BY <1>1 DEF IInv, UsageInv, Told
  <2>2. ASSUME InOrder(lines), Raw.chunks # <<>>
        PROVE  \/ LastUsage(rec) = EndUsage(Raw)
               \/ EndUsage(Raw) = <<>> /\ LastUsage(rec) = UsageOf(rec.billing)
    <3>1. EndSaw(rec)
      BY <2>2 DEF IInv, PassInv
    <3>2. \/ EndUsage(rec) = EndUsage(Raw)
          \/ EndUsage(Raw) = <<>> /\ EndUsage(rec) = UsageOf(rec.billing)
      BY <2>2 DEF IInv, UsageInv, UsageInOrder
    <3> QED BY <3>1, <3>2 DEF LastUsage, StartUsage
  <2>3. ASSUME Raw.chunks = <<>>
        PROVE  \/ LastUsage(rec) = <<>> \/ LastUsage(rec) = UsageOf(rec.billing)
               \/ Told("response")'
    <3>1. ~EndSaw(rec)
      BY <2>3 DEF IInv, PassInv
    <3> QED BY <2>1, <3>1 DEF LastUsage, StartUsage
  <2> QED BY <1>1, <1>2, <1>5, <2>1, <2>2, <2>3 DEF UsageInv, UsageInOrder
<1>8. CleanInv'
  <2>1. deriveOutcome(rec') = deriveOutcome(rec)
    BY <1>2, OutcomeOf
  <2>2. OnePass'
    BY <1>1, <1>2, OnePassIs DEF OnePass, Passed
  <2> QED BY <1>1, <1>2, <2>1, <2>2 DEF CleanInv
<1> QED BY <1>3, <1>4, <1>6, <1>7, <1>8 DEF IInv

(* What a pass leaves when the call is marked stalled first.                *)
LEMMA StalledPass ==
  ASSUME NEW r, IsRecord(r), r.chunks \in Seq(ChunkLine), r.saw \in BOOLEAN, NEW b,
         NEW f, Finalized(r, f)
  PROVE  finalize([r EXCEPT !.stalled = b])
           = [[f EXCEPT !.stalled = b] EXCEPT !.outcome = deriveOutcome([f EXCEPT !.stalled = b])]
<1> DEFINE q == [r EXCEPT !.stalled = b]
           g == [f EXCEPT !.stalled = b]
           o == deriveOutcome(g)
           h == [g EXCEPT !.outcome = o]
           e == finalize(q)
<1>1. /\ IsRecord(q) /\ q.stalled = b
      /\ q.request = r.request /\ q.response = r.response /\ q.billing = r.billing
      /\ q.billed = r.billed /\ q.status = r.status /\ q.errors = r.errors
      /\ q.chunks = r.chunks /\ q.saw = r.saw /\ q.count = r.count
      /\ q.samples = r.samples /\ q.unknown = r.unknown /\ q.anth = r.anth
      /\ EndText(q) = EndText(r) /\ EndCalls(q) = EndCalls(r)
      /\ EndSaw(q) = EndSaw(r) /\ EndJoined(q) = EndJoined(r) /\ LastUsage(q) = LastUsage(r)
      /\ EndStream(q) = EndStream(r)
  <2>1. /\ IsRecord(q) /\ q.stalled = b
        /\ q.request = r.request /\ q.response = r.response /\ q.billing = r.billing
        /\ q.billed = r.billed /\ q.status = r.status /\ q.errors = r.errors
        /\ q.chunks = r.chunks /\ q.saw = r.saw /\ q.count = r.count
        /\ q.samples = r.samples /\ q.unknown = r.unknown /\ q.anth = r.anth
    BY DEF IsRecord
  <2>2. /\ EndText(q) = EndText(r) /\ EndCalls(q) = EndCalls(r)
        /\ EndSaw(q) = EndSaw(r) /\ EndJoined(q) = EndJoined(r)
        /\ LastUsage(q) = LastUsage(r) /\ EndStream(q) = EndStream(r)
    BY StalledIs
  <2> QED BY <2>1, <2>2
<1>2. IsRecord(f)
  BY DEF Finalized
<1>3. /\ IsRecord(g) /\ g.stalled = b
      /\ g.request = f.request /\ g.response = f.response /\ g.billing = f.billing
      /\ g.billed = f.billed /\ g.status = f.status /\ g.errors = f.errors
      /\ g.chunks = f.chunks /\ g.saw = f.saw /\ g.count = f.count
      /\ g.samples = f.samples /\ g.unknown = f.unknown /\ g.tacc = f.tacc
      /\ g.anth = f.anth /\ g.text = f.text /\ g.calls = f.calls
      /\ g.called = f.called /\ g.usage = f.usage /\ g.stream = f.stream
      /\ g.msgs = f.msgs /\ g.turns = f.turns /\ g.tools = f.tools
  BY <1>2, StalledIs
<1> HIDE DEF q
<1>4. Finalized(q, e)
  BY <1>1, FinalizeDoes
<1>5. o = deriveOutcome(q)
  <2>1. f.billing = r.billing /\ f.billed = r.billed /\ f.status = r.status /\ f.errors = r.errors
    BY DEF Finalized
  <2> HIDE DEF g
  <2>2. g.status = q.status /\ g.billing = q.billing /\ g.billed = q.billed
        /\ g.stalled = q.stalled /\ g.errors = q.errors
    BY <1>1, <1>3, <2>1
  <2> QED BY <2>2, OutcomeOf
<1> HIDE DEF g, e, o
<1>6. /\ IsRecord(h) /\ h.outcome = o
      /\ h.request = g.request /\ h.response = g.response /\ h.billing = g.billing
      /\ h.billed = g.billed /\ h.status = g.status /\ h.errors = g.errors
      /\ h.stalled = g.stalled
      /\ h.chunks = g.chunks /\ h.saw = g.saw /\ h.count = g.count
      /\ h.samples = g.samples /\ h.unknown = g.unknown /\ h.tacc = g.tacc
      /\ h.anth = g.anth /\ h.text = g.text /\ h.calls = g.calls
      /\ h.called = g.called /\ h.usage = g.usage /\ h.stream = g.stream
      /\ h.msgs = g.msgs /\ h.turns = g.turns /\ h.tools = g.tools
  BY <1>3 DEF IsRecord
<1> HIDE DEF h
<1>7. /\ e.request = h.request /\ e.response = h.response /\ e.billing = h.billing
      /\ e.billed = h.billed /\ e.status = h.status /\ e.errors = h.errors
      /\ e.stalled = h.stalled /\ e.chunks = h.chunks /\ e.saw = h.saw /\ e.count = h.count
      /\ e.samples = h.samples /\ e.unknown = h.unknown
  BY <1>1, <1>3, <1>4, <1>6 DEF Finalized
<1>8. /\ e.tacc = h.tacc /\ e.anth = h.anth /\ e.text = h.text /\ e.calls = h.calls
      /\ e.usage = h.usage /\ e.stream = h.stream
  BY <1>1, <1>3, <1>4, <1>6 DEF Finalized
<1>9. /\ e.called = h.called /\ e.msgs = h.msgs /\ e.turns = h.turns /\ e.tools = h.tools
      /\ e.outcome = h.outcome
  <2>1. e.outcome = h.outcome
    BY <1>4, <1>5, <1>6 DEF Finalized
  <2>2. e.called = h.called
    BY <1>1, <1>3, <1>4, <1>6 DEF Finalized
  <2>3. e.msgs = h.msgs /\ e.turns = h.turns /\ e.tools = h.tools
    BY <1>1, <1>3, <1>4, <1>6 DEF Finalized
  <2> QED BY <2>1, <2>2, <2>3
<1>10. IsRecord(e)
  BY <1>4 DEF Finalized
<1>11. e = h
  BY <1>6, <1>7, <1>8, <1>9, <1>10 DEF IsRecord
<1> QED BY <1>11 DEF e, h, o, g, q

LEMMA StallIs ==
  ASSUME IInv, Stall
  PROVE  LET q == [rec EXCEPT !.stalled = TRUE]
         IN  /\ rec' = [q EXCEPT !.outcome = deriveOutcome(q)]
             /\ Raw' = Raw /\ left' = left /\ lines' = lines /\ dirty' = dirty
             /\ ~dirty /\ lines # <<>>
BY DEF Stall, refreshOutcome, Raw

SameButStall(r, q) ==
  /\ r.request = q.request /\ r.response = q.response /\ r.billing = q.billing
  /\ r.billed = q.billed /\ r.status = q.status /\ r.errors = q.errors
  /\ r.chunks = q.chunks /\ r.saw = q.saw /\ r.count = q.count
  /\ r.samples = q.samples /\ r.unknown = q.unknown /\ r.tacc = q.tacc
  /\ r.anth = q.anth /\ r.text = q.text /\ r.calls = q.calls /\ r.called = q.called
  /\ r.usage = q.usage /\ r.stream = q.stream /\ r.msgs = q.msgs /\ r.turns = q.turns
  /\ r.tools = q.tools

LEMMA StallIInv == ASSUME IInv, Stall PROVE IInv'
<1> DEFINE q == [rec EXCEPT !.stalled = TRUE]
           o == deriveOutcome(q)
<1>1. /\ rec' = [q EXCEPT !.outcome = o]
      /\ Raw' = Raw /\ left' = left /\ lines' = lines /\ dirty' = dirty
      /\ ~dirty /\ lines # <<>>
  BY StallIs
<1>2. IsRecord(rec) /\ IsRecord(Raw)
  BY DEF IInv, TypeInv, RawInv
<1>3. /\ IsRecord(q) /\ q.stalled = TRUE
      /\ q.request = rec.request /\ q.response = rec.response /\ q.billing = rec.billing
      /\ q.billed = rec.billed /\ q.status = rec.status /\ q.errors = rec.errors
      /\ q.chunks = rec.chunks /\ q.saw = rec.saw /\ q.count = rec.count
      /\ q.samples = rec.samples /\ q.unknown = rec.unknown /\ q.tacc = rec.tacc
      /\ q.anth = rec.anth /\ q.text = rec.text /\ q.calls = rec.calls
      /\ q.called = rec.called /\ q.usage = rec.usage /\ q.stream = rec.stream
      /\ q.msgs = rec.msgs /\ q.turns = rec.turns /\ q.tools = rec.tools
  BY <1>2, StalledIs
<1> HIDE DEF q, o
<1>4. /\ IsRecord(rec') /\ rec'.stalled = TRUE /\ rec'.outcome = o
      /\ rec'.request = rec.request /\ rec'.response = rec.response
      /\ rec'.billing = rec.billing /\ rec'.billed = rec.billed /\ rec'.status = rec.status
      /\ rec'.errors = rec.errors /\ rec'.chunks = rec.chunks /\ rec'.saw = rec.saw
      /\ rec'.count = rec.count /\ rec'.samples = rec.samples
      /\ rec'.unknown = rec.unknown /\ rec'.tacc = rec.tacc /\ rec'.anth = rec.anth
      /\ rec'.text = rec.text /\ rec'.calls = rec.calls /\ rec'.usage = rec.usage
      /\ rec'.called = rec.called /\ rec'.stream = rec.stream /\ rec'.msgs = rec.msgs
      /\ rec'.turns = rec.turns /\ rec'.tools = rec.tools
  BY <1>1, <1>3 DEF IsRecord
<1>5. TypeInv'
  <2>1. Bodies(rec')
    BY <1>4 DEF Bodies, IInv, TypeInv
  <2> QED BY <1>1, <1>4, <2>1 DEF IInv, TypeInv
<1>6. RawInv'
  BY <1>1 DEF IInv, RawInv
<1>7. PassInv'
  <2>1. AsRead(rec') = AsRead(rec)
    BY <1>4 DEF AsRead
  <2>2. /\ EndText(rec') = EndText(rec) /\ EndCalls(rec') = EndCalls(rec)
        /\ EndSaw(rec') = EndSaw(rec)
    BY <1>4 DEF EndText, EndCalls, EndSaw
  <2> QED BY <1>1, <1>4, <2>1, <2>2 DEF IInv, PassInv
<1>8. UsageInv'
  <2>1. EndUsage(rec') = EndUsage(rec)
    BY <1>4 DEF EndUsage
  <2> QED BY <1>1, <1>4, <2>1 DEF IInv, UsageInv, UsageInOrder, Told
<1>9. CleanInv'
  <2>1. deriveOutcome(q) = deriveOutcome(rec')
    <3>1. /\ q.status = rec'.status /\ q.billing = rec'.billing /\ q.billed = rec'.billed
          /\ q.stalled = rec'.stalled /\ q.errors = rec'.errors
      BY <1>3, <1>4
    <3> QED BY <3>1, OutcomeOf
  <2> DEFINE r == [Raw EXCEPT !.stalled = rec.stalled]
             f == finalize(r)
  <2>2. /\ IsRecord(r) /\ r.chunks = Raw.chunks /\ r.saw = Raw.saw
    <3> DEFINE w == Raw
               b == rec.stalled
    <3>1. IsRecord(w)
      BY <1>2
    <3>2. r = [w EXCEPT !.stalled = b]
      OBVIOUS
    <3> HIDE DEF w, b, r
    <3>3. /\ IsRecord([w EXCEPT !.stalled = b]) /\ [w EXCEPT !.stalled = b].chunks = w.chunks
          /\ [w EXCEPT !.stalled = b].saw = w.saw
      BY <3>1, StalledIs
    <3> QED BY <3>2, <3>3 DEF w
  <2>3. r.chunks \in Seq(ChunkLine) /\ r.saw \in BOOLEAN
    <3>1. Raw.saw = FALSE
      BY DEF IInv, RawInv
    <3> HIDE DEF r
    <3> QED BY <2>2, <3>1 DEF IInv, RawInv
  <2>4. ButUsage(rec) = ButUsage(f) /\ (InOrder(lines) => rec.usage = f.usage)
    BY <1>1, ParserFolds DEF IInv, CleanInv, OnePass
  <2>5. [r EXCEPT !.stalled = TRUE] = [Raw EXCEPT !.stalled = TRUE]
    BY <1>2 DEF IsRecord
  <2> HIDE DEF r
  <2>6. Finalized(r, f)
    BY <2>2, <2>3, FinalizeDoes
  <2>7. finalize([r EXCEPT !.stalled = TRUE])
          = [[f EXCEPT !.stalled = TRUE] EXCEPT !.outcome = deriveOutcome([f EXCEPT !.stalled = TRUE])]
    <3> HIDE DEF f
    <3> QED BY <2>2, <2>3, <2>6, StalledPass
  <2> HIDE DEF f
  <2> DEFINE g == [f EXCEPT !.stalled = TRUE]
             h == [g EXCEPT !.outcome = deriveOutcome(g)]
  <2>8. /\ ButUsage(rec') = ButUsage(h)
        /\ InOrder(lines) => rec'.usage = h.usage
    <3>1. IsRecord(f)
      BY <2>6 DEF Finalized
    <3>2. SameButUsage(rec, f)
      BY <1>2, <2>4, <3>1, ButUsageIs
    <3>3. /\ IsRecord(g) /\ g.stalled = TRUE /\ SameButStall(g, f)
      BY <3>1, StalledIs DEF SameButStall
    <3> HIDE DEF g
    <3> DEFINE d == deriveOutcome(g)
    <3> HIDE DEF d
    <3>4. /\ h.outcome = d /\ h.stalled = TRUE /\ IsRecord(h) /\ SameButStall(h, g)
      BY <3>3 DEF IsRecord, SameButStall, d
    <3> HIDE DEF h
    <3>5. d = o
      <4>1. /\ g.status = q.status /\ g.billing = q.billing /\ g.billed = q.billed
            /\ g.stalled = q.stalled /\ g.errors = q.errors
        BY <1>3, <3>2, <3>3 DEF SameButUsage, SameButStall
      <4> QED BY <4>1, OutcomeOf DEF o, d
    <3>6. SameButUsage(rec', h)
      <4>1. SameButStall(h, f)
        BY <3>3, <3>4 DEF SameButStall
      <4>2. SameButStall(rec', rec)
        BY <1>4 DEF SameButStall
      <4>3. rec'.stalled = h.stalled /\ rec'.outcome = h.outcome
        BY <1>4, <3>4, <3>5
      <4> QED BY <3>2, <4>1, <4>2, <4>3 DEF SameButUsage, SameButStall
    <3> QED BY <1>4, <2>4, <3>3, <3>4, <3>6, ButUsageIs DEF SameButStall
  <2>9. OnePass'
    <3>1. InOnePass' = h
      <4>1. InOnePass' = finalize([Raw EXCEPT !.stalled = TRUE])
        BY <1>1, <1>4, OnePassIs
      <4> QED BY <2>5, <2>7, <4>1
    <3> HIDE DEF h
    <3> QED BY <1>1, <2>8, <3>1 DEF OnePass
  <2>10. rec.chunks = <<>>
    BY <1>1 DEF IInv, CleanInv
  <2>11. rec'.outcome = deriveOutcome(rec')
    BY <1>4, <2>1 DEF o
  <2> QED BY <1>1, <1>4, <2>9, <2>10, <2>11 DEF CleanInv
<1> QED BY <1>5, <1>6, <1>7, <1>8, <1>9 DEF IInv

LEMMA SameIInv == ASSUME IInv, UNCHANGED vars PROVE IInv'
<1>1. left' = left /\ lines' = lines /\ rec' = rec /\ dirty' = dirty
  BY DEF vars
<1>2. Raw' = Raw
  BY <1>1 DEF Raw
<1>3. TypeInv' /\ RawInv'
  BY <1>1, <1>2 DEF IInv, TypeInv, RawInv
<1>4. PassInv'
  BY <1>1, <1>2 DEF IInv, PassInv
<1>5. UsageInv'
  BY <1>1, <1>2 DEF IInv, UsageInv, UsageInOrder, Told
<1>6. CleanInv'
  BY <1>1 DEF IInv, CleanInv, OnePass, InOnePass
<1> QED BY <1>3, <1>4, <1>5, <1>6 DEF IInv

(* However the reads cut a call's lines up, its accumulators end where those *)
(* of one pass would, and a pass derives everything from them again          *)
(* (logparse.go:1384-1466, 1540-1593).                                       *)
THEOREM Inductive == Spec => []IInv
<1>1. IInv /\ [Next]_vars => IInv'
  BY MissIInv, ReadIInv, EndPassIInv, StallIInv, SameIInv DEF Next
<1> QED BY InitIInv, <1>1, PTL DEF Spec

(* After a pass the record is the record one pass over the same lines would *)
(* make: nothing is counted twice, nothing dropped between two reads        *)
(* (logparse.go:1384-1388, 1412-1414, 1461-1466, 1542-1543).  Its usage is  *)
(* too, of lines in order.                                                  *)
THEOREM OnePassAlways == Spec => []OnePass
<1>1. IInv => OnePass
  BY DEF IInv, CleanInv, OnePass
<1> QED BY Inductive, <1>1, PTL

-----------------------------------------------------------------------------
(* The lines, kept. *)

LEMMA FoldsPrimed ==
  (/\ Text = SaidText!Folded(<<>>, lines)
   /\ Sent = SaidFrags!Folded(<<>>, lines)
   /\ Whole = SaidWhole!Folded(<<>>, lines)
   /\ Events = SaidEvents!Folded(<<>>, lines)
   /\ Reported = SaidUsage!Folded(<<>>, lines))'
BY ParserFolds, PTL

(* One more line, folded. *)
LEMMA SaidAppend ==
  ASSUME NEW s \in Seq(Line), NEW l \in Line
  PROVE  /\ SaidText!Folded(<<>>, Append(s, l)) = thenText(SaidText!Folded(<<>>, s), l)
         /\ SaidFrags!Folded(<<>>, Append(s, l)) = thenFrags(SaidFrags!Folded(<<>>, s), l)
         /\ SaidWhole!Folded(<<>>, Append(s, l)) = thenWhole(SaidWhole!Folded(<<>>, s), l)
         /\ SaidEvents!Folded(<<>>, Append(s, l)) = thenEvents(SaidEvents!Folded(<<>>, s), l)
         /\ SaidUsage!Folded(<<>>, Append(s, l)) = thenUsage(SaidUsage!Folded(<<>>, s), l)
<1> DEFINE b == <<>>
<1> HIDE DEF b
<1>1. SaidText!Folded(b, Append(s, l)) = thenText(SaidText!Folded(b, s), l)
  BY SaidText!FoldAppend, Least
<1>2. SaidFrags!Folded(b, Append(s, l)) = thenFrags(SaidFrags!Folded(b, s), l)
  BY SaidFrags!FoldAppend, Least
<1>3. SaidWhole!Folded(b, Append(s, l)) = thenWhole(SaidWhole!Folded(b, s), l)
  BY SaidWhole!FoldAppend, Least
<1>4. SaidEvents!Folded(b, Append(s, l)) = thenEvents(SaidEvents!Folded(b, s), l)
  BY SaidEvents!FoldAppend, Least
<1>5. SaidUsage!Folded(b, Append(s, l)) = thenUsage(SaidUsage!Folded(b, s), l)
  BY SaidUsage!FoldAppend, Least
<1> QED BY <1>1, <1>2, <1>3, <1>4, <1>5 DEF b

(* The fragments and events of two chunks one after the other. *)
LEMMA CallsConcat ==
  ASSUME NEW b, NEW s \in Seq(Fragment), NEW t \in Seq(Fragment)
  PROVE  /\ OfFrags!Folded(b, s \o t) = OfFrags!Folded(OfFrags!Folded(b, s), t)
         /\ OfWhole!Folded(b, s \o t) = OfWhole!Folded(OfWhole!Folded(b, s), t)
<1>1. \A u \in Seq(Fragment) : OfFrags!Folded(b, s \o u) = OfFrags!Folded(OfFrags!Folded(b, s), u)
  BY OfFrags!FoldConcat, Least
<1>2. \A u \in Seq(Fragment) : OfWhole!Folded(b, s \o u) = OfWhole!Folded(OfWhole!Folded(b, s), u)
  BY OfWhole!FoldConcat, Least
<1> QED BY <1>1, <1>2

LEMMA EventsConcat ==
  ASSUME NEW b, NEW s \in Seq(Event), NEW t \in Seq(Event)
  PROVE  OfEvents!Folded(b, s \o t) = OfEvents!Folded(OfEvents!Folded(b, s), t)
<1>1. \A u \in Seq(Event) : OfEvents!Folded(b, s \o u) = OfEvents!Folded(OfEvents!Folded(b, s), u)
  BY OfEvents!FoldConcat, Least
<1> QED BY <1>1

LEMMA ReadSays ==
  ASSUME IInv, Read
  PROVE  LET l == Head(left)
         IN  /\ Text' = thenText(Text, l) /\ Sent' = thenFrags(Sent, l)
             /\ Whole' = thenWhole(Whole, l) /\ Events' = thenEvents(Events, l)
             /\ Reported' = thenUsage(Reported, l)
<1> DEFINE l == Head(left)
<1>1. l \in Line /\ lines' = Append(lines, l) /\ lines \in Seq(Line)
  BY ReadDoes DEF IInv, TypeInv
<1> HIDE DEF l
<1>2. /\ SaidText!Folded(<<>>, Append(lines, l)) = thenText(SaidText!Folded(<<>>, lines), l)
      /\ SaidFrags!Folded(<<>>, Append(lines, l)) = thenFrags(SaidFrags!Folded(<<>>, lines), l)
      /\ SaidWhole!Folded(<<>>, Append(lines, l)) = thenWhole(SaidWhole!Folded(<<>>, lines), l)
      /\ SaidEvents!Folded(<<>>, Append(lines, l))
           = thenEvents(SaidEvents!Folded(<<>>, lines), l)
      /\ SaidUsage!Folded(<<>>, Append(lines, l)) = thenUsage(SaidUsage!Folded(<<>>, lines), l)
  BY <1>1, SaidAppend
<1> QED BY <1>1, <1>2, ParserFolds, FoldsPrimed DEF l

LEMMA NoneSaid ==
  ASSUME lines = <<>>
  PROVE  Text = <<>> /\ Sent = <<>> /\ Whole = <<>> /\ Events = <<>> /\ Reported = <<>>
<1>1. SaidText!Folded(<<>>, <<>>) = <<>> /\ SaidFrags!Folded(<<>>, <<>>) = <<>>
  BY SaidText!FoldEmpty, SaidFrags!FoldEmpty
<1>2. SaidWhole!Folded(<<>>, <<>>) = <<>> /\ SaidEvents!Folded(<<>>, <<>>) = <<>>
  BY SaidWhole!FoldEmpty, SaidEvents!FoldEmpty
<1>3. SaidUsage!Folded(<<>>, <<>>) = <<>>
  BY SaidUsage!FoldEmpty
<1> QED BY <1>1, <1>2, <1>3, ParserFolds

LEMMA BothEmpty ==
  ASSUME NEW T, NEW s \in Seq(T), NEW u \in Seq(T), s \o u = <<>>
  PROVE  s = <<>> /\ u = <<>>
<1>1. Len(s \o u) = Len(s) + Len(u) /\ Len(s) \in Nat /\ Len(u) \in Nat
  BY ConcatProperties, LenProperties
<1>2. Len(<<>>) = 0
  OBVIOUS
<1>3. Len(s) = 0 /\ Len(u) = 0
  BY <1>1, <1>2
<1> QED BY <1>3, EmptySeq

LEMMA InitKept == ASSUME Init PROVE KeptInv
<1>1. lines = <<>>
  BY DEF Init
<1>2. Raw = blank
  BY <1>1, OfLines!FoldEmpty DEF Raw
<1>3. EndText(Raw) = <<>> /\ EndCalls(Raw) = NoTools
  BY <1>2, BlankIs, ToText!FoldEmpty, ToCalls!FoldEmpty DEF EndText, EndCalls
<1>4. /\ OfEvents!Folded(<<>>, <<>>) = <<>> /\ OfFrags!Folded(NoTools, <<>>) = NoTools
      /\ OfWhole!Folded(NoTools, <<>>) = NoTools
  BY OfEvents!FoldEmpty, OfFrags!FoldEmpty, OfWhole!FoldEmpty
<1>5. \A class : Cardinality(LinesOf(class)) = 0
  <2>1. \A class : LinesOf(class) = {}
    BY <1>1 DEF LinesOf
  <2> QED BY <2>1, FS_EmptySet
<1>6. <<>> \in Seq(Fragment) /\ <<>> \in Seq(Event)
  OBVIOUS
<1> QED BY <1>1, <1>2, <1>3, <1>4, <1>5, <1>6, NoneSaid, BlankIs DEF KeptInv

LEMMA MoreLines ==
  ASSUME IInv, Read, NEW class
  PROVE  Cardinality(LinesOf(class))'
           = IF Head(left).kind = "chunk" /\ Head(left).class = class
             THEN Cardinality(LinesOf(class)) + 1 ELSE Cardinality(LinesOf(class))
<1> DEFINE l == Head(left)
           n == Len(lines)
           S == LinesOf(class)
<1>1. l \in Line /\ lines' = Append(lines, l) /\ lines \in Seq(Line)
  BY ReadDoes DEF IInv, TypeInv
<1>2. /\ n \in Nat /\ DOMAIN lines = 1..n /\ DOMAIN lines' = 1..(n + 1) /\ lines'[n + 1] = l
      /\ \A i \in 1..n : lines'[i] = lines[i]
      /\ \A i \in 1..(n + 1) : i = n + 1 \/ i \in 1..n
      /\ \A i \in 1..n : i \in 1..(n + 1) /\ i # n + 1
      /\ n + 1 \in 1..(n + 1)
  BY <1>1, AppendOf
<1> HIDE DEF l, n
<1>3. S = {i \in 1..n : lines[i].kind = "chunk" /\ lines[i].class = class}
  BY <1>2 DEF LinesOf
<1>4. LinesOf(class)' = {i \in 1..(n + 1) : lines'[i].kind = "chunk" /\ lines'[i].class = class}
  BY <1>2 DEF LinesOf
<1>5. IsFiniteSet(S) /\ n + 1 \notin S
  <2>1. IsFiniteSet(1..n)
    BY <1>2, FS_Interval
  <2> QED BY <1>2, <1>3, <2>1, FS_Subset
<1>6. CASE l.kind = "chunk" /\ l.class = class
  <2>1. LinesOf(class)' = S \cup {n + 1}
    BY <1>2, <1>3, <1>4, <1>6
  <2>2. Cardinality(S \cup {n + 1}) = Cardinality(S) + 1
    <3> HIDE DEF S
    <3> QED BY <1>5, FS_AddElement
  <2> QED BY <1>6, <2>1, <2>2 DEF l
<1>7. CASE ~(l.kind = "chunk" /\ l.class = class)
  <2>1. LinesOf(class)' = S
    BY <1>2, <1>3, <1>4, <1>7
  <2> QED BY <1>7, <2>1 DEF l
<1> QED BY <1>6, <1>7

LEMMA ReadKept == ASSUME IInv, KeptInv, Read PROVE KeptInv'
<1> DEFINE l == Head(left)
<1>1. l \in Line /\ Handled(Raw, l, Raw')
  BY ReadDoes
<1>2. /\ Text' = thenText(Text, l) /\ Sent' = thenFrags(Sent, l)
      /\ Whole' = thenWhole(Whole, l) /\ Events' = thenEvents(Events, l)
  BY ReadSays
<1>3. /\ Cardinality(LinesOf("payload"))' = IF Payload(l) THEN Cardinality(LinesOf("payload")) + 1
                                            ELSE Cardinality(LinesOf("payload"))
      /\ Cardinality(LinesOf("unknown"))' = IF Unknown(l) THEN Cardinality(LinesOf("unknown")) + 1
                                            ELSE Cardinality(LinesOf("unknown"))
  BY MoreLines DEF Payload, Unknown
<1> HIDE DEF l
<1>4. /\ Sent \in Seq(Fragment) /\ Whole \in Seq(Fragment) /\ Events \in Seq(Event)
      /\ EndText(Raw) = Text
      /\ Raw.count = Cardinality(LinesOf("payload"))
      /\ Raw.unknown = Cardinality(LinesOf("unknown"))
      /\ Raw.anth = OfEvents!Folded(<<>>, Events)
      /\ Whole = <<>> => EndCalls(Raw) = OfFrags!Folded(NoTools, Sent)
      /\ Sent = <<>> => EndCalls(Raw) = OfWhole!Folded(NoTools, Whole)
  BY DEF KeptInv
<1>5. /\ Raw'.count = Cardinality(LinesOf("payload"))'
      /\ Raw'.unknown = Cardinality(LinesOf("unknown"))'
  BY <1>1, <1>3, <1>4 DEF Handled
<1>6. CASE Payload(l)
  <2>1. /\ l \in ChunkLine /\ l.frags \in Seq(Fragment) /\ l.whole \in Seq(Fragment)
        /\ l.anth \in Seq(Event)
    BY <1>1, <1>6, LineKinds DEF ChunkLine
  <2>2. /\ Text' = Text \o l.text /\ Sent' = Sent \o l.frags /\ Whole' = Whole \o l.whole
        /\ Events' = Events \o l.anth
    BY <1>2, <1>6 DEF thenText, thenFrags, thenWhole, thenEvents
  <2>3. Sent' \in Seq(Fragment) /\ Whole' \in Seq(Fragment) /\ Events' \in Seq(Event)
    BY <1>4, <2>1, <2>2, ConcatProperties
  <2>4. /\ Raw'.chunks = Append(Raw.chunks, l) /\ Raw'.text = Raw.text /\ Raw'.tacc = Raw.tacc
        /\ Raw'.anth = OfEvents!Folded(Raw.anth, l.anth) /\ Raw.chunks \in Seq(ChunkLine)
    BY <1>1, <1>6 DEF Handled, IInv, RawInv
  <2>5. EndText(Raw') = Text'
    <3>1. ToText!Folded(Raw.text, Append(Raw.chunks, l)) = addText(EndText(Raw), l)
      BY <2>1, <2>4, EndAppend DEF EndText
    <3> QED BY <1>4, <2>2, <2>4, <3>1 DEF EndText, addText
  <2>6. EndCalls(Raw') = OfWhole!Folded(OfFrags!Folded(EndCalls(Raw), l.frags), l.whole)
    <3>1. ToCalls!Folded(Raw.tacc, Append(Raw.chunks, l)) = addCalls(EndCalls(Raw), l)
      BY <2>1, <2>4, EndAppend DEF EndCalls
    <3>2. addCalls(EndCalls(Raw), l)
            = OfWhole!Folded(OfFrags!Folded(EndCalls(Raw), l.frags), l.whole)
      BY AddCallsIs
    <3>3. EndCalls(Raw') = ToCalls!Folded(Raw.tacc, Append(Raw.chunks, l))
      BY <2>4 DEF EndCalls
    <3> QED BY <3>1, <3>2, <3>3
  <2>7. Raw'.anth = OfEvents!Folded(<<>>, Events \o l.anth)
    BY <1>4, <2>1, <2>4, EventsConcat
  <2>8. ASSUME Whole' = <<>> PROVE EndCalls(Raw') = OfFrags!Folded(NoTools, Sent')
    <3>1. Whole = <<>> /\ l.whole = <<>>
      BY <1>4, <2>1, <2>2, <2>8, BothEmpty
    <3>2. EndCalls(Raw') = OfFrags!Folded(EndCalls(Raw), l.frags)
      BY <2>6, <3>1, OfWhole!FoldEmpty
    <3>3. OfFrags!Folded(NoTools, Sent \o l.frags)
            = OfFrags!Folded(OfFrags!Folded(NoTools, Sent), l.frags)
      BY <1>4, <2>1, CallsConcat
    <3> QED BY <1>4, <2>2, <3>1, <3>2, <3>3
  <2>9. ASSUME Sent' = <<>> PROVE EndCalls(Raw') = OfWhole!Folded(NoTools, Whole')
    <3>1. Sent = <<>> /\ l.frags = <<>>
      BY <1>4, <2>1, <2>2, <2>9, BothEmpty
    <3>2. EndCalls(Raw') = OfWhole!Folded(EndCalls(Raw), l.whole)
      BY <2>6, <3>1, OfFrags!FoldEmpty
    <3>3. OfWhole!Folded(NoTools, Whole \o l.whole)
            = OfWhole!Folded(OfWhole!Folded(NoTools, Whole), l.whole)
      BY <1>4, <2>1, CallsConcat
    <3> QED BY <1>4, <2>2, <3>1, <3>2, <3>3
  <2>10. Raw'.anth = OfEvents!Folded(<<>>, Events')
    BY <2>2, <2>7
  <2> QED BY <1>5, <2>3, <2>5, <2>8, <2>9, <2>10 DEF KeptInv
<1>7. CASE ~Payload(l)
  <2>1. Text' = Text /\ Sent' = Sent /\ Whole' = Whole /\ Events' = Events
    BY <1>2, <1>7 DEF thenText, thenFrags, thenWhole, thenEvents
  <2>2. /\ Raw'.chunks = Raw.chunks /\ Raw'.text = Raw.text /\ Raw'.tacc = Raw.tacc
        /\ Raw'.anth = Raw.anth
    BY <1>1, <1>7 DEF Handled
  <2>3. EndText(Raw') = EndText(Raw) /\ EndCalls(Raw') = EndCalls(Raw)
    BY <2>2 DEF EndText, EndCalls
  <2> QED BY <1>4, <1>5, <2>1, <2>2, <2>3 DEF KeptInv
<1> QED BY <1>6, <1>7

LEMMA SameKept == ASSUME KeptInv, lines' = lines PROVE KeptInv'
<1>1. Raw' = Raw
  BY DEF Raw
<1>2. Text' = Text /\ Sent' = Sent /\ Whole' = Whole /\ Events' = Events
  BY DEF Text, Sent, Whole, Events
<1>3. \A class : LinesOf(class)' = LinesOf(class)
  BY DEF LinesOf
<1>4. /\ Cardinality(LinesOf("payload"))' = Cardinality(LinesOf("payload"))
      /\ Cardinality(LinesOf("unknown"))' = Cardinality(LinesOf("unknown"))
  BY <1>3
<1> QED BY <1>1, <1>2, <1>4 DEF KeptInv

LEMMA KeptAlways == Spec => []KeptInv
<1>1. IInv /\ KeptInv /\ [Next]_vars => KeptInv'
  <2> SUFFICES ASSUME IInv, KeptInv, [Next]_vars PROVE KeptInv'
    OBVIOUS
  <2>1. CASE Read
    BY <2>1, ReadKept
  <2>2. CASE ~Read
    <3>1. lines' = lines
      BY <2>2 DEF Next, Miss, EndPass, Stall, vars
    <3> QED BY <3>1, SameKept
  <2> QED BY <2>1, <2>2
<1> QED BY InitKept, Inductive, <1>1, PTL DEF Spec

-----------------------------------------------------------------------------
(* The token counts, kept. *)

Counted == {toUsage(raw) : raw \in Usages}

Wired(raw) == raw.wire \in {"anthropic", "gemini"}
LEMMA CountNat ==
  ASSUME NEW raw \in Usages
  PROVE  /\ Wired(raw) => \A k : Count(raw.n, k) \in Nat
         /\ \A k \in DOMAIN raw.n \ Details : raw.n[k] \in Nat
BY ParserAssumption DEF Count, Wired

(* Every count but that of a blank struct of details. *)
LEMMA CountsNat ==
  ASSUME NEW u \in Counted
  PROVE  \A k \in DOMAIN u \ Details : u[k] \in Nat
<1>1. PICK raw \in Usages : u = toUsage(raw)
  BY DEF Counted
<1>2. CASE raw.wire = "anthropic"
  <2> DEFINE n == raw.n
             cached == Count(n, "read") + Count(n, "write")
             prompt == Count(n, "in") + cached
             out == Count(n, "out")
             known == {"prompt"} \cup (IF cached > 0 THEN {"cached"} ELSE {})
                        \cup (IF "out" \in DOMAIN n THEN {"completion", "total"} ELSE {})
  <2>1. u = Restrict([prompt |-> prompt, cached |-> cached, completion |-> out,
                      total |-> prompt + out], known)
    BY <1>1, <1>2 DEF toUsage, anthropicUsage
  <2>2. cached \in Nat /\ prompt \in Nat /\ out \in Nat /\ prompt + out \in Nat
    BY <1>2, CountNat DEF Wired
  <2>3. known \subseteq {"prompt", "cached", "completion", "total"}
    OBVIOUS
  <2> HIDE DEF known, cached, prompt, out
  <2> DEFINE v == [prompt |-> prompt, cached |-> cached, completion |-> out,
                   total |-> prompt + out]
  <2>4. \A k \in {"prompt", "cached", "completion", "total"} : v[k] \in Nat
    BY <2>2
  <2> HIDE DEF v
  <2>5. u = Restrict(v, known)
    BY <2>1 DEF v
  <2>6. DOMAIN u = known /\ \A k \in known : u[k] = v[k]
    BY <2>5 DEF Restrict
  <2> QED BY <2>3, <2>4, <2>6
<1>3. CASE raw.wire = "gemini"
  <2> DEFINE n == raw.n
             from == [prompt |-> {"prompt", "toolUse"}, completion |-> {"candidates", "thoughts"},
                      reasoning |-> {"thoughts"}, cached |-> {"cached"}, total |-> {"total"}]
             known == {k \in DOMAIN from : from[k] \cap DOMAIN n # {}}
             a == Count(n, "prompt") + Count(n, "toolUse")
             b == Count(n, "candidates") + Count(n, "thoughts")
             c == Count(n, "thoughts")
             d == Count(n, "cached")
             e == Count(n, "total")
  <2>1. u = Restrict([prompt |-> a, completion |-> b, reasoning |-> c, cached |-> d,
                      total |-> e], known)
    BY <1>1, <1>3 DEF toUsage, geminiUsage
  <2>2. a \in Nat /\ b \in Nat /\ c \in Nat /\ d \in Nat /\ e \in Nat
    BY <1>3, CountNat DEF Wired
  <2>3. known \subseteq {"prompt", "completion", "reasoning", "cached", "total"}
    OBVIOUS
  <2> HIDE DEF known, a, b, c, d, e
  <2> DEFINE v == [prompt |-> a, completion |-> b, reasoning |-> c, cached |-> d, total |-> e]
  <2>4. \A k \in {"prompt", "completion", "reasoning", "cached", "total"} : v[k] \in Nat
    BY <2>2
  <2> HIDE DEF v
  <2>5. u = Restrict(v, known)
    BY <2>1 DEF v
  <2>6. DOMAIN u = known /\ \A k \in known : u[k] = v[k]
    BY <2>5 DEF Restrict
  <2> QED BY <2>3, <2>4, <2>6
<1>4. CASE raw.wire \notin {"anthropic", "gemini"}
  BY <1>1, <1>4, CountNat DEF toUsage
<1> QED BY <1>2, <1>3, <1>4

(* What the counts k of the reports come to. *)
Tells(reports, u, k) ==
  \E i \in DOMAIN reports :
    /\ k \in DOMAIN reports[i] /\ u[k] = reports[i][k]
    /\ \A j \in DOMAIN reports : k \in DOMAIN reports[j] =>
         IF k = "prompt" THEN reports[j][k] <= u[k] ELSE j <= i
Says(reports, u) ==
  /\ \A k : k # "total" => (k \in DOMAIN u <=> \E i \in DOMAIN reports : k \in DOMAIN reports[i])
  /\ \A k \in DOMAIN u \ Details : u[k] \in Nat
  /\ \A k \in DOMAIN u \ {"total"} : Tells(reports, u, k)

LEMMA SaysFirst ==
  ASSUME NEW u \in Counted
  PROVE  Says(Append(<<>>, u), u)
<1> DEFINE s == Append(<<>>, u)
<1>1. DOMAIN s = {1} /\ s[1] = u
  OBVIOUS
<1> HIDE DEF s
<1>2. \A k \in DOMAIN u \ Details : u[k] \in Nat
  BY CountsNat
<1>3. \A k \in DOMAIN u : Tells(s, u, k)
  BY <1>1, <1>2 DEF Tells, Details
<1>4. \A k : k \in DOMAIN u <=> \E i \in DOMAIN s : k \in DOMAIN s[i]
  BY <1>1
<1> QED BY <1>2, <1>3, <1>4 DEF Says, s

LEMMA SaysMore ==
  ASSUME NEW s \in Seq(Counted), NEW old, Says(s, old), NEW next \in Counted
  PROVE  Says(Append(s, next), Merged(old, next))
<1> DEFINE t == Append(s, next)
           n == Len(s) + 1
           known == DOMAIN old \cup DOMAIN next
           both == {"prompt", "completion"} \subseteq known
           later(k) == IF k \in DOMAIN next THEN next[k] ELSE old[k]
           larger == IF Count(next, "prompt") < Count(old, "prompt") THEN old["prompt"]
                     ELSE later("prompt")
           u == Merged(old, next)
<1>1. /\ DOMAIN t = 1..n /\ DOMAIN s = 1..(n - 1) /\ t[n] = next /\ n \in Nat
      /\ \A i \in 1..(n - 1) : t[i] = s[i] /\ i \in 1..n /\ i # n
      /\ \A i \in 1..n : i \in 1..(n - 1) \/ i = n
      /\ n \in 1..n /\ \A i \in 1..n : i <= n
  BY AppendProperties, LenProperties
<1>2. /\ DOMAIN u = known \cup (IF both THEN {"total"} ELSE {})
      /\ \A k \in DOMAIN u : u[k] = CASE k = "prompt" -> larger
                                      [] k = "total" /\ both -> larger + later("completion")
                                      [] OTHER -> later(k)
  BY DEF Merged
<1>3. /\ \A k \in DOMAIN next \ Details : next[k] \in Nat
      /\ \A k \in DOMAIN old \ Details : old[k] \in Nat
      /\ "prompt" \notin Details /\ "completion" \notin Details /\ "total" \notin Details
      /\ \A k \in DOMAIN old \ {"total"} : Tells(s, old, k)
      /\ \A k : k # "total" => (k \in DOMAIN old <=> \E i \in DOMAIN s : k \in DOMAIN s[i])
  BY CountsNat DEF Says, Details
<1> HIDE DEF t, u, n
<1>4. \A k \in known \ Details : later(k) \in Nat
  BY <1>3
<1>5. ASSUME "prompt" \in known
      PROVE  /\ larger \in Nat
             /\ "prompt" \in DOMAIN old => old["prompt"] <= larger
             /\ "prompt" \in DOMAIN next => next["prompt"] <= larger
             /\ \/ "prompt" \in DOMAIN old /\ larger = old["prompt"]
                \/ "prompt" \in DOMAIN next /\ larger = next["prompt"]
  BY <1>3, <1>5 DEF Count
<1> HIDE DEF later, larger
<1>6. ASSUME NEW k \in DOMAIN u \ Details PROVE u[k] \in Nat
  <2>1. CASE k = "prompt"
    <3>1. "prompt" \in known
      BY <1>2, <1>6, <2>1
    <3> QED BY <1>2, <1>5, <1>6, <2>1, <3>1
  <2>2. CASE k = "total" /\ both
    <3>1. larger \in Nat /\ later("completion") \in Nat
      BY <1>3, <1>4, <1>5, <2>2
    <3> QED BY <1>2, <1>6, <2>2, <3>1
  <2>3. CASE k # "prompt" /\ ~(k = "total" /\ both)
    <3>1. k \in known
      BY <1>2, <1>6, <2>3
    <3> QED BY <1>2, <1>4, <1>6, <2>3, <3>1
  <2> QED BY <2>1, <2>2, <2>3
<1>7. ASSUME NEW k, k # "total"
      PROVE  k \in DOMAIN u <=> \E i \in DOMAIN t : k \in DOMAIN t[i]
  <2>1. k \in DOMAIN u <=> k \in DOMAIN old \/ k \in DOMAIN next
    BY <1>2, <1>7
  <2>2. k \in DOMAIN old <=> \E i \in DOMAIN s : k \in DOMAIN s[i]
    BY <1>3, <1>7
  <2>3. (\E i \in DOMAIN t : k \in DOMAIN t[i])
          <=> (\E i \in DOMAIN s : k \in DOMAIN s[i]) \/ k \in DOMAIN next
    BY <1>1
  <2> QED BY <2>1, <2>2, <2>3
<1>8. ASSUME NEW k \in DOMAIN u \ {"total"} PROVE Tells(t, u, k)
  <2>1. k \in known /\ k # "total"
    BY <1>2, <1>8
  <2>2. k \notin DOMAIN old => \A j \in 1..(n - 1) : k \notin DOMAIN s[j]
    BY <1>1, <1>3, <2>1
  <2>3. ASSUME k \in DOMAIN old
        PROVE  \E i \in 1..(n - 1) :
                 /\ k \in DOMAIN s[i] /\ old[k] = s[i][k]
                 /\ \A j \in 1..(n - 1) : k \in DOMAIN s[j] =>
                      IF k = "prompt" THEN s[j][k] <= old[k] ELSE j <= i
    BY <1>1, <1>3, <2>1, <2>3 DEF Tells
  <2>4. CASE k = "prompt"
    <3>1. u[k] = larger
      BY <1>2, <1>8, <2>4
    <3>2. \A j \in 1..(n - 1) : k \in DOMAIN s[j] => s[j][k] <= larger
      <4>1. CASE k \in DOMAIN old
        <5>1. \A j \in 1..(n - 1) : k \in DOMAIN s[j] => s[j][k] <= old[k]
          BY <2>3, <2>4, <4>1
        <5>2. old[k] <= larger /\ old[k] \in Nat /\ larger \in Nat
          BY <1>3, <1>5, <2>1, <2>4, <4>1
        <5>3. \A j \in 1..(n - 1) : k \in DOMAIN s[j] => s[j][k] \in Nat
          BY <1>1, <1>3, <2>4, CountsNat
        <5> QED BY <5>1, <5>2, <5>3
      <4>2. CASE k \notin DOMAIN old
        BY <2>2, <4>2
      <4> QED BY <4>1, <4>2
    <3>3. \A j \in 1..n : k \in DOMAIN t[j] => t[j][k] <= larger
      BY <1>1, <1>5, <2>1, <2>4, <3>2
    <3>4. \E i \in 1..n : k \in DOMAIN t[i] /\ larger = t[i][k]
      <4>1. CASE k \in DOMAIN old /\ larger = old[k]
        BY <1>1, <2>3, <4>1
      <4>2. CASE k \in DOMAIN next /\ larger = next[k]
        BY <1>1, <4>2
      <4> QED BY <1>5, <2>1, <2>4, <4>1, <4>2
    <3> QED BY <1>1, <2>4, <3>1, <3>3, <3>4 DEF Tells
  <2>5. CASE k # "prompt"
    <3>1. u[k] = later(k)
      BY <1>2, <1>8, <2>5
    <3>2. CASE k \in DOMAIN next
      <4>1. u[k] = t[n][k]
        BY <1>1, <3>1, <3>2 DEF later
      <4> QED BY <1>1, <2>5, <3>2, <4>1 DEF Tells
    <3>3. CASE k \notin DOMAIN next
      <4>1. u[k] = old[k] /\ k \in DOMAIN old
        BY <2>1, <3>1, <3>3 DEF later
      <4>2. PICK i \in 1..(n - 1) :
              /\ k \in DOMAIN s[i] /\ old[k] = s[i][k]
              /\ \A j \in 1..(n - 1) : k \in DOMAIN s[j] => j <= i
        BY <2>3, <2>5, <4>1
      <4>3. \A j \in 1..n : k \in DOMAIN t[j] => j <= i
        BY <1>1, <3>3, <4>2
      <4>4. i \in 1..n /\ t[i] = s[i]
        BY <1>1, <4>2
      <4> QED BY <1>1, <2>5, <4>1, <4>2, <4>3, <4>4 DEF Tells
    <3> QED BY <3>2, <3>3
  <2> QED BY <2>4, <2>5
<1> QED BY <1>6, <1>7, <1>8 DEF Says, t, u

LEMMA SaysMeans ==
  ASSUME Reported \in Seq(Counted), NEW u, Says(Reported, u)
  PROVE  UsageSays(u)
<1> SUFFICES ASSUME NEW k \in DOMAIN u \ {"total"}
             PROVE  u[k] = IF k = "prompt" THEN Max({Reported[i][k] : i \in Telling(k)})
                           ELSE Reported[Max(Telling(k))][k]
  <2>1. DOMAIN u \cup {"total"}
          = (UNION {DOMAIN Reported[i] : i \in DOMAIN Reported}) \cup {"total"}
    <3> DEFINE A == UNION {DOMAIN Reported[i] : i \in DOMAIN Reported}
    <3>1. \A k : k \in A <=> \E i \in DOMAIN Reported : k \in DOMAIN Reported[i]
      OBVIOUS
    <3>2. A = UNION {DOMAIN Reported[i] : i \in DOMAIN Reported}
      OBVIOUS
    <3> HIDE DEF A
    <3>3. \A k : k # "total" => (k \in DOMAIN u <=> k \in A)
      BY <3>1 DEF Says
    <3>4. DOMAIN u \cup {"total"} = A \cup {"total"}
      BY <3>3
    <3> QED BY <3>2, <3>4
  <2> QED BY <2>1 DEF UsageSays
<1>1. PICK i \in DOMAIN Reported :
        /\ k \in DOMAIN Reported[i] /\ u[k] = Reported[i][k]
        /\ \A j \in DOMAIN Reported : k \in DOMAIN Reported[j] =>
             IF k = "prompt" THEN Reported[j][k] <= u[k] ELSE j <= i
  BY DEF Says, Tells
<1>2. i \in Telling(k) /\ \A j \in Telling(k) : j \in DOMAIN Reported /\ k \in DOMAIN Reported[j]
  BY <1>1 DEF Telling
<1>3. CASE k = "prompt"
  <2> DEFINE S == {Reported[j][k] : j \in Telling(k)}
  <2>1. u[k] \in S /\ \A y \in S : y <= u[k]
    BY <1>1, <1>2, <1>3
  <2>2. \A y \in S : y \in Nat
    <3>1. \A j \in DOMAIN Reported : Reported[j] \in Counted
      OBVIOUS
    <3> QED BY <1>2, <1>3, <3>1, CountsNat DEF Details
  <2> HIDE DEF S
  <2>3. Max(S) \in S /\ \A y \in S : y <= Max(S)
    BY <2>1 DEF Max
  <2>4. Max(S) = u[k]
    BY <2>1, <2>2, <2>3
  <2> QED BY <1>3, <2>4 DEF S
<1>4. CASE k # "prompt"
  <2> DEFINE S == Telling(k)
  <2>1. i \in S /\ \A y \in S : y <= i
    BY <1>1, <1>2, <1>4
  <2>2. \A y \in S : y \in Nat
    <3>1. \A j \in DOMAIN Reported : j \in Nat
      BY LenProperties
    <3> QED BY <1>2, <3>1
  <2> HIDE DEF S
  <2>3. Max(S) \in S /\ \A y \in S : y <= Max(S)
    BY <2>1 DEF Max
  <2>4. Max(S) = i
    BY <2>1, <2>2, <2>3
  <2> QED BY <1>1, <1>4, <2>4 DEF S
<1> QED BY <1>3, <1>4

(* The usage of the chunks is what their counts come to. *)
ReportInv ==
  /\ Reported \in Seq(Counted)
  /\ \/ Reported = <<>> /\ EndUsage(Raw) = <<>>
     \/ Reported # <<>> /\ \E u : EndUsage(Raw) = <<u>> /\ Says(Reported, u)

LEMMA InitReport == ASSUME Init PROVE ReportInv
<1>1. lines = <<>>
  BY DEF Init
<1>2. Raw = blank
  BY <1>1, OfLines!FoldEmpty DEF Raw
<1>3. EndUsage(Raw) = <<>>
  BY <1>2, BlankIs, ToUsage!FoldEmpty DEF EndUsage
<1>4. <<>> \in Seq(Counted)
  OBVIOUS
<1> QED BY <1>1, <1>3, <1>4, NoneSaid DEF ReportInv

LEMMA ReadReport == ASSUME IInv, ReportInv, Read PROVE ReportInv'
<1> DEFINE l == Head(left)
<1>1. l \in Line /\ Handled(Raw, l, Raw')
  BY ReadDoes
<1>2. Reported' = thenUsage(Reported, l)
  BY ReadSays
<1> HIDE DEF l
<1>3. Reported \in Seq(Counted)
  BY DEF ReportInv
<1>4. CASE Payload(l) /\ l.usage # <<>>
  <2> DEFINE v == toUsage(l.usage[1])
  <2>1. l \in ChunkLine /\ l.usage[1] \in Usages
    <3>1. l \in ChunkLine /\ l.usage \in AtMostOne(Usages)
      BY <1>1, <1>4, LineKinds DEF ChunkLine
    <3> DEFINE s == l.usage
    <3>2. s \in Seq(Usages) /\ s # <<>>
      BY <1>4, <3>1 DEF AtMostOne
    <3> HIDE DEF s
    <3>3. s[1] \in Usages
      BY <3>2
    <3> QED BY <3>1, <3>3 DEF s
  <2>2. v \in Counted
    BY <2>1 DEF Counted
  <2>3. UsageOf(<<l>>) = <<v>>
    <3>1. <<l>>[1] = l /\ <<l>> # <<>>
      OBVIOUS
    <3> QED BY <1>4, <3>1 DEF UsageOf
  <2> HIDE DEF v
  <2>4. Reported' = Append(Reported, v)
    BY <1>2, <1>4 DEF thenUsage, v
  <2>5. /\ Raw'.chunks = Append(Raw.chunks, l) /\ Raw'.usage = Raw.usage
        /\ Raw.chunks \in Seq(ChunkLine)
    BY <1>1, <1>4 DEF Handled, IInv, RawInv
  <2>6. EndUsage(Raw') = mergeUsage(EndUsage(Raw), <<v>>)
    <3>1. ToUsage!Folded(Raw.usage, Append(Raw.chunks, l)) = addUsage(EndUsage(Raw), l)
      BY <2>1, <2>5, EndAppend DEF EndUsage
    <3>2. EndUsage(Raw') = ToUsage!Folded(Raw.usage, Append(Raw.chunks, l))
      BY <2>5 DEF EndUsage
    <3> QED BY <2>3, <3>1, <3>2 DEF addUsage
  <2>7. Reported' \in Seq(Counted) /\ Reported' # <<>>
    BY <1>3, <2>2, <2>4, AppendProperties, AppendNotEmpty
  <2>8. CASE Reported = <<>> /\ EndUsage(Raw) = <<>>
    <3>1. EndUsage(Raw') = <<v>>
      BY <2>6, <2>8 DEF mergeUsage
    <3>2. Says(Reported', v)
      BY <2>2, <2>4, <2>8, SaysFirst
    <3> QED BY <2>7, <3>1, <3>2 DEF ReportInv
  <2>9. CASE Reported # <<>> /\ \E u : EndUsage(Raw) = <<u>> /\ Says(Reported, u)
    <3>1. PICK u : EndUsage(Raw) = <<u>> /\ Says(Reported, u)
      BY <2>9
    <3>2. EndUsage(Raw') = <<Merged(u, v)>>
      <4>1. <<u>> # <<>> /\ <<v>> # <<>> /\ <<u>>[1] = u /\ <<v>>[1] = v
        OBVIOUS
      <4> QED BY <2>6, <3>1, <4>1 DEF mergeUsage
    <3>3. Says(Reported', Merged(u, v))
      <4> DEFINE s == Reported
      <4>1. s \in Seq(Counted) /\ Says(s, u) /\ Reported' = Append(s, v)
        BY <1>3, <2>4, <3>1
      <4> HIDE DEF s
      <4> QED BY <2>2, <4>1, SaysMore
    <3> QED BY <2>7, <3>2, <3>3 DEF ReportInv
  <2> QED BY <2>8, <2>9 DEF ReportInv
<1>5. CASE Payload(l) /\ l.usage = <<>>
  <2>1. Reported' = Reported
    BY <1>2, <1>5 DEF thenUsage
  <2>2. /\ Raw'.chunks = Append(Raw.chunks, l) /\ Raw'.usage = Raw.usage
        /\ Raw.chunks \in Seq(ChunkLine) /\ l \in ChunkLine
    BY <1>1, <1>5, LineKinds DEF Handled, IInv, RawInv
  <2>3. EndUsage(Raw') = EndUsage(Raw)
    <3>1. ToUsage!Folded(Raw.usage, Append(Raw.chunks, l)) = addUsage(EndUsage(Raw), l)
      BY <2>2, EndAppend DEF EndUsage
    <3>2. EndUsage(Raw') = ToUsage!Folded(Raw.usage, Append(Raw.chunks, l))
      BY <2>2 DEF EndUsage
    <3> QED BY <1>5, <3>1, <3>2, NoUsage DEF addUsage
  <2> QED BY <2>1, <2>3 DEF ReportInv
<1>6. CASE ~Payload(l)
  <2>1. Reported' = Reported
    BY <1>2, <1>6 DEF thenUsage
  <2>2. Raw'.chunks = Raw.chunks /\ Raw'.usage = Raw.usage
    BY <1>1, <1>6 DEF Handled
  <2>3. EndUsage(Raw') = EndUsage(Raw)
    BY <2>2 DEF EndUsage
  <2> QED BY <2>1, <2>3 DEF ReportInv
<1> QED BY <1>4, <1>5, <1>6

LEMMA SameReport == ASSUME ReportInv, lines' = lines PROVE ReportInv'
<1>1. Raw' = Raw /\ Reported' = Reported
  BY DEF Raw, Reported
<1> QED BY <1>1 DEF ReportInv

LEMMA ReportAlways == Spec => []ReportInv
<1>1. IInv /\ ReportInv /\ [Next]_vars => ReportInv'
  <2> SUFFICES ASSUME IInv, ReportInv, [Next]_vars PROVE ReportInv'
    OBVIOUS
  <2>1. CASE Read
    BY <2>1, ReadReport
  <2>2. CASE ~Read
    <3>1. lines' = lines
      BY <2>2 DEF Next, Miss, EndPass, Stall, vars
    <3> QED BY <3>1, SameReport
  <2> QED BY <2>1, <2>2
<1> QED BY InitReport, Inductive, <1>1, PTL DEF Spec

-----------------------------------------------------------------------------
(* A record after a pass. *)

LEMMA CleanIs ==
  ASSUME IInv, ~dirty
  PROVE  /\ rec.text = EndText(Raw) /\ rec.count = Raw.count /\ rec.unknown = Raw.unknown
         /\ rec.calls = IF Raw.anth # <<>> THEN Raw.anth ELSE EndCalls(Raw).calls
         /\ InOrder(lines) /\ EndUsage(Raw) # <<>> => rec.usage = EndUsage(Raw)
<1>1. /\ IsRecord(Raw) /\ Raw.chunks \in Seq(ChunkLine) /\ Raw.saw = FALSE /\ Raw.calls = <<>>
      /\ Raw.usage = <<>> /\ Raw.text = <<>>
  BY DEF IInv, RawInv
<1>2. CASE lines = <<>>
  <2>1. rec = blank /\ Raw = blank
    BY <1>2, OfLines!FoldEmpty DEF IInv, CleanInv, Raw
  <2>2. EndText(blank) = <<>> /\ EndCalls(blank) = NoTools /\ EndUsage(blank) = <<>>
    BY BlankIs, ToText!FoldEmpty, ToCalls!FoldEmpty, ToUsage!FoldEmpty
       DEF EndText, EndCalls, EndUsage
  <2> QED BY <2>1, <2>2, BlankIs, NoToolsType
<1>3. CASE lines # <<>>
  <2> DEFINE w == Raw
             b == rec.stalled
             q == [w EXCEPT !.stalled = b]
             f == finalize(q)
  <2>1. ButUsage(rec) = ButUsage(f) /\ (InOrder(lines) => rec.usage = f.usage)
    BY <1>3, ParserFolds DEF IInv, CleanInv, OnePass
  <2>2. IsRecord(w)
    BY <1>1
  <2> HIDE DEF w, b
  <2>3. /\ IsRecord(q) /\ q.chunks = w.chunks /\ q.saw = w.saw /\ q.count = w.count
        /\ q.unknown = w.unknown /\ EndText(q) = EndText(w) /\ EndJoined(q) = EndJoined(w)
        /\ LastUsage(q) = LastUsage(w)
    BY <2>2, StalledIs
  <2> HIDE DEF q
  <2>4. q.chunks \in Seq(ChunkLine) /\ q.saw \in BOOLEAN
    BY <1>1, <2>3 DEF w
  <2>5. Finalized(q, f)
    BY <2>3, <2>4, FinalizeDoes
  <2> HIDE DEF f
  <2>6. /\ rec.text = EndText(Raw) /\ rec.count = Raw.count /\ rec.unknown = Raw.unknown
        /\ rec.calls = EndJoined(Raw) /\ (InOrder(lines) => rec.usage = LastUsage(Raw))
    <3>1. IsRecord(rec) /\ IsRecord(f)
      BY <2>5 DEF Finalized, IInv, TypeInv
    <3>2. SameButUsage(rec, f)
      BY <2>1, <3>1, ButUsageIs
    <3> QED BY <2>1, <2>3, <2>5, <3>2 DEF Finalized, SameButUsage, w
  <2>7. EndJoined(Raw) = IF Raw.anth # <<>> THEN Raw.anth ELSE EndCalls(Raw).calls
    BY <1>1 DEF EndJoined
  <2>8. ASSUME EndUsage(Raw) # <<>> PROVE LastUsage(Raw) = EndUsage(Raw)
    <3>1. Raw.chunks # <<>>
      BY <1>1, <2>8, ToUsage!FoldEmpty DEF EndUsage
    <3> QED BY <2>8, <3>1 DEF LastUsage, StartUsage, EndSaw
  <2> QED BY <2>6, <2>7, <2>8
<1> QED BY <1>2, <1>3

LEMMA SaidIs ==
  ASSUME NEW s, NEW i \in Nat
  PROVE  Said(s, i) = SaidOf(s)[i] /\ SaidByEvents(s, i) = SaidInBlocks(s)[i]
<1>1. Said(s, i) = SaidFrag!Folded(Nothing(i), s)
  BY DEF Said, FoldLeft, MapThenFoldSet, Max, SaidFrag!Folded, SaidFrag!Table,
         SaidFrag!Before, SaidFrag!Largest
<1>2. SaidByEvents(s, i) = SaidEvent!Folded(Nothing(i), s)
  BY DEF SaidByEvents, FoldLeft, MapThenFoldSet, Max, SaidEvent!Folded, SaidEvent!Table,
         SaidEvent!Before, SaidEvent!Largest
<1> QED BY <1>1, <1>2 DEF SaidOf, SaidInBlocks

(* The record says what the lines said: the text in order, the numbers of   *)
(* chunks, each call sent under an index with its last name and all its     *)
(* arguments, calls that arrived whole under indexes of their own, and the  *)
(* largest prompt and the last of each other count (logparse.go:1384-1593). *)
THEOREM LinesKeptAlways == Spec => []LinesAreKept
<1>1. ASSUME IInv, KeptInv, ReportInv PROVE LinesAreKept
  <2> SUFFICES ASSUME ~dirty
               PROVE  /\ rec.text = Text
                      /\ rec.count = Cardinality(LinesOf("payload"))
                      /\ rec.unknown = Cardinality(LinesOf("unknown"))
                      /\ Indexed /\ Whole = <<>> /\ Events = <<>> =>
                           /\ OneCallEach(rec.calls)
                           /\ Range(rec.calls) = {Said(Sent, f.idx) : f \in Range(Sent)}
                      /\ Events # <<>> =>
                           /\ OneCallEach(rec.calls)
                           /\ Range(rec.calls)
                                = {SaidByEvents(Events, ev.idx) : ev \in Range(Events)}
                      /\ Sent = <<>> /\ Events = <<>> =>
                           /\ Len(rec.calls) = Len(Whole)
                           /\ \A i \in DOMAIN Whole :
                                rec.calls[i] = [Whole[i] EXCEPT !.idx = i - 1]
                      /\ InOrder(lines) /\ Reported # <<>> => UsageSays(rec.usage[1])
    BY DEF LinesAreKept
  <2>1. /\ rec.text = EndText(Raw) /\ rec.count = Raw.count /\ rec.unknown = Raw.unknown
        /\ rec.calls = IF Raw.anth # <<>> THEN Raw.anth ELSE EndCalls(Raw).calls
        /\ InOrder(lines) /\ EndUsage(Raw) # <<>> => rec.usage = EndUsage(Raw)
    BY <1>1, CleanIs
  <2>2. /\ Sent \in Seq(Fragment) /\ Whole \in Seq(Fragment) /\ Events \in Seq(Event)
        /\ EndText(Raw) = Text
        /\ Raw.count = Cardinality(LinesOf("payload"))
        /\ Raw.unknown = Cardinality(LinesOf("unknown"))
        /\ Raw.anth = OfEvents!Folded(<<>>, Events)
        /\ Whole = <<>> => EndCalls(Raw) = OfFrags!Folded(NoTools, Sent)
        /\ Sent = <<>> => EndCalls(Raw) = OfWhole!Folded(NoTools, Whole)
    BY <1>1 DEF KeptInv
  <2>3. Events = <<>> => Raw.anth = <<>>
    BY <2>2, OfEvents!FoldEmpty
  <2>4. ASSUME Indexed, Whole = <<>>, Events = <<>>
        PROVE  /\ OneCallEach(rec.calls)
               /\ Range(rec.calls) = {Said(Sent, f.idx) : f \in Range(Sent)}
    <3>1. rec.calls = OfFrags!Folded(NoTools, Sent).calls
      BY <2>1, <2>2, <2>3, <2>4
    <3>2. NoIndex \notin Idxs(Sent)
      BY <2>4 DEF Indexed, Idxs
    <3> DEFINE s == Sent
    <3>3. Listed(rec.calls, SaidOf(s), Idxs(s))
      BY <2>2, <3>1, <3>2, FragsListed
    <3> HIDE DEF s
    <3>4. /\ OneCallEach(rec.calls) /\ Idxs(s) \subseteq Nat
          /\ Range(rec.calls) = {SaidOf(s)[i] : i \in Idxs(s)}
      BY <3>3 DEF Listed
    <3>5. \A f \in Range(s) : Said(s, f.idx) = SaidOf(s)[f.idx]
      BY <3>4, SaidIs DEF Idxs
    <3>6. {SaidOf(s)[i] : i \in Idxs(s)} = {Said(s, f.idx) : f \in Range(s)}
      BY <3>5 DEF Idxs
    <3> QED BY <3>4, <3>6 DEF s
  <2>5. ASSUME Events # <<>>
        PROVE  /\ OneCallEach(rec.calls)
               /\ Range(rec.calls) = {SaidByEvents(Events, ev.idx) : ev \in Range(Events)}
    <3> DEFINE s == Events
    <3>1. Listed(Raw.anth, SaidInBlocks(s), Idxs(s))
      BY <2>2, EventsListed
    <3>2. s \in Seq(Event) /\ s # <<>>
      BY <2>2, <2>5
    <3> HIDE DEF s
    <3>3. /\ OneCallEach(Raw.anth) /\ Idxs(s) \subseteq Nat
          /\ Range(Raw.anth) = {SaidInBlocks(s)[i] : i \in Idxs(s)}
      BY <3>1 DEF Listed
    <3>4. s[1] \in Range(s)
      BY <3>2 DEF Range
    <3>5. Range(Raw.anth) # {}
      BY <3>3, <3>4 DEF Idxs
    <3>6. rec.calls = Raw.anth
      <4>1. Raw.anth # <<>>
        BY <3>5 DEF Range
      <4> QED BY <2>1, <4>1
    <3>7. \A ev \in Range(s) : SaidByEvents(s, ev.idx) = SaidInBlocks(s)[ev.idx]
      BY <3>3, SaidIs DEF Idxs
    <3>8. {SaidInBlocks(s)[i] : i \in Idxs(s)} = {SaidByEvents(s, ev.idx) : ev \in Range(s)}
      BY <3>7 DEF Idxs
    <3> QED BY <3>3, <3>6, <3>8 DEF s
  <2>6. ASSUME Sent = <<>>, Events = <<>>
        PROVE  /\ Len(rec.calls) = Len(Whole)
               /\ \A i \in DOMAIN Whole : rec.calls[i] = [Whole[i] EXCEPT !.idx = i - 1]
    <3>1. rec.calls = OfWhole!Folded(NoTools, Whole).calls
      BY <2>1, <2>2, <2>3, <2>6
    <3> DEFINE s == Whole
    <3>2. rec.calls = OfWhole!Folded(NoTools, s).calls /\ s \in Seq(Fragment)
      BY <2>2, <3>1
    <3> HIDE DEF s
    <3>3. Len(rec.calls) = Len(s) /\ \A i \in DOMAIN s : rec.calls[i] = [s[i] EXCEPT !.idx = i - 1]
      BY <3>2, WholeListed
    <3> QED BY <3>3 DEF s
  <2>7. ASSUME InOrder(lines), Reported # <<>> PROVE UsageSays(rec.usage[1])
    <3>1. PICK u : EndUsage(Raw) = <<u>> /\ Says(Reported, u)
      BY <1>1, <2>7 DEF ReportInv
    <3>2. rec.usage = <<u>>
      <4>1. <<u>> # <<>>
        OBVIOUS
      <4> QED BY <2>1, <2>7, <3>1, <4>1
    <3>3. rec.usage[1] = u
      BY <3>2
    <3>4. UsageSays(u)
      BY <1>1, <3>1, SaysMeans DEF ReportInv
    <3> QED BY <3>3, <3>4
  <2> QED BY <2>1, <2>2, <2>4, <2>5, <2>6, <2>7
<1> QED BY Inductive, KeptAlways, ReportAlways, <1>1, PTL

-----------------------------------------------------------------------------
(* What -reindex and -repair make of it. *)

(* A billing line leaves its body in the record, unless the line was cut.   *)
BilledInv == ~Garbled /\ rec.billed => rec.billing # <<>>

LEMMA InitBilled == ASSUME Init PROVE BilledInv
BY BlankIs DEF Init, BilledInv

LEMMA ReadBilled == ASSUME IInv, BilledInv, Read PROVE BilledInv'
<1> DEFINE l == Head(left)
<1>1. l \in Line /\ lines' = Append(lines, l) /\ lines \in Seq(Line) /\ Handled(rec, l, rec')
  BY ReadDoes DEF IInv, TypeInv
<1> HIDE DEF l
<1>2. l \in Range(lines') /\ \A x \in Range(lines) : x \in Range(lines')
  <2> DEFINE s == lines
  <2>1. s \in Seq(Line) /\ lines' = Append(s, l)
    BY <1>1
  <2> HIDE DEF s
  <2>2. l \in Range(Append(s, l)) /\ \A x \in Range(s) : x \in Range(Append(s, l))
    <3> DEFINE n == Len(s) + 1
    <3>1. /\ DOMAIN s = 1..(n - 1) /\ DOMAIN Append(s, l) = 1..n /\ Append(s, l)[n] = l
          /\ \A i \in 1..(n - 1) : Append(s, l)[i] = s[i] /\ i \in 1..n
          /\ n \in 1..n
      BY <1>1, <2>1, AppendProperties, LenProperties
    <3> HIDE DEF n
    <3> QED BY <3>1 DEF Range
  <2> QED BY <2>1, <2>2 DEF s
<1>3. Garbled' <=> \E x \in Range(lines') : x.kind = "billing" /\ x.body = <<>>
  BY DEF Garbled
<1>4. SUFFICES ASSUME ~Garbled', rec'.billed PROVE rec'.billing # <<>>
  BY DEF BilledInv
<1>5. ~Garbled
  BY <1>2, <1>3, <1>4 DEF Garbled
<1>6. CASE l.kind = "billing"
  <2>1. rec'.billing = l.body
    BY <1>1, <1>6 DEF Handled
  <2> QED BY <1>2, <1>3, <1>4, <1>6, <2>1
<1>7. CASE l.kind # "billing"
  BY <1>1, <1>4, <1>5, <1>7 DEF Handled, BilledInv
<1> QED BY <1>6, <1>7

LEMMA SameBilled ==
  ASSUME IInv, BilledInv, Miss \/ EndPass \/ Stall \/ UNCHANGED vars
  PROVE  BilledInv'
<1>1. CASE EndPass
  BY <1>1, EndPassIs DEF Finalized, BilledInv, Garbled
<1>2. CASE Stall
  <2> DEFINE q == [rec EXCEPT !.stalled = TRUE]
             o == deriveOutcome(q)
  <2>1. rec' = [q EXCEPT !.outcome = o] /\ lines' = lines
    BY <1>2, StallIs
  <2> HIDE DEF o
  <2>2. rec'.billed = rec.billed /\ rec'.billing = rec.billing
    BY <2>1 DEF IInv, TypeInv, IsRecord
  <2> QED BY <2>1, <2>2 DEF BilledInv, Garbled
<1>3. CASE Miss \/ UNCHANGED vars
  BY <1>3 DEF Miss, vars, BilledInv, Garbled
<1> QED BY <1>1, <1>2, <1>3

LEMMA BilledAlways == Spec => []BilledInv
<1>1. IInv /\ BilledInv /\ [Next]_vars => BilledInv'
  BY ReadBilled, SameBilled DEF Next
<1> QED BY InitBilled, Inductive, <1>1, PTL DEF Spec

LEMMA ArchivedIs ==
  ASSUME NEW r, IsRecord(r)
  PROVE  LET a == Archived(r)
         IN  /\ IsRecord(a) /\ a.billed = FALSE /\ a.outcome = r.outcome
             /\ a.request = r.request /\ a.billing = r.billing /\ a.status = r.status
             /\ a.errors = r.errors /\ a.stalled = r.stalled /\ a.calls = r.calls
             /\ a.called = r.called /\ a.stream = r.stream /\ a.msgs = r.msgs
             /\ a.turns = r.turns /\ a.tools = r.tools
<1> DEFINE t == NoTools
           e == <<>>
           f == FALSE
           a == [r EXCEPT !.tacc = t, !.anth = e, !.saw = f, !.billed = f]
<1>1. Archived(r) = a
  BY DEF Archived
<1> HIDE DEF t, e, f
<1>2. /\ a.outcome = r.outcome /\ a.request = r.request /\ a.billing = r.billing
      /\ a.status = r.status /\ a.errors = r.errors /\ a.stalled = r.stalled
      /\ a.calls = r.calls /\ a.called = r.called /\ a.stream = r.stream
      /\ a.msgs = r.msgs /\ a.turns = r.turns /\ a.tools = r.tools
  OBVIOUS
<1>3. a.billed = f
  <2>1. "billed" \in DOMAIN r
    BY DEF IsRecord
  <2> QED BY <2>1
<1>4. IsRecord(a)
  <2> DEFINE b == [r EXCEPT !.tacc = t]
             c == [b EXCEPT !.anth = e]
             d == [c EXCEPT !.saw = f]
             g == [d EXCEPT !.billed = f]
  <2>1. a = g
    OBVIOUS
  <2>2. IsRecord(b)
    BY DEF IsRecord
  <2> HIDE DEF b
  <2>3. IsRecord(c)
    BY <2>2 DEF IsRecord
  <2> HIDE DEF c
  <2>4. IsRecord(d)
    BY <2>3 DEF IsRecord
  <2> HIDE DEF d
  <2>5. IsRecord(g)
    BY <2>4 DEF IsRecord
  <2> QED BY <2>1, <2>5
<1> HIDE DEF a
<1> QED BY <1>1, <1>2, <1>3, <1>4 DEF f

(* -reindex derives from the archived record the outcome the parser gave    *)
(* it, whatever the lines, the passes and the stalls in between were: the   *)
(* evidence it still has is what the outcome was decided on, unless the     *)
(* billing line was cut (logparse.go:1576-1585).                            *)
THEOREM ReindexKeepsAlways == Spec => []ReindexKeeps
<1>1. ASSUME IInv, BilledInv PROVE ReindexKeeps
  <2> SUFFICES ASSUME ~dirty, ~Garbled
               PROVE  refreshOutcome(Archived(rec)) = Archived(rec)
    BY DEF ReindexKeeps
  <2> DEFINE a == Archived(rec)
             o == deriveOutcome(a)
  <2>1. IsRecord(rec) /\ rec.outcome = deriveOutcome(rec) /\ rec.billed \in BOOLEAN
        /\ (rec.billed => rec.billing # <<>>)
    BY <1>1 DEF IInv, TypeInv, CleanInv, BilledInv
  <2>2. /\ IsRecord(a) /\ a.outcome = rec.outcome /\ a.billed = FALSE
        /\ a.billing = rec.billing /\ a.status = rec.status /\ a.stalled = rec.stalled
        /\ a.errors = rec.errors
    BY <2>1, ArchivedIs
  <2> HIDE DEF a
  <2>3. o = deriveOutcome(rec)
    <3>1. /\ a.billed = FALSE /\ a.billing = rec.billing /\ a.status = rec.status
          /\ a.stalled = rec.stalled /\ a.errors = rec.errors
      BY <2>2
    <3>2. a.billed \/ a.billing # <<>> <=> rec.billed \/ rec.billing # <<>>
      BY <2>1, <3>1
    <3> DEFINE bill(r) == IF r.billing = <<>> THEN "" ELSE r.billing[1].stream
               late(r) == IF r.stalled THEN <<"error", "stalled">>
                          ELSE IF r.errors > 0 THEN <<"error", "logged_error">>
                          ELSE <<"", "">>
               evident(r) == r.billed \/ r.billing # <<>>
    <3>3. \A r : deriveOutcome(r) =
            CASE r.status # 0 -> <<IF r.status < 400 THEN "ok" ELSE "error", "http">>
              [] r.status = 0 /\ bill(r) # "" -> <<bill(r), "stream_status">>
              [] r.status = 0 /\ bill(r) = "" /\ evident(r) -> <<"ok", "billed">>
              [] OTHER -> late(r)
      BY DEF deriveOutcome
    <3>4. bill(a) = bill(rec) /\ late(a) = late(rec) /\ (evident(a) <=> evident(rec))
      BY <3>1, <3>2
    <3> HIDE DEF bill, late, evident
    <3> QED BY <3>1, <3>3, <3>4
  <2> HIDE DEF o
  <2>4. [a EXCEPT !.outcome = o] = a
    BY <2>1, <2>2, <2>3 DEF IsRecord
  <2> QED BY <2>4 DEF refreshOutcome, o, a
<1> QED BY Inductive, BilledAlways, <1>1, PTL

(* Calls that are apart stay apart when they are joined once more. *)
LEMMA JoinedApart ==
  ASSUME NEW calls \in ApartCalls
  PROVE  Rejoined(calls) = calls
<1> DEFINE joined == FoldLeft(add, NoTools, calls).calls
<1>1. joined = OfFrags!Folded(NoTools, calls).calls
  BY CallFolds
<1>2. calls \in Seq(Call) /\ OneCallEach(calls)
  BY DEF ApartCalls
<1>3. calls \in Seq(Fragment)
  <2>1. \A c \in Call : c \in Fragment
    BY DEF Call, Fragment
  <2> QED BY <1>2, <2>1
<1>4. Idxs(calls) \subseteq Nat /\ NoIndex \notin Idxs(calls)
  <2>1. \A i \in DOMAIN calls : calls[i].idx \in Nat
    <3>1. \A i \in DOMAIN calls : calls[i] \in Call
      BY <1>2
    <3> QED BY <3>1 DEF Call
  <2>2. NoIndex \notin Nat
    BY DEF NoIndex
  <2> QED BY <2>1, <2>2 DEF Idxs, Range
<1>5. joined \in Seq(Call) /\ Listed(joined, SaidOf(calls), Idxs(calls))
  BY <1>1, <1>3, <1>4, FragsListed DEF Apart, Acc
<1> HIDE DEF joined
<1>6. \A i \in DOMAIN calls : \E j \in DOMAIN joined : joined[j].idx = calls[i].idx
  <2> SUFFICES ASSUME NEW i \in DOMAIN calls
               PROVE  \E j \in DOMAIN joined : joined[j].idx = calls[i].idx
    OBVIOUS
  <2> DEFINE x == calls[i].idx
             said == SaidOf(calls)
  <2>1. x \in Idxs(calls)
    BY DEF Idxs, Range
  <2> HIDE DEF x, said
  <2>2. said[x] \in Range(joined) /\ said[x].idx = x
    BY <1>4, <1>5, <2>1 DEF Listed, said
  <2> QED BY <2>2 DEF Range, x
<1> DEFINE m == Len(calls)
           n == Len(joined)
           f == [i \in 1..m |-> CHOOSE j \in 1..n : joined[j].idx = calls[i].idx]
<1>7. m \in Nat /\ n \in Nat /\ DOMAIN calls = 1..m /\ DOMAIN joined = 1..n
  BY <1>2, <1>5, LenProperties
<1>8. \A i \in 1..m : f[i] \in 1..n /\ joined[f[i]].idx = calls[i].idx
  BY <1>6, <1>7
<1>9. f \in [1..m -> 1..n]
  BY <1>8
<1> HIDE DEF f, m, n
<1>10. f \in Injection(1..m, 1..n)
  BY <1>2, <1>7, <1>8, <1>9 DEF OneCallEach, Injection, IsInjective
<1>11. m <= n
  <2>1. IsFiniteSet(1..n) /\ Cardinality(1..m) = m /\ Cardinality(1..n) = n
    BY <1>7, FS_Interval
  <2>2. Cardinality(1..m) <= Cardinality(1..n)
    BY <1>10, <2>1, FS_Injection
  <2> QED BY <2>1, <2>2
<1>12. ~(Len(joined) < Len(calls))
  BY <1>7, <1>11 DEF m, n
<1> QED BY <1>12 DEF Rejoined, joined

LEMMA CleanCounts ==
  ASSUME IInv, ~dirty
  PROVE  /\ rec.calls \in ApartCalls /\ (rec.stream => rec.called = Names(rec.calls))
         /\ rec.request # <<>> =>
              /\ rec.msgs = Len(fromGemini(rec.request[1]))
              /\ rec.turns = Turns(fromGemini(rec.request[1]))
              /\ rec.tools = rec.request[1].tools + rec.request[1].declared
<1>1. /\ IsRecord(Raw) /\ Raw.chunks \in Seq(ChunkLine) /\ Raw.saw = FALSE
      /\ Raw.tacc = NoTools
  BY DEF IInv, RawInv
<1>2. rec.calls \in ApartCalls
  <2>1. Raw.anth \in ApartCalls
    BY DEF IInv, TypeInv, PassInv, AsRead
  <2>2. EndCalls(Raw).calls \in ApartCalls
    <3>1. EndCalls(Raw) \in Apart
      BY <1>1, NoToolsType, ToCallsType DEF EndCalls
    <3> QED BY <3>1 DEF Apart, Acc, ApartCalls
  <2> QED BY <2>1, <2>2, CleanIs
<1>3. CASE lines = <<>>
  <2>1. rec = blank
    BY <1>3 DEF IInv, CleanInv
  <2>2. rec.stream = FALSE /\ rec.request = <<>>
    BY <2>1 DEF blank
  <2> QED BY <1>2, <2>2
<1>4. CASE lines # <<>>
  <2> DEFINE w == Raw
             b == rec.stalled
             q == [w EXCEPT !.stalled = b]
             f == finalize(q)
  <2>1. ButUsage(rec) = ButUsage(f)
    BY <1>4, ParserFolds DEF IInv, CleanInv, OnePass
  <2>2. IsRecord(w)
    BY <1>1
  <2> HIDE DEF w, b
  <2>3. IsRecord(q) /\ q.chunks = w.chunks /\ q.saw = w.saw
    BY <2>2, StalledIs
  <2> HIDE DEF q
  <2>4. q.chunks \in Seq(ChunkLine) /\ q.saw \in BOOLEAN
    BY <1>1, <2>3 DEF w
  <2>5. Finalized(q, f)
    BY <2>3, <2>4, FinalizeDoes
  <2> HIDE DEF f
  <2>9. SameButUsage(rec, f)
    <3>1. IsRecord(rec) /\ IsRecord(f)
      BY <2>5 DEF Finalized, IInv, TypeInv
    <3> QED BY <2>1, <3>1, ButUsageIs
  <2>6. rec.stream => rec.called = Names(rec.calls)
    BY <2>5, <2>9 DEF Finalized, SameButUsage
  <2>7. /\ rec.request = q.request /\ rec.msgs = Len(fromGemini(Body(q.request)))
        /\ rec.turns = Turns(fromGemini(Body(q.request)))
        /\ rec.tools = Body(q.request).tools + Body(q.request).declared
    BY <2>5, <2>9 DEF Finalized, SameButUsage
  <2>8. rec.request # <<>> => Body(q.request) = rec.request[1]
    BY <2>7 DEF Body
  <2> QED BY <1>2, <2>6, <2>7, <2>8
<1> QED BY <1>3, <1>4

(* -repair leaves a record of the present parser alone, whatever its lines  *)
(* were and whichever of them were read: its calls are never joined again,  *)
(* broken or not, and its counts come out the same, but for those of a      *)
(* Gemini request (repair.go:22-29, 171-178, repair_test.go:51-53).         *)
THEOREM RepairKeepsAlways == Spec => []RepairKeeps
<1>1. ASSUME IInv PROVE RepairKeeps
  <2> DEFINE a == Archived(rec)
             c == recountFrom(a)
             r == repairRecord(a)
  <2> SUFFICES ASSUME ~dirty PROVE (GeminiRequest \/ r = a) /\ r.calls = a.calls
    BY DEF RepairKeeps
  <2>1. /\ rec.calls \in ApartCalls /\ (rec.stream => rec.called = Names(rec.calls))
        /\ rec.request # <<>> =>
             /\ rec.msgs = Len(fromGemini(rec.request[1]))
             /\ rec.turns = Turns(fromGemini(rec.request[1]))
             /\ rec.tools = rec.request[1].tools + rec.request[1].declared
    BY <1>1, CleanCounts
  <2>2. IsRecord(rec) /\ rec.request \in AtMostOne(RequestBody)
    BY <1>1 DEF IInv, TypeInv, Bodies
  <2>3. /\ IsRecord(a) /\ a.request = rec.request /\ a.calls = rec.calls
        /\ a.called = rec.called /\ a.stream = rec.stream /\ a.msgs = rec.msgs
        /\ a.turns = rec.turns /\ a.tools = rec.tools
    BY <2>2, ArchivedIs
  <2> HIDE DEF a
  <2>4. Rejoined(a.calls) = a.calls
    BY <2>1, <2>3, JoinedApart
  <2>5. IsRecord(c) /\ c.calls = a.calls /\ c.called = a.called /\ (GeminiRequest \/ c = a)
    <3>1. CASE a.request = <<>>
      BY <2>3, <3>1 DEF recountFrom
    <3>2. CASE a.request # <<>>
      <4> DEFINE body == a.request[1]
                 m == Len(body.messages)
                 t == Turns(body.messages)
                 k == body.tools
      <4>1. c = [a EXCEPT !.msgs = m, !.turns = t, !.tools = k]
        BY <3>2 DEF recountFrom
      <4>2. body \in RequestBody
        <5> DEFINE s == a.request
        <5>1. s \in Seq(RequestBody) /\ s # <<>>
          BY <2>2, <2>3, <3>2 DEF AtMostOne
        <5> HIDE DEF s
        <5>2. s[1] \in RequestBody
          BY <5>1
        <5> QED BY <5>2 DEF s
      <4>3. ~GeminiRequest => body.contents = <<>> /\ body.declared = 0
        BY <2>3, <3>2, <4>2 DEF GeminiRequest, RequestBody
      <4>4. body.contents = <<>> => fromGemini(body) = body.messages
        <5>1. CASE body.messages # <<>>
          BY <5>1 DEF fromGemini
        <5>2. CASE body.messages = <<>> /\ body.contents = <<>>
          <6>1. DOMAIN body.contents = {}
            BY <5>2
          <6>2. fromGemini(body) = <<>>
            BY <5>2, <6>1 DEF fromGemini
          <6> QED BY <5>2, <6>2
        <5> QED BY <5>1, <5>2
      <4>5. ~GeminiRequest => m = a.msgs /\ t = a.turns /\ k = a.tools
        <5>1. body.tools \in Nat
          BY <4>2 DEF RequestBody
        <5> QED BY <2>1, <2>3, <3>2, <4>3, <4>4, <5>1
      <4> HIDE DEF body, m, t, k, c
      <4>6. IsRecord(c) /\ c.calls = a.calls /\ c.called = a.called
        BY <2>3, <4>1 DEF IsRecord
      <4>7. m = a.msgs /\ t = a.turns /\ k = a.tools => c = a
        BY <2>3, <4>1 DEF IsRecord
      <4> QED BY <4>5, <4>6, <4>7
    <3> QED BY <3>1, <3>2
  <2> DEFINE v == a.calls
             u == IF a.stream THEN Names(v) ELSE c.called
  <2>6. r = [c EXCEPT !.calls = v, !.called = u]
    BY <2>4 DEF repairRecord
  <2>7. v = c.calls /\ u = c.called
    BY <2>1, <2>3, <2>5
  <2> HIDE DEF c, v, u, r
  <2>8. r = c
    BY <2>5, <2>6, <2>7 DEF IsRecord
  <2> QED BY <2>5, <2>8
<1> QED BY Inductive, <1>1, PTL
=============================================================================
