---------------------------- MODULE ArchiveProofs ----------------------------
(***************************************************************************)
(* Proofs about the permanent store, for any records, days and contents,   *)
(* any number of appends and crashes and any choice of faults: what holds  *)
(* however many processes append, then what holds because one does, last   *)
(* that the files implement RecordStore.                                   *)
(***************************************************************************)
EXTENDS Archive, SetFacts, TLAPS

(* The viewer is the only process that appends. *)
OneWriter == \A v, w \in Writer : v = w

-----------------------------------------------------------------------------
(* The invariant of any number of writers.                                  *)

Opened == [behind : SUBSET {"data", "pool"}, day : Day \cup {None},
           off : Nat, blobOff : Nat, blobs : [Content -> Nat \cup {-1}],
           loaded : BOOLEAN, rids : SUBSET Rid]
Pc == {"idle", "blob", "blobSync", "member", "memberSync", "entry", "entrySync"}
Job == [pc : Pc, rec : Record \cup {None}, how : {"append", "new"}, ptr : Nat,
        sound : BOOLEAN]
Sizes == [data : Nat, index : Nat, pool : Nat, poolIndex : Nat]

MemberCell == Member \X {1, 2}
PoolCell == Content \X {1, 2}

Typed ==
  /\ data \in [Day -> Seq(MemberCell)]
  /\ pool \in [Day -> Seq(PoolCell)]
  /\ index \in [Day -> Lines(Entry)]
  /\ poolIndex \in [Day -> Lines(Pointer)]
  /\ synced \in [Day -> Sizes]
  /\ open \in [Writer -> Opened]
  /\ job \in [Writer -> Job]
  /\ tries \in 0..MaxTries /\ crashes \in 0..MaxCrash
  /\ acked \subseteq Day \X Rid /\ kept \subseteq acked /\ spoiled \subseteq Day

(* Nothing is synced that is not in the file. *)
Covered ==
  \A d \in Day :
    /\ synced[d].data <= Len(data[d]) /\ synced[d].pool <= Len(pool[d])
    /\ synced[d].index <= Len(index[d].lines)
    /\ synced[d].poolIndex <= Len(poolIndex[d].lines)

(* An append works on the day of its record; only one that lifts a value    *)
(* goes through the pool.                                                   *)
Busy(w) == job[w].pc # "idle"
Working ==
  \A w \in Writer :
    /\ Busy(w) => job[w].rec \in Record /\ D(w) = DayOf[job[w].rec]
    /\ job[w].pc \in {"blob", "blobSync"} => BlobOf[job[w].rec] # None

(* A pointer a member of day d may hold: into the n cells synced of its     *)
(* pool.                                                                    *)
PtrOk(d, r, p, n) ==
  /\ DayOf[r] = d
  /\ IF BlobOf[r] = None THEN p = 0 ELSE p + 2 <= n

(* The offsets of a process lie within its files, those it hands out within *)
(* what is synced (s) of them.                                              *)
InBounds(o, j, f, p, s) ==
  /\ o.off <= Len(f)
  /\ j.pc \in {"memberSync", "entry"} => o.off + 2 <= Len(f)
  /\ j.pc = "entry" => o.off + 2 <= s.data
  /\ o.blobOff <= Len(p)
  /\ j.pc = "blobSync" => o.blobOff + 2 <= Len(p)
  /\ \A c \in Content : o.blobs[c] # -1 => o.blobs[c] + 2 <= s.pool
  /\ j.pc \in {"member", "memberSync", "entry"} => PtrOk(o.day, j.rec, j.ptr, s.pool)
Within ==
  \A w \in Writer :
    D(w) # None =>
      InBounds(open[w], job[w], data[D(w)], pool[D(w)], synced[D(w)])

(* What the files of a day say of each other points at synced cells. *)
MembersOk(d, f, n) ==
  \A k \in 1..Len(f) : PtrOk(d, f[k][1].rec, f[k][1].ptr, n)
EntriesOk(d, ls, n) ==
  \A i \in 1..Len(ls) :
    ls[i].rec # None => DayOf[ls[i].rec] = d /\ ls[i].off + 2 <= n
PointersOk(ls, n) ==
  \A i \in 1..Len(ls) : ls[i].content # None => ls[i].off + 2 <= n
Linked ==
  \A d \in Day :
    /\ MembersOk(d, data[d], synced[d].pool)
    /\ EntriesOk(d, index[d].lines, synced[d].data)
    /\ PointersOk(poolIndex[d].lines, synced[d].pool)

(* A record acknowledged at a right offset has a clean line that is synced, *)
(* and one about to be acknowledged has its line.                           *)
HasLine(ls, n, r) == \E i \in 1..n : ls[i].rec = r /\ ls[i].clean
Promised ==
  /\ \A key \in kept : \E r \in Record :
       Key(r) = key /\ HasLine(index[key[1]].lines, synced[key[1]].index, r)
  /\ \A w \in Writer :
       job[w].pc = "entrySync" /\ job[w].sound =>
         HasLine(index[D(w)].lines, Len(index[D(w)].lines), job[w].rec)

-----------------------------------------------------------------------------
(* The invariant of one writer.                                             *)

(* While no write went past it, the offset is the end of the file, or where *)
(* the member being synced begins.                                          *)
Positioned(o, j, f, p) ==
  /\ "data" \notin o.behind =>
       IF j.pc \in {"memberSync", "entry"}
       THEN Len(f) = o.off + 2 /\ IsAt(f, o.off, [rec |-> j.rec, ptr |-> j.ptr])
       ELSE Len(f) = o.off
  /\ "pool" \notin o.behind =>
       IF j.pc = "blobSync"
       THEN Len(p) = o.blobOff + 2 /\ IsAt(p, o.blobOff, BlobOf[j.rec])
       ELSE Len(p) = o.blobOff
AtEnd ==
  \A w \in Writer :
    D(w) # None => Positioned(open[w], job[w], data[D(w)], pool[D(w)])

(* A value is in the n synced cells of a pool. *)
InPool(p, n, c, at) == at + 2 <= n /\ IsAt(p, at, c)

(* Every pointer to the pool of a day that is not spoiled is right: those   *)
(* of its index, of the dedup map and of the append under way.              *)
PointersSound(ls, p, n) ==
  \A i \in 1..Len(ls) : ls[i].content # None => InPool(p, n, ls[i].content, ls[i].off)
ProcessSound(o, j, p, n) ==
  /\ \A c \in Content : o.blobs[c] # -1 => InPool(p, n, c, o.blobs[c])
  /\ j.pc \in {"member", "memberSync", "entry"} /\ BlobOf[j.rec] # None =>
       InPool(p, n, BlobOf[j.rec], j.ptr)
PoolSound ==
  \A d \in Day \ spoiled :
    /\ PointersSound(poolIndex[d].lines, pool[d], synced[d].pool)
    /\ \A w \in Writer :
         D(w) = d => ProcessSound(open[w], job[w], pool[d], synced[d].pool)

(* The member at an offset holds a record, and its value is in the pool. *)
Holds(f, p, s, off, r) ==
  /\ off + 2 <= s.data
  /\ \E at \in 0..s.pool :
       /\ IsAt(f, off, [rec |-> r, ptr |-> at])
       /\ BlobOf[r] # None => InPool(p, s.pool, BlobOf[r], at)
LinesHold(ls, f, p, s) ==
  \A i \in 1..Len(ls) :
    ls[i].rec # None /\ ls[i].clean => Holds(f, p, s, ls[i].off, ls[i].rec)
EntriesSound ==
  \A d \in Day : LinesHold(index[d].lines, data[d], pool[d], synced[d])

(* The ids in memory are at least those of the day, and the append under    *)
(* way as new has an id that the day does not.                              *)
RidsIn(ls) ==
  {RidOf[ls[i].rec] : i \in {j \in 1..Len(ls) : ls[j].rec # None}}
Remembers(o, j, ls) ==
  /\ o.loaded => RidsIn(ls) \subseteq o.rids
  /\ j.how = "new" /\ j.pc \notin {"idle", "entrySync"} =>
       RidOf[j.rec] \notin RidsIn(ls)
RidsSound ==
  \A w \in Writer :
    IF D(w) = None THEN ~open[w].loaded
    ELSE Remembers(open[w], job[w], index[D(w)].lines)

(* A record appended as new has an id that none before it has. *)
NewAreNew(ls) ==
  \A i, j \in 1..Len(ls) :
    /\ i < j /\ ls[i].rec # None /\ ls[j].rec # None
    /\ RidOf[ls[i].rec] = RidOf[ls[j].rec]
    => ls[j].how # "new"
Unrepeated == \A d \in Day : NewAreNew(index[d].lines)

(* A day has at most a line for each append that was begun. *)
Counted ==
  \A d \in Day :
    /\ Len(index[d].lines) <= tries
    /\ \A w \in Writer : job[w].pc \notin {"idle", "entrySync"} =>
         Len(index[d].lines) < tries

-----------------------------------------------------------------------------
(* The files. *)

(* f is still there in g, up to n. *)
Same(f, g, n) == n <= Len(f) /\ n <= Len(g) /\ \A k \in 1..n : g[k] = f[k]

(* A member appended whole or in part. *)
LEMMA Cell ==
  ASSUME NEW T, NEW m, <<m, 1>> \in T, <<m, 2>> \in T
  PROVE  /\ Cells(m) \in Seq(T) /\ Len(Cells(m)) = 2
         /\ Cells(m)[1] = <<m, 1>> /\ Cells(m)[2] = <<m, 2>>
BY DEF Cells

LEMMA Joined ==
  ASSUME NEW T, NEW f \in Seq(T), NEW c \in Seq(T)
  PROVE  /\ f \o c \in Seq(T) /\ Len(f \o c) = Len(f) + Len(c)
         /\ Len(f) \in Nat /\ Len(c) \in Nat
         /\ \A k \in 1..(Len(f) + Len(c)) :
              (f \o c)[k] = IF k <= Len(f) THEN f[k] ELSE c[k - Len(f)]
OBVIOUS

LEMMA Tacked ==
  ASSUME NEW T, NEW f \in Seq(T), NEW c \in Seq(T)
  PROVE  Same(f, f \o c, Len(f))
BY Joined DEF Same

LEMMA TackedAt ==
  ASSUME NEW T, NEW f \in Seq(T), NEW c \in Seq(T), NEW k \in 1..Len(c)
  PROVE  (f \o c)[Len(f) + k] = c[k]
<1>1. /\ Len(f) \in Nat /\ Len(c) \in Nat
      /\ \A i \in 1..(Len(f) + Len(c)) :
           (f \o c)[i] = IF i <= Len(f) THEN f[i] ELSE c[i - Len(f)]
  BY Joined
<1>2. Len(f) + k \in 1..(Len(f) + Len(c)) /\ ~(Len(f) + k <= Len(f))
      /\ (Len(f) + k) - Len(f) = k
  BY <1>1
<1> QED BY <1>1, <1>2

LEMMA PutMember ==
  ASSUME NEW T, NEW m, <<m, 1>> \in T, <<m, 2>> \in T, NEW f \in Seq(T)
  PROVE  /\ f \o Cells(m) \in Seq(T) /\ Len(f \o Cells(m)) = Len(f) + 2
         /\ Same(f, f \o Cells(m), Len(f))
         /\ \A k \in 1..(Len(f) + 2) : k > Len(f) => (f \o Cells(m))[k][1] = m
         /\ IsAt(f \o Cells(m), Len(f), m)
<1> DEFINE c == Cells(m)
           g == f \o c
<1>1. c \in Seq(T) /\ Len(c) = 2 /\ c[1] = <<m, 1>> /\ c[2] = <<m, 2>>
  BY Cell
<1> HIDE DEF c
<1>2. g \in Seq(T) /\ Len(g) = Len(f) + Len(c) /\ Len(f) \in Nat
  BY <1>1, Joined
<1>3. Same(f, g, Len(f))
  BY <1>1, Tacked
<1>4. g[Len(f) + 1] = c[1] /\ g[Len(f) + 2] = c[2]
  <2>1. 1 \in 1..Len(c) /\ 2 \in 1..Len(c)
    BY <1>1
  <2> QED BY <1>1, <2>1, TackedAt
<1> HIDE DEF g
<1>5. Len(g) = Len(f) + 2 /\ g[Len(f) + 1] = <<m, 1>> /\ g[Len(f) + 2] = <<m, 2>>
  BY <1>1, <1>2, <1>4
<1>6. \A k \in 1..(Len(f) + 2) : k > Len(f) => g[k][1] = m
  <2> TAKE k \in 1..(Len(f) + 2)
  <2>1. k > Len(f) => k = Len(f) + 1 \/ k = Len(f) + 2
    BY <1>2
  <2> QED BY <1>5, <2>1
<1>7. IsAt(g, Len(f), m)
  BY <1>2, <1>5 DEF IsAt
<1> QED BY <1>2, <1>3, <1>5, <1>6, <1>7 DEF g, c

Grown(T, f, g, m, n) ==
  /\ g \in Seq(T) /\ Len(g) = Len(f) + n /\ Same(f, g, Len(f))
  /\ \A k \in 1..Len(g) : k > Len(f) => g[k][1] = m

LEMMA PutPiece ==
  ASSUME NEW T, NEW m, <<m, 1>> \in T, <<m, 2>> \in T, NEW f \in Seq(T),
         NEW n \in 0..1
  PROVE  Grown(T, f, f \o SubSeq(Cells(m), 1, n), m, n)
<1> DEFINE q == Cells(m)
           c == SubSeq(q, 1, n)
           g == f \o c
<1>1. q \in Seq(T) /\ Len(q) = 2 /\ q[1] = <<m, 1>>
  BY Cell
<1> HIDE DEF q
<1>2. c \in Seq(T) /\ Len(c) = n /\ \A k \in 1..n : c[k] = q[k]
  BY <1>1
<1> HIDE DEF c
<1>3. g \in Seq(T) /\ Len(g) = Len(f) + Len(c) /\ Len(f) \in Nat
  BY <1>2, Joined
<1>4. Same(f, g, Len(f))
  BY <1>2, Tacked
<1>5. 1 \in 1..n => g[Len(f) + 1] = c[1]
  BY <1>2, TackedAt
<1> HIDE DEF g
<1>6. \A k \in 1..Len(g) : k > Len(f) => g[k][1] = m
  <2> TAKE k \in 1..Len(g)
  <2>1. k > Len(f) => k = Len(f) + 1 /\ 1 \in 1..n
    BY <1>2, <1>3
  <2> QED BY <1>1, <1>2, <1>5, <2>1
<1>7. Grown(T, f, g, m, n)
  BY <1>2, <1>3, <1>4, <1>6 DEF Grown
<1> QED BY <1>7 DEF g, c, q

LEMMA CellsLeft ==
  ASSUME NEW S, NEW f \in Seq(S), NEW n \in 0..Len(f), NEW g \in LeftCells(f, n)
  PROVE  g \in Seq(S) /\ Len(g) \in n..Len(f) /\ Same(f, g, Len(g))
<1>1. PICK k \in n..Len(f) : g = SubSeq(f, 1, k)
  BY DEF LeftCells
<1>2. g \in Seq(S) /\ Len(g) = k /\ \A i \in 1..k : g[i] = f[i]
  BY <1>1
<1> QED BY <1>2 DEF Same

(* A line written: at the end, or lost behind a torn one. *)
LEMMA Appended ==
  ASSUME NEW T, NEW f \in Seq(T), NEW e \in T
  PROVE  /\ Append(f, e) \in Seq(T) /\ Len(Append(f, e)) = Len(f) + 1 /\ Len(f) \in Nat
         /\ \A i \in 1..Len(f) : Append(f, e)[i] = f[i]
         /\ Append(f, e)[Len(f) + 1] = e
OBVIOUS

LEMMA LinePut ==
  ASSUME NEW S, NEW f \in Lines(S), NEW e \in S
  PROVE  /\ PutLine(f, e) \in Lines(S)
         /\ Same(f.lines, PutLine(f, e).lines, Len(f.lines))
         /\ f.torn => PutLine(f, e).lines = f.lines
         /\ ~f.torn => /\ Len(PutLine(f, e).lines) = Len(f.lines) + 1
                       /\ PutLine(f, e).lines[Len(f.lines) + 1] = e
<1>1. f.lines \in Seq(S) /\ f.torn \in BOOLEAN
  BY DEF Lines
<1>2. /\ Append(f.lines, e) \in Seq(S) /\ Len(Append(f.lines, e)) = Len(f.lines) + 1
      /\ \A i \in 1..Len(f.lines) : Append(f.lines, e)[i] = f.lines[i]
      /\ Append(f.lines, e)[Len(f.lines) + 1] = e
  BY <1>1, Appended
<1>3. CASE f.torn
  <2>1. PutLine(f, e).lines = f.lines /\ PutLine(f, e) \in Lines(S)
    BY <1>1, <1>3 DEF PutLine, Lines
  <2> QED BY <1>1, <1>3, <2>1 DEF Same
<1>4. CASE ~f.torn
  <2>1. PutLine(f, e).lines = Append(f.lines, e) /\ PutLine(f, e) \in Lines(S)
    BY <1>1, <1>2, <1>4 DEF PutLine, Lines
  <2> QED BY <1>1, <1>2, <1>4, <2>1 DEF Same
<1> QED BY <1>3, <1>4

LEMMA PartPut ==
  ASSUME NEW S, NEW f \in Lines(S), NEW e \in S
  PROVE  /\ PutPart(f, e) \in Lines(S)
         /\ Same(f.lines, PutPart(f, e).lines, Len(f.lines))
         /\ Len(PutPart(f, e).lines) <= Len(f.lines) + 1
         /\ \A i \in 1..Len(PutPart(f, e).lines) :
              i > Len(f.lines) => PutPart(f, e).lines[i] = e
<1>1. f.lines \in Seq(S) /\ f.torn \in BOOLEAN
  BY DEF Lines
<1>2. /\ Append(f.lines, e) \in Seq(S) /\ Len(Append(f.lines, e)) = Len(f.lines) + 1
      /\ \A i \in 1..Len(f.lines) : Append(f.lines, e)[i] = f.lines[i]
      /\ Append(f.lines, e)[Len(f.lines) + 1] = e
  BY <1>1, Appended
<1>3. CASE f.torn
  BY <1>1, <1>3 DEF PutPart, Lines, Same
<1>4. CASE ~f.torn
  <2>1. PutPart(f, e).lines = Append(f.lines, e) /\ PutPart(f, e) \in Lines(S)
    BY <1>1, <1>2, <1>4 DEF PutPart, Lines
  <2> QED BY <1>1, <1>2, <1>4, <2>1 DEF Same
<1> QED BY <1>3, <1>4

(* What is left of a line file: its lines up to some k, then perhaps one    *)
(* that cannot be parsed.                                                   *)
LinesCut(old, new, n, garbage) ==
  /\ Len(new) <= Len(old)
  /\ \E k \in 0..Len(new) :
       /\ n <= k /\ Same(old, new, k)
       /\ \A i \in 1..Len(new) : i > k => new[i] = garbage

LEMMA LinesLeft ==
  ASSUME NEW S, NEW f \in Lines(S), NEW e \in S, NEW n \in 0..Len(f.lines),
         NEW g \in LeftLines(f, n, e)
  PROVE  /\ g \in Lines(S) /\ Len(g.lines) \in n..Len(f.lines)
         /\ LinesCut(f.lines, g.lines, n, e)
<1>1. f.lines \in Seq(S) /\ Len(f.lines) \in Nat
  BY DEF Lines
<1>2. CASE g = f
  <2>1. Same(f.lines, f.lines, Len(f.lines)) /\ \A i \in 1..Len(f.lines) : ~(i > Len(f.lines))
    BY <1>1 DEF Same
  <2> QED BY <1>1, <1>2, <2>1 DEF LinesCut
<1>3. ASSUME NEW k \in n..(Len(f.lines) - 1), g = [lines |-> SubSeq(f.lines, 1, k), torn |-> FALSE]
      PROVE  /\ g \in Lines(S) /\ Len(g.lines) = k /\ Same(f.lines, g.lines, k)
  <2>1. /\ SubSeq(f.lines, 1, k) \in Seq(S) /\ Len(SubSeq(f.lines, 1, k)) = k
        /\ \A i \in 1..k : SubSeq(f.lines, 1, k)[i] = f.lines[i]
    BY <1>1
  <2> QED BY <1>1, <1>3, <2>1 DEF Same, Lines
<1>4. ASSUME NEW k \in n..(Len(f.lines) - 1),
             g = [lines |-> Append(SubSeq(f.lines, 1, k), e), torn |-> TRUE]
      PROVE  /\ g \in Lines(S) /\ Len(g.lines) = k + 1 /\ Same(f.lines, g.lines, k)
             /\ g.lines[k + 1] = e
  <2> DEFINE q == SubSeq(f.lines, 1, k)
  <2>1. q \in Seq(S) /\ Len(q) = k /\ \A i \in 1..k : q[i] = f.lines[i]
    BY <1>1
  <2>2. g.lines = Append(q, e) /\ g = [lines |-> Append(q, e), torn |-> TRUE]
    BY <1>4
  <2> HIDE DEF q
  <2>3. /\ g.lines \in Seq(S) /\ Len(g.lines) = k + 1 /\ g.lines[k + 1] = e
        /\ \A i \in 1..k : g.lines[i] = q[i]
    BY <2>1, <2>2, Appended
  <2>4. g \in Lines(S)
    BY <2>2, <2>3 DEF Lines
  <2> QED BY <1>1, <2>1, <2>3, <2>4 DEF Same
<1>5. \/ g = f
      \/ \E k \in n..(Len(f.lines) - 1) : g = [lines |-> SubSeq(f.lines, 1, k), torn |-> FALSE]
      \/ \E k \in n..(Len(f.lines) - 1) :
           g = [lines |-> Append(SubSeq(f.lines, 1, k), e), torn |-> TRUE]
  BY DEF LeftLines
<1>6. CASE \E k \in n..(Len(f.lines) - 1) : g = [lines |-> SubSeq(f.lines, 1, k), torn |-> FALSE]
  <2>1. PICK k \in n..(Len(f.lines) - 1) : g = [lines |-> SubSeq(f.lines, 1, k), torn |-> FALSE]
    BY <1>6
  <2>2. g \in Lines(S) /\ Len(g.lines) = k /\ Same(f.lines, g.lines, k)
    BY <1>3, <2>1
  <2>3. \A i \in 1..Len(g.lines) : ~(i > k)
    BY <2>2
  <2> QED BY <1>1, <2>2, <2>3 DEF LinesCut
<1>7. CASE \E k \in n..(Len(f.lines) - 1) :
             g = [lines |-> Append(SubSeq(f.lines, 1, k), e), torn |-> TRUE]
  <2>1. PICK k \in n..(Len(f.lines) - 1) :
                g = [lines |-> Append(SubSeq(f.lines, 1, k), e), torn |-> TRUE]
    BY <1>7
  <2>2. /\ g \in Lines(S) /\ Len(g.lines) = k + 1 /\ Same(f.lines, g.lines, k)
        /\ g.lines[k + 1] = e
    BY <1>4, <2>1
  <2>3. \A i \in 1..Len(g.lines) : i > k => i = k + 1
    BY <2>2
  <2> QED BY <1>1, <2>2, <2>3 DEF LinesCut
<1> QED BY <1>2, <1>5, <1>6, <1>7

-----------------------------------------------------------------------------
(* Types and the state an append is in. *)

LEMMA Constants ==
  /\ \A r \in Record : DayOf[r] \in Day /\ RidOf[r] \in Rid
  /\ \A r \in Record : BlobOf[r] \in Content \cup {None}
  /\ None \notin Record /\ None \notin Content /\ None \notin Day
  /\ How \subseteq {"append", "new"} /\ MaxTries \in Nat /\ MaxCrash \in Nat
BY RecordAssumption, FaultAssumption

LEMMA Active ==
  ASSUME Typed, Working, NEW w \in Writer
  PROVE  /\ open[w] \in Opened /\ job[w] \in Job
         /\ job[w].pc # "idle" => /\ job[w].rec \in Record /\ D(w) \in Day
                                  /\ D(w) = DayOf[job[w].rec]
         /\ job[w].pc \in {"blob", "blobSync"} => BlobOf[job[w].rec] \in Content
<1>1. open[w] \in Opened /\ job[w] \in Job
  BY DEF Typed
<1> QED BY <1>1, Constants DEF Working, Busy

LEMMA FilesOf ==
  ASSUME Typed, NEW d \in Day
  PROVE  /\ data[d] \in Seq(MemberCell) /\ pool[d] \in Seq(PoolCell)
         /\ index[d] \in Lines(Entry) /\ poolIndex[d] \in Lines(Pointer)
         /\ index[d].lines \in Seq(Entry) /\ poolIndex[d].lines \in Seq(Pointer)
         /\ Len(data[d]) \in Nat /\ Len(pool[d]) \in Nat
         /\ Len(index[d].lines) \in Nat /\ Len(poolIndex[d].lines) \in Nat
         /\ synced[d] \in Sizes
<1>1. /\ data[d] \in Seq(MemberCell) /\ pool[d] \in Seq(PoolCell)
      /\ index[d] \in Lines(Entry) /\ poolIndex[d] \in Lines(Pointer)
      /\ synced[d] \in Sizes
  BY DEF Typed
<1>2. index[d].lines \in Seq(Entry) /\ poolIndex[d].lines \in Seq(Pointer)
  BY <1>1 DEF Lines
<1> QED BY <1>1, <1>2

LEMMA LinesOf ==
  ASSUME Typed, NEW d \in Day
  PROVE  /\ Entries(d) = {i \in 1..Len(index[d].lines) : index[d].lines[i].rec # None}
         /\ \A i \in 1..Len(index[d].lines) :
              /\ index[d].lines[i] \in Entry
              /\ index[d].lines[i].rec # None => index[d].lines[i].rec \in Record
         /\ \A i \in 1..Len(poolIndex[d].lines) :
              /\ poolIndex[d].lines[i] \in Pointer
              /\ poolIndex[d].lines[i].content # None =>
                   poolIndex[d].lines[i].content \in Content
<1> DEFINE ls == index[d].lines
           ps == poolIndex[d].lines
<1>1. ls \in Seq(Entry) /\ ps \in Seq(Pointer)
  BY FilesOf
<1>2. Entries(d) = {i \in DOMAIN ls : ls[i].rec # None}
  BY DEF Entries
<1> HIDE DEF ls, ps
<1>3. DOMAIN ls = 1..Len(ls)
  BY <1>1
<1>4. \A i \in 1..Len(ls) : ls[i] \in Entry
  BY <1>1
<1>5. \A i \in 1..Len(ps) : ps[i] \in Pointer
  BY <1>1
<1>6. \A e \in Entry : e.rec # None => e.rec \in Record
  BY DEF Entry
<1>7. \A e \in Pointer : e.content # None => e.content \in Content
  BY DEF Pointer
<1> QED BY <1>2, <1>3, <1>4, <1>5, <1>6, <1>7 DEF ls, ps

LEMMA Members ==
  /\ \A r \in Record, p \in Nat :
       /\ [rec |-> r, ptr |-> p] \in Member
       /\ <<[rec |-> r, ptr |-> p], 1>> \in MemberCell
       /\ <<[rec |-> r, ptr |-> p], 2>> \in MemberCell
  /\ \A c \in Content : <<c, 1>> \in PoolCell /\ <<c, 2>> \in PoolCell
  /\ Garbage \in Entry /\ PoolGarbage \in Pointer
BY DEF Member, MemberCell, PoolCell, Garbage, PoolGarbage, Entry, Pointer

(* The dedup map is read from lines of the pool's index. *)
LEMMA MapLoaded ==
  ASSUME Typed, NEW d \in Day
  PROVE  /\ LoadBlobMap(d) \in [Content -> Nat \cup {-1}]
         /\ \A c \in Content : LoadBlobMap(d)[c] # -1 =>
              \E i \in 1..Len(poolIndex[d].lines) :
                /\ poolIndex[d].lines[i].content = c
                /\ poolIndex[d].lines[i].off = LoadBlobMap(d)[c]
<1> DEFINE ls == poolIndex[d].lines
           at(c) == {i \in DOMAIN ls : ls[i].content = c}
           last(c) == CHOOSE i \in at(c) : \A j \in at(c) : j <= i
<1>1. ls \in Seq(Pointer) /\ Len(ls) \in Nat /\ DOMAIN ls = 1..Len(ls)
  BY FilesOf
<1>2. ASSUME NEW c \in Content, at(c) # {}
      PROVE  last(c) \in at(c)
  <2>1. at(c) \in SUBSET Nat /\ \A x \in at(c) : x <= Len(ls)
    BY <1>1
  <2> HIDE DEF at
  <2>2. \E x \in at(c) : \A y \in at(c) : y <= x
    BY <1>1, <1>2, <2>1, GreatestIn
  <2> QED BY <2>2
<1>3. LoadBlobMap(d) = [c \in Content |-> IF at(c) = {} THEN -1 ELSE ls[last(c)].off]
  BY DEF LoadBlobMap
<1>4. ASSUME NEW c \in Content, at(c) # {}
      PROVE  /\ last(c) \in 1..Len(ls) /\ ls[last(c)].content = c
             /\ ls[last(c)].off \in Nat
  <2>1. last(c) \in 1..Len(ls) /\ ls[last(c)].content = c
    BY <1>1, <1>2, <1>4
  <2> HIDE DEF last, at, ls
  <2>2. ls[last(c)] \in Pointer
    BY <1>1, <2>1
  <2> QED BY <2>1, <2>2 DEF Pointer
<1> HIDE DEF at, last, ls
<1>5. \A c \in Content : LoadBlobMap(d)[c] = IF at(c) = {} THEN -1 ELSE ls[last(c)].off
  BY <1>3
<1>6. LoadBlobMap(d) \in [Content -> Nat \cup {-1}]
  BY <1>3, <1>4
<1>7. ASSUME NEW c \in Content, LoadBlobMap(d)[c] # -1
      PROVE  \E i \in 1..Len(ls) : ls[i].content = c /\ ls[i].off = LoadBlobMap(d)[c]
  BY <1>4, <1>5, <1>7
<1> QED BY <1>6, <1>7 DEF ls

LEMMA ClosedType == Closed \in Opened
BY DEF Closed, Opened

LEMMA DayOpened ==
  ASSUME Typed, NEW w \in Writer, NEW d \in Day
  PROVE  /\ OpenDay(w, d) \in Opened /\ OpenDay(w, d).day = d
         /\ D(w) = d => OpenDay(w, d) = open[w]
         /\ D(w) # d => /\ OpenDay(w, d).off = Len(data[d])
                        /\ OpenDay(w, d).blobOff = Len(pool[d])
                        /\ OpenDay(w, d).blobs = LoadBlobMap(d)
                        /\ OpenDay(w, d).behind = {} /\ ~OpenDay(w, d).loaded
<1>1. open[w] \in Opened
  BY DEF Typed
<1>2. Len(data[d]) \in Nat /\ Len(pool[d]) \in Nat
  BY FilesOf
<1>3. LoadBlobMap(d) \in [Content -> Nat \cup {-1}]
  BY MapLoaded
<1>4. CASE D(w) = d
  BY <1>1, <1>4 DEF OpenDay, D
<1>5. CASE D(w) # d
  <2>1. OpenDay(w, d) = [behind |-> {}, day |-> d, off |-> Len(data[d]),
                         blobOff |-> Len(pool[d]), blobs |-> LoadBlobMap(d),
                         loaded |-> FALSE, rids |-> {}]
    BY <1>5 DEF OpenDay, D, Closed
  <2> QED BY <1>2, <1>3, <1>5, <2>1 DEF Opened
<1> QED BY <1>4, <1>5

LEMMA IdsLoaded ==
  ASSUME Typed, NEW o \in Opened, o.day \in Day
  PROVE  /\ LoadRids(o) \in Opened /\ LoadRids(o).day = o.day
         /\ LoadRids(o).off = o.off /\ LoadRids(o).blobOff = o.blobOff
         /\ LoadRids(o).blobs = o.blobs /\ LoadRids(o).behind = o.behind
         /\ LoadRids(o).loaded
         /\ LoadRids(o).rids = IF o.loaded THEN o.rids ELSE RidsOf(o.day)
<1>1. RidsOf(o.day) \subseteq Rid
  <2>1. \A i \in Entries(o.day) : index[o.day].lines[i].rec \in Record
    BY LinesOf
  <2> QED BY <2>1, Constants DEF RidsOf
<1>2. CASE o.loaded
  BY <1>2 DEF LoadRids
<1>3. CASE ~o.loaded
  <2>1. LoadRids(o) = [o EXCEPT !.loaded = TRUE, !.rids = RidsOf(o.day)]
    BY <1>3 DEF LoadRids
  <2> QED BY <1>1, <1>3, <2>1 DEF Opened
<1> QED BY <1>2, <1>3

-----------------------------------------------------------------------------
(* Types are kept. *)

LEMMA Start ==
  ASSUME NEW r \in Record, NEW how \in {"append", "new"}, NEW o \in Opened
  PROVE  /\ Started(r, how, o) \in Job
         /\ Started(r, how, o).rec = r /\ Started(r, how, o).how = how
         /\ \/ /\ Started(r, how, o).pc = "blob" /\ BlobOf[r] \in Content
            \/ /\ Started(r, how, o).pc = "member"
               /\ BlobOf[r] = None => Started(r, how, o).ptr = 0
               /\ BlobOf[r] # None => /\ o.blobs[BlobOf[r]] # -1
                                      /\ Started(r, how, o).ptr = o.blobs[BlobOf[r]]
<1> DEFINE c == BlobOf[r]
<1>1. c \in Content \cup {None} /\ o.blobs \in [Content -> Nat \cup {-1}]
  BY Constants DEF Opened
<1>2. CASE c # None /\ o.blobs[c] = -1
  <2>1. Started(r, how, o) = [pc |-> "blob", rec |-> r, how |-> how, ptr |-> 0, sound |-> FALSE]
    BY <1>2 DEF Started, Idle
  <2> QED BY <1>1, <1>2, <2>1 DEF Job, Pc
<1>3. CASE c = None
  <2>1. Started(r, how, o) = [pc |-> "member", rec |-> r, how |-> how, ptr |-> 0, sound |-> FALSE]
    BY <1>3 DEF Started, Idle
  <2> QED BY <1>3, <2>1 DEF Job, Pc
<1>4. CASE c # None /\ o.blobs[c] # -1
  <2>1. Started(r, how, o) =
          [pc |-> "member", rec |-> r, how |-> how, ptr |-> o.blobs[c], sound |-> FALSE]
    BY <1>4 DEF Started, Idle
  <2>2. o.blobs[c] \in Nat
    BY <1>1, <1>4
  <2> QED BY <1>4, <2>1, <2>2 DEF Job, Pc
<1> QED BY <1>2, <1>3, <1>4

(* What beginning an append opens and starts. *)
LEMMA Begun ==
  ASSUME Typed, NEW w \in Writer, NEW r \in Record, NEW how \in How, Begin(w, r, how)
  PROVE  \E o \in Opened :
           /\ o.day = DayOf[r] /\ open' = [open EXCEPT ![w] = o]
           /\ how = "new" => /\ o.loaded
                             /\ \/ o.rids = RidsOf(o.day)
                                \/ D(w) = o.day /\ open[w].loaded /\ o.rids = open[w].rids
           /\ D(w) = o.day => /\ o.off = open[w].off /\ o.blobOff = open[w].blobOff
                              /\ o.blobs = open[w].blobs /\ o.behind = open[w].behind
                              /\ how # "new" => o = open[w]
           /\ D(w) # o.day => /\ o.off = Len(data[o.day]) /\ o.blobOff = Len(pool[o.day])
                              /\ o.blobs = LoadBlobMap(o.day) /\ o.behind = {}
                              /\ how # "new" => ~o.loaded
           /\ \/ job' = job
              \/ /\ job' = [job EXCEPT ![w] = Started(r, how, o)]
                 /\ how = "new" => RidOf[r] \notin o.rids
<1> DEFINE q == OpenDay(w, DayOf[r])
           o == IF how = "new" THEN LoadRids(q) ELSE q
<1>1. DayOf[r] \in Day
  BY Constants
<1>2. /\ q \in Opened /\ q.day = DayOf[r]
      /\ D(w) = q.day => q = open[w]
      /\ D(w) # q.day => /\ q.off = Len(data[q.day]) /\ q.blobOff = Len(pool[q.day])
                         /\ q.blobs = LoadBlobMap(q.day) /\ q.behind = {} /\ ~q.loaded
  BY <1>1, DayOpened
<1>3. /\ open' = [open EXCEPT ![w] = o]
      /\ IF how = "new" /\ RidOf[r] \in o.rids
         THEN job' = job ELSE job' = [job EXCEPT ![w] = Started(r, how, o)]
  BY DEF Begin
<1> HIDE DEF q
<1>4. CASE how = "new"
  <2>1. /\ LoadRids(q) \in Opened /\ LoadRids(q).day = q.day
        /\ LoadRids(q).off = q.off /\ LoadRids(q).blobOff = q.blobOff
        /\ LoadRids(q).blobs = q.blobs /\ LoadRids(q).behind = q.behind
        /\ LoadRids(q).loaded
        /\ LoadRids(q).rids = IF q.loaded THEN q.rids ELSE RidsOf(q.day)
    BY <1>1, <1>2, IdsLoaded
  <2>2. o = LoadRids(q)
    BY <1>4
  <2> HIDE DEF o
  <2>3. \/ o.rids = RidsOf(o.day)
        \/ D(w) = o.day /\ open[w].loaded /\ o.rids = open[w].rids
    BY <1>2, <2>1, <2>2
  <2> QED BY <1>2, <1>3, <1>4, <2>1, <2>2, <2>3
<1>5. CASE how # "new"
  <2>1. o = q
    BY <1>5
  <2> HIDE DEF o
  <2> QED BY <1>2, <1>3, <1>5, <2>1
<1> QED BY <1>4, <1>5

LEMMA TypedInit == Init => Typed /\ Working
<1> SUFFICES ASSUME Init
             PROVE  Typed /\ Working
  OBVIOUS
<1>1. NoLines \in Lines(Entry) /\ NoLines \in Lines(Pointer) /\ Nothing \in Sizes
  BY DEF NoLines, Lines, Nothing, Sizes
<1>2. Closed \in Opened /\ Idle \in Job /\ Idle.pc = "idle"
  BY ClosedType DEF Idle, Job, Pc
<1>3. Typed
  BY <1>1, <1>2, Constants DEF Init, Typed
<1>4. Working
  BY <1>2 DEF Init, Working, Busy
<1> QED BY <1>3, <1>4

(* A write that fails or is done leaves the process idle. *)
LEMMA ReturnType ==
  ASSUME Typed, NEW w \in Writer, Return(w)
  PROVE  /\ job' \in [Writer -> Job] /\ job'[w] = Idle
         /\ \A v \in Writer : v # w => job'[v] = job[v]
<1>1. Idle \in Job
  BY DEF Idle, Job, Pc
<1> QED BY <1>1 DEF Typed, Return

LEMMA GotoType ==
  ASSUME Typed, NEW w \in Writer, NEW pc \in Pc, Goto(w, pc)
  PROVE  /\ job' \in [Writer -> Job] /\ job'[w].pc = pc
         /\ job'[w].rec = job[w].rec /\ job'[w].ptr = job[w].ptr
         /\ job'[w].how = job[w].how /\ job'[w].sound = job[w].sound
         /\ \A v \in Writer : v # w => job'[v] = job[v]
<1>1. job[w] \in Job
  BY DEF Typed
<1>2. [job[w] EXCEPT !.pc = pc] \in Job
  BY <1>1 DEF Job
<1>3. job' = [job EXCEPT ![w] = [job[w] EXCEPT !.pc = pc]]
  BY DEF Goto
<1> QED BY <1>1, <1>2, <1>3 DEF Typed, Job

LEMMA TypedCall ==
  ASSUME Typed, Working, NEW w \in Writer, Call(w)
  PROVE  Typed' /\ Working'
<1>1. PICK r \in Record, how \in How : Begin(w, r, how) \/ BeginFails(w, r, how)
  BY DEF Call
<1>2. tries' \in 0..MaxTries
  BY <1>1, Constants DEF Begin, BeginFails, Typed
<1>3. UNCHANGED <<files, crashes, history>>
  BY <1>1 DEF Begin, BeginFails
<1>4. ASSUME open' \in [Writer -> Opened], job' \in [Writer -> Job]
      PROVE  Typed'
  BY <1>2, <1>3, <1>4 DEF Typed, files, history
<1>5. job[w].pc = "idle"
  BY <1>1 DEF Begin, BeginFails
<1>6. CASE Begin(w, r, how)
  <2>1. PICK o \in Opened :
          /\ o.day = DayOf[r] /\ open' = [open EXCEPT ![w] = o]
          /\ job' = job \/ job' = [job EXCEPT ![w] = Started(r, how, o)]
    BY <1>6, Begun
  <2>2. /\ Started(r, how, o) \in Job /\ Started(r, how, o).rec = r
        /\ Started(r, how, o).pc \in {"blob", "blobSync"} => BlobOf[r] # None
    BY Start, Constants
  <2>3. open' \in [Writer -> Opened] /\ job' \in [Writer -> Job]
    BY <2>1, <2>2 DEF Typed
  <2>4. Working'
    <3>1. ASSUME NEW v \in Writer, v # w
          PROVE  job'[v] = job[v] /\ open'[v] = open[v]
      BY <2>1, <3>1 DEF Typed
    <3>2. \/ job'[w] = job[w]
          \/ job'[w] = Started(r, how, o)
      BY <2>1 DEF Typed
    <3>3. open'[w].day = DayOf[r]
      BY <2>1 DEF Typed
    <3> QED BY <1>5, <2>2, <3>1, <3>2, <3>3 DEF Working, Busy, D
  <2> QED BY <1>4, <2>3, <2>4
<1>7. CASE BeginFails(w, r, how)
  <2>1. OpenDay(w, DayOf[r]) \in Opened /\ Closed \in Opened
    BY Constants, DayOpened, ClosedType
  <2>2. job' = job /\ \E o \in Opened : open' = [open EXCEPT ![w] = o]
    BY <1>7, <2>1 DEF BeginFails
  <2>3. open' \in [Writer -> Opened] /\ job' \in [Writer -> Job]
    BY <2>2 DEF Typed
  <2>4. Working'
    BY <1>5, <2>2 DEF Working, Busy, D, Typed
  <2> QED BY <1>4, <2>3, <2>4
<1> QED BY <1>1, <1>6, <1>7

(* What a step of an append may change of the state of its process. *)
LEMMA TypedStep ==
  ASSUME Typed, Working, NEW w \in Writer,
         open' \in [Writer -> Opened], job' \in [Writer -> Job],
         \A v \in Writer : v # w => job'[v] = job[v] /\ open'[v].day = open[v].day,
         open'[w].day = open[w].day, job[w].pc # "idle",
         \/ job'[w].pc = "idle"
         \/ /\ job'[w].rec = job[w].rec
            /\ job'[w].pc \in {"blob", "blobSync"} => job[w].pc \in {"blob", "blobSync"}
  PROVE  Working'
BY DEF Working, Busy, D

(* What each write and sync does, file by file and field by field.          *)

Others(w) == \A v \in Writer : v # w => open'[v] = open[v] /\ job'[v] = job[v]
OtherDays(w) ==
  \A e \in Day : e # D(w) =>
    /\ data'[e] = data[e] /\ pool'[e] = pool[e] /\ index'[e] = index[e]
    /\ poolIndex'[e] = poolIndex[e] /\ synced'[e] = synced[e]

LEMMA OthersAlone ==
  ASSUME Typed, NEW w \in Writer,
         \/ open' = open
         \/ \E o \in Opened : open' = [open EXCEPT ![w] = o] /\ o.day = open[w].day,
         \/ Return(w)
         \/ \E pc \in Pc : Goto(w, pc)
         \/ \E j \in Job : job' = [job EXCEPT ![w] = j]
  PROVE  Others(w) /\ open' \in [Writer -> Opened] /\ job' \in [Writer -> Job]
         /\ open'[w].day = open[w].day
<1>1. /\ open' \in [Writer -> Opened] /\ open'[w].day = open[w].day
      /\ \A v \in Writer : v # w => open'[v] = open[v]
  BY DEF Typed
<1>2. job' \in [Writer -> Job] /\ \A v \in Writer : v # w => job'[v] = job[v]
  <2>1. CASE Return(w)
    BY <2>1, ReturnType
  <2>2. CASE \E pc \in Pc : Goto(w, pc)
    BY <2>2, GotoType
  <2>3. CASE \E j \in Job : job' = [job EXCEPT ![w] = j]
    BY <2>3 DEF Typed
  <2> QED BY <2>1, <2>2, <2>3
<1> QED BY <1>1, <1>2 DEF Others

KeepsJob(w, pc) ==
  /\ job'[w].pc = pc /\ job'[w].rec = job[w].rec /\ job'[w].how = job[w].how
  /\ job'[w].ptr = job[w].ptr

LEMMA WriteBlobDoes ==
  ASSUME Typed, Working, NEW w \in Writer, WriteBlob(w)
  PROVE  /\ Typed' /\ Working' /\ Others(w) /\ OtherDays(w)
         /\ open' = open /\ KeepsJob(w, "blobSync")
         /\ Same(pool[D(w)], pool'[D(w)], Len(pool[D(w)]))
         /\ Len(pool'[D(w)]) = Len(pool[D(w)]) + 2
         /\ IsAt(pool'[D(w)], Len(pool[D(w)]), BlobOf[job[w].rec])
<1> DEFINE d == D(w)
           c == BlobOf[job[w].rec]
<1>1. d \in Day /\ c \in Content
  BY Active DEF WriteBlob
<1>2. pool[d] \in Seq(PoolCell)
  BY <1>1, FilesOf
<1> HIDE DEF d, c
<1>3. /\ pool[d] \o Cells(c) \in Seq(PoolCell)
      /\ Len(pool[d] \o Cells(c)) = Len(pool[d]) + 2
      /\ Same(pool[d], pool[d] \o Cells(c), Len(pool[d]))
      /\ IsAt(pool[d] \o Cells(c), Len(pool[d]), c)
  <2>1. <<c, 1>> \in PoolCell /\ <<c, 2>> \in PoolCell
    BY <1>1, Members
  <2> QED BY <1>2, <2>1, PutMember
<1>4. /\ pool' = [pool EXCEPT ![d] = pool[d] \o Cells(c)]
      /\ job[w].pc = "blob" /\ Goto(w, "blobSync")
      /\ UNCHANGED <<data, index, poolIndex, synced, open, tries, crashes, history>>
  BY DEF WriteBlob, c, d
<1>5. pool' \in [Day -> Seq(PoolCell)]
  BY <1>1, <1>3, <1>4 DEF Typed
<1>6. KeepsJob(w, "blobSync")
  BY <1>4, GotoType DEF Pc, KeepsJob
<1>7. /\ Others(w) /\ open' \in [Writer -> Opened] /\ job' \in [Writer -> Job]
      /\ open'[w].day = open[w].day
  BY <1>4, OthersAlone DEF Pc
<1>8. Typed'
  BY <1>4, <1>5, <1>7 DEF Typed, history
<1>9. Working'
  BY <1>4, <1>6, <1>7, TypedStep DEF Others, KeepsJob
<1>10. OtherDays(w)
  BY <1>4 DEF OtherDays, Typed, d
<1>11. pool'[d] = pool[d] \o Cells(c)
  BY <1>1, <1>4 DEF Typed
<1> QED BY <1>3, <1>4, <1>6, <1>7, <1>8, <1>9, <1>10, <1>11 DEF d, c

LEMMA WriteBlobFailsDoes ==
  ASSUME Typed, Working, NEW w \in Writer, WriteBlobFails(w)
  PROVE  /\ Typed' /\ Working' /\ Others(w) /\ OtherDays(w) /\ job'[w] = Idle
         /\ open'[w] = [open[w] EXCEPT !.blobOff = Len(pool'[D(w)]),
                                       !.behind = @ \ {"pool"}]
         /\ Same(pool[D(w)], pool'[D(w)], Len(pool[D(w)]))
<1> DEFINE d == D(w)
           c == BlobOf[job[w].rec]
<1>1. d \in Day /\ c \in Content /\ open[w] \in Opened
  BY Active DEF WriteBlobFails
<1>2. pool[d] \in Seq(PoolCell)
  BY <1>1, FilesOf
<1> HIDE DEF d, c
<1>3. PICK n \in 0..1 : pool' = [pool EXCEPT ![d] = pool[d] \o SubSeq(Cells(c), 1, n)]
  BY DEF WriteBlobFails, c, d
<1>4. /\ pool[d] \o SubSeq(Cells(c), 1, n) \in Seq(PoolCell)
      /\ Same(pool[d], pool[d] \o SubSeq(Cells(c), 1, n), Len(pool[d]))
  <2>1. Grown(PoolCell, pool[d], pool[d] \o SubSeq(Cells(c), 1, n), c, n)
    BY <1>1, <1>2, PutPiece, Members
  <2> QED BY <2>1 DEF Grown
<1>5. pool' \in [Day -> Seq(PoolCell)]
  BY <1>1, <1>3, <1>4 DEF Typed
<1>6. pool'[d] = pool[d] \o SubSeq(Cells(c), 1, n) /\ Len(pool'[d]) \in Nat
  <2>1. pool'[d] \in Seq(PoolCell)
    BY <1>1, <1>5
  <2> QED BY <1>1, <1>3, <2>1 DEF Typed
<1> DEFINE o == [open[w] EXCEPT !.blobOff = Len(pool'[d]), !.behind = @ \ {"pool"}]
<1>7. o \in Opened /\ o.day = open[w].day
  BY <1>1, <1>6 DEF Opened
<1>8. open' = [open EXCEPT ![w] = o]
  BY DEF WriteBlobFails, Resync, Typed, d
<1> HIDE DEF o
<1>9. /\ Others(w) /\ open' \in [Writer -> Opened] /\ job' \in [Writer -> Job]
      /\ open'[w].day = open[w].day
  BY <1>7, <1>8, OthersAlone DEF WriteBlobFails
<1>10. job'[w] = Idle /\ open'[w] = o
  BY <1>8, ReturnType DEF WriteBlobFails, Typed
<1>11. Typed'
  BY <1>5, <1>9 DEF Typed, history, WriteBlobFails
<1>12. Working'
  BY <1>9, <1>10, TypedStep DEF Others, WriteBlobFails, Idle
<1>13. OtherDays(w)
  BY <1>3 DEF OtherDays, Typed, WriteBlobFails, d
<1> QED BY <1>4, <1>6, <1>9, <1>10, <1>11, <1>12, <1>13 DEF d, o

LEMMA SyncBlobFailsDoes ==
  ASSUME Typed, Working, NEW w \in Writer, SyncBlobFails(w)
  PROVE  /\ Typed' /\ Working' /\ Others(w) /\ job'[w] = Idle
         /\ open'[w] = [open[w] EXCEPT !.behind = @ \cup {"pool"}]
         /\ UNCHANGED <<files, history>>
<1> DEFINE o == [open[w] EXCEPT !.behind = @ \cup {"pool"}]
<1>1. open' = [open EXCEPT ![w] = o] /\ Return(w) /\ UNCHANGED <<files, tries, crashes, history>>
  BY DEF SyncBlobFails
<1>2. o \in Opened /\ o.day = open[w].day
  BY Active DEF Opened
<1> HIDE DEF o
<1>3. /\ Others(w) /\ open' \in [Writer -> Opened] /\ job' \in [Writer -> Job]
      /\ open'[w].day = open[w].day
  BY <1>1, <1>2, OthersAlone
<1>4. job'[w] = Idle /\ open'[w] = o
  BY <1>1, ReturnType DEF Typed
<1>5. Typed'
  BY <1>1, <1>3 DEF Typed, history, files
<1>6. Working'
  <2>1. job[w].pc # "idle" /\ job'[w].pc = "idle"
    BY <1>4 DEF SyncBlobFails, Idle
  <2> QED BY <1>3, <2>1, TypedStep DEF Others
<1> QED BY <1>1, <1>3, <1>4, <1>5, <1>6 DEF o

LEMMA SyncBlobDoes ==
  ASSUME Typed, Working, NEW w \in Writer, SyncBlob(w)
  PROVE  LET d == D(w)
             c == BlobOf[job[w].rec]
             at == open[w].blobOff
             ls == poolIndex[d].lines
             new == poolIndex'[d].lines
         IN /\ Typed' /\ Working' /\ Others(w) /\ OtherDays(w)
            /\ data' = data /\ pool' = pool /\ index' = index
            /\ open'[w].day = d /\ open'[w].off = open[w].off
            /\ open'[w].behind = open[w].behind /\ open'[w].loaded = open[w].loaded
            /\ open'[w].rids = open[w].rids /\ open'[w].blobOff = at + 2
            /\ \A x \in Content :
                 open'[w].blobs[x] = IF x = c THEN at ELSE open[w].blobs[x]
            /\ job'[w].pc = "member" /\ job'[w].rec = job[w].rec
            /\ job'[w].how = job[w].how /\ job'[w].ptr = at
            /\ synced'[d].pool = Len(pool[d]) /\ synced'[d].data = synced[d].data
            /\ synced'[d].index = synced[d].index /\ synced'[d].poolIndex = Len(new)
            /\ Same(ls, new, Len(ls))
            /\ \A i \in 1..Len(new) :
                 \/ i <= Len(ls)
                 \/ new[i].content = None
                 \/ new[i].content = c /\ new[i].off = at
            /\ spoiled' = IF "pool" \in open[w].behind THEN spoiled \cup {d} ELSE spoiled
            /\ acked' = acked /\ kept' = kept
<1> DEFINE d == D(w)
           c == BlobOf[job[w].rec]
           at == open[w].blobOff
<1>1. /\ open[w] \in Opened /\ job[w] \in Job /\ d \in Day /\ c \in Content
      /\ at \in Nat
  BY Active DEF SyncBlob, Opened
<1>2. pool[d] \in Seq(PoolCell) /\ Len(pool[d]) \in Nat /\ synced[d] \in Sizes
      /\ poolIndex[d] \in Lines(Pointer) /\ Len(poolIndex[d].lines) \in Nat
  BY <1>1, FilesOf
<1> DEFINE o == [open[w] EXCEPT !.blobs = [@ EXCEPT ![c] = at], !.blobOff = at + 2]
           j == [job[w] EXCEPT !.pc = "member", !.ptr = at]
           z == [synced[d] EXCEPT !.pool = Len(pool[d]),
                                  !.poolIndex = Len(poolIndex'[d].lines)]
<1>3. /\ job[w].pc = "blobSync" /\ open' = [open EXCEPT ![w] = o]
      /\ job' = [job EXCEPT ![w] = j] /\ synced' = [synced EXCEPT ![d] = z]
      /\ spoiled' = IF "pool" \in open[w].behind THEN spoiled \cup {d} ELSE spoiled
      /\ UNCHANGED <<data, index, pool, tries, crashes, acked, kept>>
  BY DEF SyncBlob
<1>4. \/ poolIndex' = [poolIndex EXCEPT ![d] = PutLine(@, [content |-> c, off |-> at])]
      \/ poolIndex' = [poolIndex EXCEPT ![d] = PutPart(@, PoolGarbage)]
      \/ poolIndex' = poolIndex
  BY DEF SyncBlob
<1> HIDE DEF d, c, at
<1>5. /\ o \in Opened /\ o.day = open[w].day /\ o.off = open[w].off
      /\ o.behind = open[w].behind /\ o.loaded = open[w].loaded /\ o.rids = open[w].rids
      /\ o.blobOff = at + 2
      /\ \A x \in Content : o.blobs[x] = IF x = c THEN at ELSE open[w].blobs[x]
  <2> DEFINE b == [open[w].blobs EXCEPT ![c] = at]
  <2>1. /\ b \in [Content -> Nat \cup {-1}]
        /\ \A x \in Content : b[x] = IF x = c THEN at ELSE open[w].blobs[x]
    BY <1>1 DEF Opened
  <2>2. o = [open[w] EXCEPT !.blobs = b, !.blobOff = at + 2]
    OBVIOUS
  <2>3. at + 2 \in Nat
    BY <1>1
  <2> HIDE DEF b, o
  <2>4. o = [behind |-> open[w].behind, day |-> open[w].day, off |-> open[w].off,
             blobOff |-> at + 2, blobs |-> b, loaded |-> open[w].loaded,
             rids |-> open[w].rids]
    BY <1>1, <2>2 DEF Opened
  <2>5. /\ o \in Opened /\ o.day = open[w].day /\ o.off = open[w].off
        /\ o.behind = open[w].behind /\ o.loaded = open[w].loaded
        /\ o.rids = open[w].rids /\ o.blobOff = at + 2 /\ o.blobs = b
    BY <1>1, <2>1, <2>3, <2>4 DEF Opened
  <2> QED BY <2>1, <2>5
<1>6. /\ j \in Job /\ j.rec = job[w].rec /\ j.pc = "member" /\ j.ptr = at
      /\ j.how = job[w].how
  BY <1>1 DEF Job, Pc
<1>7. /\ poolIndex' \in [Day -> Lines(Pointer)]
      /\ Same(poolIndex[d].lines, poolIndex'[d].lines, Len(poolIndex[d].lines))
      /\ \A i \in 1..Len(poolIndex'[d].lines) :
           \/ i <= Len(poolIndex[d].lines)
           \/ poolIndex'[d].lines[i].content = None
           \/ poolIndex'[d].lines[i].content = c /\ poolIndex'[d].lines[i].off = at
  <2> DEFINE f == poolIndex[d]
             e == [content |-> c, off |-> at]
  <2>1. e \in Pointer /\ PoolGarbage \in Pointer /\ PoolGarbage.content = None
    BY <1>1, Members DEF Pointer, PoolGarbage
  <2>2. CASE poolIndex' = [poolIndex EXCEPT ![d] = PutLine(@, e)]
    <3>1. poolIndex'[d] = PutLine(f, e) /\ PutLine(f, e) \in Lines(Pointer)
      BY <1>1, <1>2, <2>1, <2>2, LinePut DEF Typed
    <3>2. poolIndex' \in [Day -> Lines(Pointer)]
      BY <1>1, <2>2, <3>1 DEF Typed
    <3>3. /\ Same(f.lines, PutLine(f, e).lines, Len(f.lines))
          /\ f.torn => PutLine(f, e).lines = f.lines
          /\ ~f.torn => /\ Len(PutLine(f, e).lines) = Len(f.lines) + 1
                        /\ PutLine(f, e).lines[Len(f.lines) + 1] = e
      BY <1>2, <2>1, LinePut
    <3>4. e.content = c /\ e.off = at
      OBVIOUS
    <3> HIDE DEF e, f
    <3>5. ASSUME NEW i \in 1..Len(PutLine(f, e).lines)
          PROVE  i <= Len(f.lines) \/ PutLine(f, e).lines[i] = e
      BY <1>2, <3>3 DEF f
    <3> QED BY <3>1, <3>2, <3>3, <3>4, <3>5 DEF f
  <2>3. CASE poolIndex' = [poolIndex EXCEPT ![d] = PutPart(@, PoolGarbage)]
    <3>1. poolIndex'[d] = PutPart(f, PoolGarbage) /\ PutPart(f, PoolGarbage) \in Lines(Pointer)
      BY <1>1, <1>2, <2>1, <2>3, PartPut DEF Typed
    <3>2. poolIndex' \in [Day -> Lines(Pointer)]
      BY <1>1, <2>3, <3>1 DEF Typed
    <3>3. /\ Same(f.lines, PutPart(f, PoolGarbage).lines, Len(f.lines))
          /\ \A i \in 1..Len(PutPart(f, PoolGarbage).lines) :
               i > Len(f.lines) => PutPart(f, PoolGarbage).lines[i] = PoolGarbage
      BY <1>2, <2>1, PartPut
    <3> QED BY <1>2, <2>1, <3>1, <3>2, <3>3
  <2>4. CASE poolIndex' = poolIndex
    BY <1>2, <2>4 DEF Typed, Same
  <2> QED BY <1>4, <2>2, <2>3, <2>4 DEF c, at, d
<1>8. Len(poolIndex'[d].lines) \in Nat
  <2>1. poolIndex'[d].lines \in Seq(Pointer)
    BY <1>1, <1>7 DEF Lines
  <2> QED BY <2>1
<1>9. /\ z \in Sizes /\ z.pool = Len(pool[d]) /\ z.data = synced[d].data
      /\ z.index = synced[d].index /\ z.poolIndex = Len(poolIndex'[d].lines)
  BY <1>2, <1>8 DEF Sizes
<1> HIDE DEF o, j, z
<1>10. /\ Others(w) /\ open' \in [Writer -> Opened] /\ job' \in [Writer -> Job]
       /\ open'[w].day = open[w].day
  BY <1>3, <1>5, <1>6, OthersAlone
<1>11. open'[w] = o /\ job'[w] = j /\ synced'[d] = z
  BY <1>1, <1>3 DEF Typed
<1>12. Typed'
  <2>1. synced' \in [Day -> Sizes] /\ spoiled' \subseteq Day
    BY <1>1, <1>3, <1>9 DEF Typed
  <2> QED BY <1>3, <1>7, <1>10, <2>1 DEF Typed
<1>13. Working'
  BY <1>3, <1>6, <1>10, <1>11, TypedStep DEF Others
<1>14. OtherDays(w)
  BY <1>3, <1>4 DEF OtherDays, Typed, d
<1> QED BY <1>3, <1>5, <1>6, <1>7, <1>9, <1>10, <1>11, <1>12, <1>13, <1>14, Zenon DEF d, c, at, D

Lifted(w) == [rec |-> job[w].rec, ptr |-> job[w].ptr]

LEMMA LiftedType ==
  ASSUME Typed, Working, NEW w \in Writer, job[w].pc # "idle"
  PROVE  /\ <<Lifted(w), 1>> \in MemberCell /\ <<Lifted(w), 2>> \in MemberCell
         /\ D(w) \in Day /\ data[D(w)] \in Seq(MemberCell) /\ open[w] \in Opened
         /\ job[w].rec \in Record /\ job[w] \in Job
<1>1. /\ D(w) \in Day /\ open[w] \in Opened /\ job[w].rec \in Record /\ job[w] \in Job
  BY Active
<1>2. job[w].ptr \in Nat
  BY <1>1 DEF Job
<1>3. data[D(w)] \in Seq(MemberCell)
  BY <1>1, FilesOf
<1> QED BY <1>1, <1>2, <1>3, Members DEF Lifted

LEMMA WriteMemberDoes ==
  ASSUME Typed, Working, NEW w \in Writer, WriteMember(w)
  PROVE  /\ Typed' /\ Working' /\ Others(w) /\ OtherDays(w)
         /\ open' = open /\ KeepsJob(w, "memberSync")
         /\ Same(data[D(w)], data'[D(w)], Len(data[D(w)]))
         /\ Len(data'[D(w)]) = Len(data[D(w)]) + 2
         /\ \A k \in 1..Len(data'[D(w)]) :
              k > Len(data[D(w)]) => data'[D(w)][k][1] = Lifted(w)
         /\ IsAt(data'[D(w)], Len(data[D(w)]), Lifted(w))
<1> DEFINE d == D(w)
           m == Lifted(w)
<1>1. /\ <<m, 1>> \in MemberCell /\ <<m, 2>> \in MemberCell /\ d \in Day
      /\ data[d] \in Seq(MemberCell)
  BY LiftedType DEF WriteMember
<1> HIDE DEF d, m
<1>2. /\ data[d] \o Cells(m) \in Seq(MemberCell)
      /\ Len(data[d] \o Cells(m)) = Len(data[d]) + 2
      /\ Same(data[d], data[d] \o Cells(m), Len(data[d]))
      /\ \A k \in 1..(Len(data[d]) + 2) : k > Len(data[d]) => (data[d] \o Cells(m))[k][1] = m
      /\ IsAt(data[d] \o Cells(m), Len(data[d]), m)
  BY ZenonT(40), <1>1, PutMember
<1>3. /\ data' = [data EXCEPT ![d] = data[d] \o Cells(m)]
      /\ job[w].pc = "member" /\ Goto(w, "memberSync")
      /\ UNCHANGED <<index, pool, poolIndex, synced, open, tries, crashes, history>>
  BY DEF WriteMember, m, d, Lifted
<1>4. data' \in [Day -> Seq(MemberCell)]
  BY <1>1, <1>2, <1>3 DEF Typed
<1>5. KeepsJob(w, "memberSync")
  BY <1>3, GotoType DEF Pc, KeepsJob
<1>6. /\ Others(w) /\ open' \in [Writer -> Opened] /\ job' \in [Writer -> Job]
      /\ open'[w].day = open[w].day
  BY <1>3, OthersAlone DEF Pc
<1>7. Typed'
  BY <1>3, <1>4, <1>6 DEF Typed, history
<1>8. Working'
  BY <1>3, <1>5, <1>6, TypedStep DEF Others, KeepsJob
<1>9. OtherDays(w)
  BY <1>3 DEF OtherDays, Typed, d
<1>10. data'[d] = data[d] \o Cells(m)
  BY <1>1, <1>3 DEF Typed
<1> QED BY <1>2, <1>3, <1>5, <1>6, <1>7, <1>8, <1>9, <1>10 DEF d, m

LEMMA WriteMemberFailsDoes ==
  ASSUME Typed, Working, NEW w \in Writer, WriteMemberFails(w)
  PROVE  /\ Typed' /\ Working' /\ Others(w) /\ OtherDays(w) /\ job'[w] = Idle
         /\ open'[w] = [open[w] EXCEPT !.off = Len(data'[D(w)]),
                                       !.behind = @ \ {"data"}]
         /\ Same(data[D(w)], data'[D(w)], Len(data[D(w)]))
         /\ \A k \in 1..Len(data'[D(w)]) :
              k > Len(data[D(w)]) => data'[D(w)][k][1] = Lifted(w)
<1> DEFINE d == D(w)
           m == Lifted(w)
<1>1. /\ <<m, 1>> \in MemberCell /\ <<m, 2>> \in MemberCell /\ d \in Day
      /\ data[d] \in Seq(MemberCell) /\ open[w] \in Opened
  BY LiftedType DEF WriteMemberFails
<1> HIDE DEF d, m
<1>2. PICK n \in 0..1 : data' = [data EXCEPT ![d] = data[d] \o SubSeq(Cells(m), 1, n)]
  BY DEF WriteMemberFails, m, d, Lifted
<1> DEFINE g == data[d] \o SubSeq(Cells(m), 1, n)
<1>3. /\ g \in Seq(MemberCell) /\ Len(g) = Len(data[d]) + n
      /\ Same(data[d], g, Len(data[d]))
      /\ \A k \in 1..Len(g) : k > Len(data[d]) => g[k][1] = m
  <2>1. Grown(MemberCell, data[d], g, m, n)
    BY <1>1, PutPiece
  <2> HIDE DEF g
  <2> QED BY <2>1 DEF Grown
<1>4. data' = [data EXCEPT ![d] = g]
  BY <1>2
<1> HIDE DEF g
<1>5. data' \in [Day -> Seq(MemberCell)] /\ data'[d] = g
  BY <1>1, <1>3, <1>4 DEF Typed
<1>6. Len(data'[d]) \in Nat
  BY <1>3, <1>5
<1> DEFINE o == [open[w] EXCEPT !.off = Len(data'[d]), !.behind = @ \ {"data"}]
<1>7. o \in Opened /\ o.day = open[w].day
  BY <1>1, <1>6 DEF Opened
<1>8. open' = [open EXCEPT ![w] = o]
  BY DEF WriteMemberFails, Resync, Typed, d
<1> HIDE DEF o
<1>9. /\ Others(w) /\ open' \in [Writer -> Opened] /\ job' \in [Writer -> Job]
      /\ open'[w].day = open[w].day
  BY <1>7, <1>8, OthersAlone DEF WriteMemberFails
<1>10. job'[w] = Idle /\ open'[w] = o
  BY <1>8, ReturnType DEF WriteMemberFails, Typed
<1>11. Typed'
  BY <1>5, <1>9 DEF Typed, history, WriteMemberFails
<1>12. Working'
  <2>1. job[w].pc # "idle" /\ job'[w].pc = "idle"
    BY <1>10 DEF WriteMemberFails, Idle
  <2> QED BY <1>9, <2>1, TypedStep DEF Others
<1>13. OtherDays(w)
  BY <1>2 DEF OtherDays, Typed, WriteMemberFails, d
<1> QED BY <1>3, <1>5, <1>9, <1>10, <1>11, <1>12, <1>13 DEF d, o, m

LEMMA SyncMemberDoes ==
  ASSUME Typed, Working, NEW w \in Writer, SyncMember(w)
  PROVE  /\ Typed' /\ Working' /\ Others(w) /\ OtherDays(w)
         /\ open' = open /\ KeepsJob(w, "entry")
         /\ UNCHANGED <<data, index, pool, poolIndex, history>>
         /\ synced'[D(w)] = [synced[D(w)] EXCEPT !.data = Len(data[D(w)])]
<1> DEFINE d == D(w)
           z == [synced[d] EXCEPT !.data = Len(data[d])]
<1>1. d \in Day
  BY LiftedType DEF SyncMember
<1>2. /\ synced' = [synced EXCEPT ![d] = z]
      /\ job[w].pc = "memberSync" /\ Goto(w, "entry")
      /\ UNCHANGED <<data, index, pool, poolIndex, open, tries, crashes, history>>
  BY DEF SyncMember, Flushed
<1> HIDE DEF d
<1>3. z \in Sizes
  BY <1>1, FilesOf DEF Sizes
<1> HIDE DEF z
<1>4. synced' \in [Day -> Sizes] /\ synced'[d] = z
  BY <1>1, <1>2, <1>3 DEF Typed
<1>5. KeepsJob(w, "entry")
  BY <1>2, GotoType DEF Pc, KeepsJob
<1>6. /\ Others(w) /\ open' \in [Writer -> Opened] /\ job' \in [Writer -> Job]
      /\ open'[w].day = open[w].day
  BY <1>2, OthersAlone DEF Pc
<1>7. Typed'
  BY <1>2, <1>4, <1>6 DEF Typed, history
<1>8. Working'
  BY <1>2, <1>5, <1>6, TypedStep DEF Others, KeepsJob
<1>9. OtherDays(w)
  BY <1>2 DEF OtherDays, Typed, d
<1> QED BY <1>2, <1>4, <1>5, <1>6, <1>7, <1>8, <1>9 DEF d, z

LEMMA SyncMemberFailsDoes ==
  ASSUME Typed, Working, NEW w \in Writer, SyncMemberFails(w)
  PROVE  /\ Typed' /\ Working' /\ Others(w) /\ job'[w] = Idle
         /\ open'[w] = [open[w] EXCEPT !.behind = @ \cup {"data"}]
         /\ UNCHANGED <<files, history>>
<1> DEFINE o == [open[w] EXCEPT !.behind = @ \cup {"data"}]
<1>1. open' = [open EXCEPT ![w] = o] /\ Return(w) /\ UNCHANGED <<files, tries, crashes, history>>
  BY DEF SyncMemberFails
<1>2. o \in Opened /\ o.day = open[w].day
  BY Active DEF Opened
<1> HIDE DEF o
<1>3. /\ Others(w) /\ open' \in [Writer -> Opened] /\ job' \in [Writer -> Job]
      /\ open'[w].day = open[w].day
  BY <1>1, <1>2, OthersAlone
<1>4. job'[w] = Idle /\ open'[w] = o
  BY <1>1, ReturnType DEF Typed
<1>5. Typed'
  BY <1>1, <1>3 DEF Typed, history, files
<1>6. Working'
  <2>1. job[w].pc # "idle" /\ job'[w].pc = "idle"
    BY <1>4 DEF SyncMemberFails, Idle
  <2> QED BY <1>3, <2>1, TypedStep DEF Others
<1> QED BY <1>1, <1>3, <1>4, <1>5, <1>6 DEF o

(* The line an append writes. *)
Line(w) == [rec |-> job[w].rec, off |-> open[w].off, how |-> job[w].how,
            clean |-> Clean(w)]

LEMMA WriteEntryDoes ==
  ASSUME Typed, Working, NEW w \in Writer, WriteEntry(w)
  PROVE  LET d == D(w)
             ls == index[d].lines
             new == index'[d].lines
         IN /\ Typed' /\ Working' /\ Others(w) /\ OtherDays(w)
            /\ UNCHANGED <<data, pool, poolIndex, synced, history>>
            /\ open'[w] = [open[w] EXCEPT !.off = @ + 2,
                                          !.rids = RememberId(open[w], job[w].rec)]
            /\ job'[w].pc = "entrySync" /\ job'[w].rec = job[w].rec
            /\ job'[w].how = job[w].how
            /\ job'[w].sound = (Clean(w) /\ ~index[d].torn)
            /\ Same(ls, new, Len(ls))
            /\ index[d].torn => new = ls
            /\ ~index[d].torn => Len(new) = Len(ls) + 1 /\ new[Len(ls) + 1] = Line(w)
<1> DEFINE d == D(w)
           r == job[w].rec
           e == Line(w)
           o == [open[w] EXCEPT !.off = open[w].off + 2, !.rids = RememberId(open[w], r)]
           b == Clean(w) /\ ~index[d].torn
           j == [job[w] EXCEPT !.pc = "entrySync", !.sound = b]
<1>1. /\ d \in Day /\ open[w] \in Opened /\ job[w] \in Job /\ r \in Record
  BY LiftedType DEF WriteEntry
<1>2. index[d] \in Lines(Entry) /\ Len(index[d].lines) \in Nat /\ index[d].torn \in BOOLEAN
  BY <1>1, FilesOf DEF Lines
<1>3. Clean(w) \in BOOLEAN /\ b \in BOOLEAN
  BY DEF Clean
<1>4. e \in Entry
  BY <1>1, <1>3 DEF Line, Entry, Job, Opened
<1>5. RidOf[r] \in Rid
  BY <1>1, Constants
<1>6. RememberId(open[w], r) \subseteq Rid
  BY <1>1, <1>5 DEF RememberId, Opened
<1>7. /\ job[w].pc = "entry"
      /\ index' = [index EXCEPT ![d] = PutLine(index[d], e)]
      /\ open' = [open EXCEPT ![w] = o]
      /\ job' = [job EXCEPT ![w] = j]
      /\ UNCHANGED <<data, pool, poolIndex, synced, tries, crashes, history>>
  BY DEF WriteEntry, Line
<1> HIDE DEF d, b, e
<1>8. o \in Opened /\ o.day = open[w].day
  <2> DEFINE n == open[w].off + 2
             q == RememberId(open[w], r)
  <2>1. n \in Nat /\ q \subseteq Rid
    BY <1>1, <1>6 DEF Opened
  <2>2. o = [open[w] EXCEPT !.off = n, !.rids = q]
    OBVIOUS
  <2> HIDE DEF n, q, o
  <2> QED BY <1>1, <2>1, <2>2 DEF Opened
<1>9. /\ j \in Job /\ j.pc = "entrySync" /\ j.rec = r /\ j.how = job[w].how /\ j.sound = b
  BY <1>1, <1>3 DEF Job, Pc
<1> HIDE DEF o, j, r
<1>10. index' \in [Day -> Lines(Entry)] /\ index'[d] = PutLine(index[d], e)
  BY <1>1, <1>2, <1>4, <1>7, LinePut DEF Typed
<1>11. /\ Others(w) /\ open' \in [Writer -> Opened] /\ job' \in [Writer -> Job]
       /\ open'[w].day = open[w].day
  BY <1>7, <1>8, <1>9, OthersAlone
<1>12. open'[w] = o /\ job'[w] = j
  BY <1>7 DEF Typed
<1>13. Typed'
  BY <1>7, <1>10, <1>11 DEF Typed, history
<1>14. Working'
  BY <1>7, <1>9, <1>11, <1>12, TypedStep DEF Others, r
<1>15. OtherDays(w)
  BY <1>7 DEF OtherDays, Typed, d
<1>16. /\ Same(index[d].lines, PutLine(index[d], e).lines, Len(index[d].lines))
       /\ index[d].torn => PutLine(index[d], e).lines = index[d].lines
       /\ ~index[d].torn => /\ Len(PutLine(index[d], e).lines) = Len(index[d].lines) + 1
                            /\ PutLine(index[d], e).lines[Len(index[d].lines) + 1] = e
  BY <1>2, <1>4, LinePut
<1> QED BY <1>7, <1>9, <1>10, <1>11, <1>12, <1>13, <1>14, <1>15, <1>16 DEF d, e, b, o, r

LEMMA WriteEntryFailsDoes ==
  ASSUME Typed, Working, NEW w \in Writer, WriteEntryFails(w)
  PROVE  LET d == D(w)
             ls == index[d].lines
             new == index'[d].lines
         IN /\ Typed' /\ Working' /\ Others(w) /\ OtherDays(w) /\ job'[w] = Idle
            /\ UNCHANGED <<data, pool, poolIndex, synced, history>>
            /\ open'[w] = [open[w] EXCEPT !.behind = @ \cup {"data"}]
            /\ Same(ls, new, Len(ls)) /\ Len(new) <= Len(ls) + 1
            /\ \A i \in 1..Len(new) : i > Len(ls) => new[i] = Garbage
<1> DEFINE d == D(w)
           o == [open[w] EXCEPT !.behind = @ \cup {"data"}]
           f == index[d]
<1>1. d \in Day /\ open[w] \in Opened
  BY LiftedType DEF WriteEntryFails
<1>2. f \in Lines(Entry) /\ Len(f.lines) \in Nat
  BY <1>1, FilesOf
<1>3. /\ open' = [open EXCEPT ![w] = o] /\ Return(w)
      /\ index' = index \/ index' = [index EXCEPT ![d] = PutPart(f, Garbage)]
      /\ UNCHANGED <<data, pool, poolIndex, synced, tries, crashes, history>>
  BY DEF WriteEntryFails
<1> HIDE DEF d
<1>4. o \in Opened /\ o.day = open[w].day
  BY <1>1 DEF Opened
<1> HIDE DEF o
<1>5. /\ PutPart(f, Garbage) \in Lines(Entry)
      /\ Same(f.lines, PutPart(f, Garbage).lines, Len(f.lines))
      /\ Len(PutPart(f, Garbage).lines) <= Len(f.lines) + 1
      /\ \A i \in 1..Len(PutPart(f, Garbage).lines) :
           i > Len(f.lines) => PutPart(f, Garbage).lines[i] = Garbage
  BY <1>2, Members, PartPut
<1>6. /\ index' \in [Day -> Lines(Entry)]
      /\ index'[d] = f \/ index'[d] = PutPart(f, Garbage)
  BY <1>1, <1>3, <1>5 DEF Typed
<1>7. Same(f.lines, f.lines, Len(f.lines))
  BY <1>2 DEF Same
<1>8. /\ Same(f.lines, index'[d].lines, Len(f.lines))
      /\ Len(index'[d].lines) <= Len(f.lines) + 1
      /\ \A i \in 1..Len(index'[d].lines) :
           i > Len(f.lines) => index'[d].lines[i] = Garbage
  <2>1. CASE index'[d] = PutPart(f, Garbage)
    BY <1>5, <2>1
  <2>2. CASE index'[d] = f
    <3>1. \A i \in 1..Len(f.lines) : ~(i > Len(f.lines))
      BY <1>2
    <3> QED BY <1>2, <1>7, <2>2, <3>1
  <2> QED BY <1>6, <2>1, <2>2
<1>9. /\ Others(w) /\ open' \in [Writer -> Opened] /\ job' \in [Writer -> Job]
      /\ open'[w].day = open[w].day
  BY <1>3, <1>4, OthersAlone
<1>10. job'[w] = Idle /\ open'[w] = o
  BY <1>3, ReturnType DEF Typed
<1>11. Typed'
  BY <1>3, <1>6, <1>9 DEF Typed, history
<1>12. Working'
  <2>1. job[w].pc # "idle" /\ job'[w].pc = "idle"
    BY <1>10 DEF WriteEntryFails, Idle
  <2> QED BY <1>9, <2>1, TypedStep DEF Others
<1>13. OtherDays(w)
  BY <1>3 DEF OtherDays, Typed, d
<1> QED BY <1>3, <1>8, <1>9, <1>10, <1>11, <1>12, <1>13 DEF d, o

LEMMA SyncEntryDoes ==
  ASSUME Typed, Working, NEW w \in Writer, SyncEntry(w)
  PROVE  /\ Typed' /\ Working' /\ Others(w) /\ OtherDays(w)
         /\ open' = open /\ job'[w] = Idle
         /\ UNCHANGED <<data, index, pool, poolIndex, spoiled>>
         /\ synced'[D(w)] = [synced[D(w)] EXCEPT !.index = Len(index[D(w)].lines)]
         /\ kept' = IF job[w].sound THEN kept \cup {Key(job[w].rec)} ELSE kept
<1> DEFINE d == D(w)
           z == [synced[d] EXCEPT !.index = Len(index[d].lines)]
<1>1. d \in Day /\ job[w].rec \in Record
  BY LiftedType DEF SyncEntry
<1>2. /\ synced' = [synced EXCEPT ![d] = z]
      /\ job[w].pc = "entrySync" /\ Return(w)
      /\ acked' = acked \cup {Key(job[w].rec)}
      /\ kept' = IF job[w].sound THEN kept \cup {Key(job[w].rec)} ELSE kept
      /\ UNCHANGED <<data, index, pool, poolIndex, open, tries, crashes, spoiled>>
  BY DEF SyncEntry, Listed
<1> HIDE DEF d
<1>3. z \in Sizes
  BY <1>1, FilesOf DEF Sizes
<1> HIDE DEF z
<1>4. synced' \in [Day -> Sizes] /\ synced'[d] = z
  BY <1>1, <1>2, <1>3 DEF Typed
<1>5. Key(job[w].rec) \in Day \X Rid
  BY <1>1, Constants DEF Key
<1>6. /\ Others(w) /\ open' \in [Writer -> Opened] /\ job' \in [Writer -> Job]
      /\ open'[w].day = open[w].day
  BY <1>2, OthersAlone
<1>7. Typed'
  <2>1. acked' \subseteq Day \X Rid /\ kept' \subseteq acked'
    BY <1>2, <1>5 DEF Typed
  <2> QED BY <1>2, <1>4, <1>6, <2>1 DEF Typed
<1>8. job'[w] = Idle
  BY <1>2, ReturnType
<1>9. Working'
  <2>1. job[w].pc # "idle" /\ job'[w].pc = "idle"
    BY <1>2, <1>8 DEF Idle
  <2> QED BY <1>6, <2>1, TypedStep DEF Others
<1>10. OtherDays(w)
  BY <1>2 DEF OtherDays, Typed, d
<1> QED BY <1>2, <1>4, <1>6, <1>7, <1>8, <1>9, <1>10 DEF d, z

LEMMA SyncEntryFailsDoes ==
  ASSUME Typed, Working, NEW w \in Writer, SyncEntryFails(w)
  PROVE  /\ Typed' /\ Working' /\ Others(w) /\ job'[w] = Idle /\ open' = open
         /\ UNCHANGED <<files, history>>
<1>1. open' = open /\ Return(w) /\ UNCHANGED <<files, tries, crashes, history>>
  BY DEF SyncEntryFails
<1>2. /\ Others(w) /\ open' \in [Writer -> Opened] /\ job' \in [Writer -> Job]
      /\ open'[w].day = open[w].day
  BY <1>1, OthersAlone
<1>3. job'[w] = Idle
  BY <1>1, ReturnType
<1>4. Typed'
  BY <1>1, <1>2 DEF Typed, history, files
<1>5. Working'
  <2>1. job[w].pc # "idle" /\ job'[w].pc = "idle"
    BY <1>3 DEF SyncEntryFails, Idle
  <2> QED BY <1>2, <2>1, TypedStep DEF Others
<1> QED BY <1>1, <1>2, <1>3, <1>4, <1>5

LEMMA KillDoes ==
  ASSUME Typed, Working, NEW w \in Writer, Kill(w)
  PROVE  /\ Typed' /\ Working' /\ Others(w) /\ job'[w] = Idle /\ open'[w] = Closed
         /\ UNCHANGED <<files, history, tries>>
<1>1. /\ open' = [open EXCEPT ![w] = Closed] /\ job' = [job EXCEPT ![w] = Idle]
      /\ crashes < MaxCrash /\ crashes' = crashes + 1
      /\ UNCHANGED <<files, tries, history>>
  BY DEF Kill
<1>2. Closed \in Opened /\ Idle \in Job /\ Idle.pc = "idle"
  BY ClosedType DEF Idle, Job, Pc
<1>3. /\ open' \in [Writer -> Opened] /\ job' \in [Writer -> Job]
      /\ open'[w] = Closed /\ job'[w] = Idle
      /\ \A v \in Writer : v # w => open'[v] = open[v] /\ job'[v] = job[v]
  BY <1>1, <1>2 DEF Typed
<1>4. crashes' \in 0..MaxCrash
  BY <1>1, Constants DEF Typed
<1>5. Typed'
  BY <1>1, <1>3, <1>4 DEF Typed, files, history
<1>6. Working'
  BY <1>2, <1>3 DEF Working, Busy, D
<1> QED BY <1>1, <1>3, <1>5, <1>6 DEF Others

(* What a power cut leaves of the files of a day: no less than was synced,  *)
(* and of the lines perhaps one more, torn.                                 *)
CutDay(e) ==
  /\ synced[e].data <= synced'[e].data /\ synced'[e].data <= Len(data'[e])
  /\ synced[e].pool <= synced'[e].pool /\ synced'[e].pool <= Len(pool'[e])
  /\ synced[e].index <= synced'[e].index
  /\ synced'[e].index <= Len(index'[e].lines)
  /\ synced[e].poolIndex <= synced'[e].poolIndex
  /\ synced'[e].poolIndex <= Len(poolIndex'[e].lines)
  /\ Same(data[e], data'[e], Len(data'[e])) /\ Same(pool[e], pool'[e], Len(pool'[e]))
  /\ LinesCut(index[e].lines, index'[e].lines, synced[e].index, Garbage)
  /\ LinesCut(poolIndex[e].lines, poolIndex'[e].lines, synced[e].poolIndex, PoolGarbage)

LEMMA LinesUncut ==
  ASSUME NEW T, NEW f \in Seq(T), NEW n \in 0..Len(f), NEW g
  PROVE  LinesCut(f, f, n, g)
<1>1. Same(f, f, Len(f)) /\ Len(f) \in Nat /\ \A i \in 1..Len(f) : ~(i > Len(f))
  BY DEF Same
<1> QED BY <1>1 DEF LinesCut

LEMMA DayKept ==
  ASSUME Typed, Covered, NEW e \in Day,
         data'[e] = data[e], pool'[e] = pool[e], index'[e] = index[e],
         poolIndex'[e] = poolIndex[e], synced'[e] = synced[e]
  PROVE  CutDay(e)
<1>1. /\ index[e].lines \in Seq(Entry) /\ poolIndex[e].lines \in Seq(Pointer)
      /\ Len(data[e]) \in Nat /\ Len(pool[e]) \in Nat
      /\ Len(index[e].lines) \in Nat /\ Len(poolIndex[e].lines) \in Nat
      /\ synced[e] \in Sizes
  BY FilesOf
<1>2. /\ synced[e].data <= Len(data[e]) /\ synced[e].pool <= Len(pool[e])
      /\ synced[e].index \in 0..Len(index[e].lines)
      /\ synced[e].poolIndex \in 0..Len(poolIndex[e].lines)
      /\ synced[e].data \in Nat /\ synced[e].pool \in Nat
  BY <1>1 DEF Covered, Sizes
<1>3. /\ LinesCut(index[e].lines, index[e].lines, synced[e].index, Garbage)
      /\ LinesCut(poolIndex[e].lines, poolIndex[e].lines, synced[e].poolIndex, PoolGarbage)
  BY <1>1, <1>2, LinesUncut
<1>4. Same(data[e], data[e], Len(data[e])) /\ Same(pool[e], pool[e], Len(pool[e]))
  BY <1>1 DEF Same
<1> QED BY <1>2, <1>3, <1>4 DEF CutDay

LEMMA PowerCutDoes ==
  ASSUME Typed, Covered, PowerCut
  PROVE  /\ Typed' /\ Working' /\ UNCHANGED <<tries, history>>
         /\ \A w \in Writer : open'[w] = Closed /\ job'[w] = Idle
         /\ \A e \in Day : CutDay(e)
<1>1. PICK d \in Day :
        /\ \E f \in LeftCells(data[d], synced[d].data) : data' = [data EXCEPT ![d] = f]
        /\ \E f \in LeftCells(pool[d], synced[d].pool) : pool' = [pool EXCEPT ![d] = f]
        /\ \E f \in LeftLines(index[d], synced[d].index, Garbage) :
             index' = [index EXCEPT ![d] = f]
        /\ \E f \in LeftLines(poolIndex[d], synced[d].poolIndex, PoolGarbage) :
             poolIndex' = [poolIndex EXCEPT ![d] = f]
        /\ synced' = [synced EXCEPT ![d] =
             [data |-> Len(data'[d]), index |-> Len(index'[d].lines),
              pool |-> Len(pool'[d]), poolIndex |-> Len(poolIndex'[d].lines)]]
  BY DEF PowerCut
<1>2. /\ crashes < MaxCrash /\ crashes' = crashes + 1
      /\ open' = [w \in Writer |-> Closed] /\ job' = [w \in Writer |-> Idle]
      /\ UNCHANGED <<tries, history>>
  BY DEF PowerCut
<1>3. /\ data[d] \in Seq(MemberCell) /\ pool[d] \in Seq(PoolCell)
      /\ index[d] \in Lines(Entry) /\ poolIndex[d] \in Lines(Pointer)
      /\ Len(data[d]) \in Nat /\ Len(pool[d]) \in Nat
      /\ Len(index[d].lines) \in Nat /\ Len(poolIndex[d].lines) \in Nat
      /\ synced[d] \in Sizes
  BY FilesOf
<1>4. /\ synced[d].data \in 0..Len(data[d]) /\ synced[d].pool \in 0..Len(pool[d])
      /\ synced[d].index \in 0..Len(index[d].lines)
      /\ synced[d].poolIndex \in 0..Len(poolIndex[d].lines)
  BY <1>3 DEF Covered, Sizes
<1>5. /\ data' \in [Day -> Seq(MemberCell)] /\ data'[d] \in Seq(MemberCell)
      /\ Len(data'[d]) \in synced[d].data..Len(data[d])
      /\ Same(data[d], data'[d], Len(data'[d]))
  <2>1. PICK f \in LeftCells(data[d], synced[d].data) : data' = [data EXCEPT ![d] = f]
    BY <1>1
  <2>2. /\ f \in Seq(MemberCell) /\ Len(f) \in synced[d].data..Len(data[d])
        /\ Same(data[d], f, Len(f))
    BY <1>3, <1>4, CellsLeft
  <2> QED BY <2>1, <2>2 DEF Typed
<1>6. /\ pool' \in [Day -> Seq(PoolCell)] /\ pool'[d] \in Seq(PoolCell)
      /\ Len(pool'[d]) \in synced[d].pool..Len(pool[d])
      /\ Same(pool[d], pool'[d], Len(pool'[d]))
  <2>1. PICK f \in LeftCells(pool[d], synced[d].pool) : pool' = [pool EXCEPT ![d] = f]
    BY <1>1
  <2>2. /\ f \in Seq(PoolCell) /\ Len(f) \in synced[d].pool..Len(pool[d])
        /\ Same(pool[d], f, Len(f))
    BY <1>3, <1>4, CellsLeft
  <2> QED BY <2>1, <2>2 DEF Typed
<1>7. /\ index' \in [Day -> Lines(Entry)]
      /\ Len(index'[d].lines) \in synced[d].index..Len(index[d].lines)
      /\ LinesCut(index[d].lines, index'[d].lines, synced[d].index, Garbage)
  <2>1. PICK f \in LeftLines(index[d], synced[d].index, Garbage) :
               index' = [index EXCEPT ![d] = f]
    BY <1>1
  <2>2. /\ f \in Lines(Entry) /\ Len(f.lines) \in synced[d].index..Len(index[d].lines)
        /\ LinesCut(index[d].lines, f.lines, synced[d].index, Garbage)
    BY <1>3, <1>4, LinesLeft, Members
  <2>3. index'[d] = f /\ index' \in [Day -> Lines(Entry)]
    BY <2>1, <2>2 DEF Typed
  <2> QED BY <2>2, <2>3
<1>8. /\ poolIndex' \in [Day -> Lines(Pointer)]
      /\ Len(poolIndex'[d].lines) \in synced[d].poolIndex..Len(poolIndex[d].lines)
      /\ LinesCut(poolIndex[d].lines, poolIndex'[d].lines, synced[d].poolIndex, PoolGarbage)
  <2>1. PICK f \in LeftLines(poolIndex[d], synced[d].poolIndex, PoolGarbage) :
               poolIndex' = [poolIndex EXCEPT ![d] = f]
    BY <1>1
  <2>5. PoolGarbage \in Pointer
    BY Members
  <2>2. /\ f \in Lines(Pointer)
        /\ Len(f.lines) \in synced[d].poolIndex..Len(poolIndex[d].lines)
        /\ LinesCut(poolIndex[d].lines, f.lines, synced[d].poolIndex, PoolGarbage)
    BY <1>3, <1>4, <2>5, LinesLeft
  <2>3. poolIndex'[d] = f /\ poolIndex' \in [Day -> Lines(Pointer)]
    BY <2>1, <2>2 DEF Typed
  <2> QED BY <2>2, <2>3
<1> DEFINE z == [data |-> Len(data'[d]), index |-> Len(index'[d].lines),
                 pool |-> Len(pool'[d]), poolIndex |-> Len(poolIndex'[d].lines)]
<1>9. synced' \in [Day -> Sizes] /\ synced'[d] = z
  <2>1. synced' = [synced EXCEPT ![d] = z]
    BY <1>1
  <2>2. z \in Sizes
    BY <1>4, <1>5, <1>6, <1>7, <1>8 DEF Sizes
  <2> HIDE DEF z
  <2> QED BY <2>1, <2>2 DEF Typed
<1>10. CutDay(d)
  BY <1>4, <1>5, <1>6, <1>7, <1>8, <1>9 DEF CutDay
<1>11. ASSUME NEW e \in Day, e # d
       PROVE  CutDay(e)
  BY <1>1, <1>11, DayKept DEF Typed
<1>12. Closed \in Opened /\ Idle \in Job /\ Idle.pc = "idle"
  BY ClosedType DEF Idle, Job, Pc
<1>13. Typed'
  <2>1. open' \in [Writer -> Opened] /\ job' \in [Writer -> Job]
    BY <1>2, <1>12
  <2>2. crashes' \in 0..MaxCrash
    BY <1>2, Constants DEF Typed
  <2> QED BY <1>2, <1>5, <1>6, <1>7, <1>8, <1>9, <2>1, <2>2 DEF Typed, history
<1>14. Working'
  BY <1>2, <1>12 DEF Working, Busy
<1> QED BY <1>2, <1>10, <1>11, <1>13, <1>14

(* What a call to Append or AppendNew opens: the day of the record, where   *)
(* the offsets stay if it was open and are those of the files if not.       *)
Opens(w, o) ==
  /\ o.day \in Day
  /\ D(w) = o.day => /\ o.off = open[w].off /\ o.blobOff = open[w].blobOff
                     /\ o.blobs = open[w].blobs /\ o.behind = open[w].behind
  /\ D(w) # o.day => /\ o.off = Len(data[o.day]) /\ o.blobOff = Len(pool[o.day])
                     /\ o.blobs = LoadBlobMap(o.day) /\ o.behind = {}
  /\ o.loaded => \/ o.rids = RidsOf(o.day)
                 \/ D(w) = o.day /\ open[w].loaded /\ o.rids = open[w].rids
Starts(w, o, r, how) ==
  /\ DayOf[r] = o.day /\ job'[w] = Started(r, how, o)
  /\ how = "new" => o.loaded /\ RidOf[r] \notin o.rids

LEMMA CallDoes ==
  ASSUME Typed, Working, NEW w \in Writer, Call(w)
  PROVE  /\ Typed' /\ Working' /\ Others(w) /\ UNCHANGED <<files, history>>
         /\ tries' = tries + 1 /\ tries < MaxTries /\ job[w].pc = "idle"
         /\ \/ open'[w] = Closed /\ job'[w] = job[w]
            \/ \E o \in Opened :
                 /\ open'[w] = o /\ Opens(w, o)
                 /\ \/ job'[w] = job[w]
                    \/ \E r \in Record, how \in How : Starts(w, o, r, how)
<1>1. Typed' /\ Working'
  BY TypedCall
<1>2. PICK r \in Record, how \in How : Begin(w, r, how) \/ BeginFails(w, r, how)
  BY DEF Call
<1>3. /\ UNCHANGED <<files, history>> /\ tries' = tries + 1 /\ tries < MaxTries
      /\ job[w].pc = "idle"
  BY <1>2 DEF Begin, BeginFails
<1>4. CASE Begin(w, r, how)
  <2>1. PICK o \in Opened :
           /\ o.day = DayOf[r] /\ open' = [open EXCEPT ![w] = o]
           /\ how = "new" => /\ o.loaded
                             /\ \/ o.rids = RidsOf(o.day)
                                \/ D(w) = o.day /\ open[w].loaded /\ o.rids = open[w].rids
           /\ D(w) = o.day => /\ o.off = open[w].off /\ o.blobOff = open[w].blobOff
                              /\ o.blobs = open[w].blobs /\ o.behind = open[w].behind
                              /\ how # "new" => o = open[w]
           /\ D(w) # o.day => /\ o.off = Len(data[o.day]) /\ o.blobOff = Len(pool[o.day])
                              /\ o.blobs = LoadBlobMap(o.day) /\ o.behind = {}
                              /\ how # "new" => ~o.loaded
           /\ \/ job' = job
              \/ /\ job' = [job EXCEPT ![w] = Started(r, how, o)]
                 /\ how = "new" => RidOf[r] \notin o.rids
    BY <1>4, Begun
  <2>2. o.day \in Day
    BY <2>1, Constants
  <2>3. o.loaded => \/ o.rids = RidsOf(o.day)
                    \/ D(w) = o.day /\ open[w].loaded /\ o.rids = open[w].rids
    BY <2>1
  <2>4. Opens(w, o)
    BY <2>1, <2>2, <2>3 DEF Opens
  <2>5. job'[w] = job[w] \/ Starts(w, o, r, how)
    BY <2>1 DEF Starts, Typed
  <2>6. open'[w] = o /\ Others(w)
    BY <2>1 DEF Typed, Others
  <2> QED BY <1>1, <1>3, <2>4, <2>5, <2>6
<1>5. CASE BeginFails(w, r, how)
  <2>1. job' = job
    BY <1>5 DEF BeginFails
  <2>2. CASE open' = [open EXCEPT ![w] = Closed]
    <3>1. open'[w] = Closed /\ Others(w)
      BY <2>1, <2>2 DEF Typed, Others
    <3> QED BY <1>1, <1>3, <2>1, <3>1
  <2>3. CASE open' = [open EXCEPT ![w] = OpenDay(w, DayOf[r])] /\ ~OpenDay(w, DayOf[r]).loaded
    <3> DEFINE o == OpenDay(w, DayOf[r])
    <3>1. DayOf[r] \in Day
      BY Constants
    <3>2. /\ o \in Opened /\ o.day = DayOf[r]
          /\ D(w) = o.day => o = open[w]
          /\ D(w) # o.day => /\ o.off = Len(data[o.day]) /\ o.blobOff = Len(pool[o.day])
                             /\ o.blobs = LoadBlobMap(o.day) /\ o.behind = {} /\ ~o.loaded
      BY <3>1, DayOpened
    <3>3. open' = [open EXCEPT ![w] = o] /\ ~o.loaded
      BY <2>3
    <3> HIDE DEF o
    <3>4. Opens(w, o)
      BY <3>1, <3>2, <3>3 DEF Opens
    <3>5. open'[w] = o /\ Others(w)
      BY <2>1, <3>3 DEF Typed, Others
    <3> QED BY <1>1, <1>3, <2>1, <3>2, <3>4, <3>5
  <2> QED BY <1>5, <2>2, <2>3 DEF BeginFails
<1> QED BY <1>2, <1>4, <1>5

-----------------------------------------------------------------------------
(* The files only grow, but for a power cut; what is synced stays.          *)

MoreSynced(e) ==
  /\ synced[e].data <= synced'[e].data /\ synced'[e].data <= Len(data'[e])
  /\ synced[e].pool <= synced'[e].pool /\ synced'[e].pool <= Len(pool'[e])
  /\ synced[e].index <= synced'[e].index
  /\ synced'[e].index <= Len(index'[e].lines)
  /\ synced[e].poolIndex <= synced'[e].poolIndex
  /\ synced'[e].poolIndex <= Len(poolIndex'[e].lines)
GrewDay(e) ==
  /\ MoreSynced(e)
  /\ Same(data[e], data'[e], Len(data[e])) /\ Same(pool[e], pool'[e], Len(pool[e]))
  /\ Same(index[e].lines, index'[e].lines, Len(index[e].lines))
  /\ Same(poolIndex[e].lines, poolIndex'[e].lines, Len(poolIndex[e].lines))
Durable(e) ==
  /\ MoreSynced(e)
  /\ Same(data[e], data'[e], synced[e].data) /\ Same(pool[e], pool'[e], synced[e].pool)
  /\ Same(index[e].lines, index'[e].lines, synced[e].index)
  /\ Same(poolIndex[e].lines, poolIndex'[e].lines, synced[e].poolIndex)

LEMMA SameAgain ==
  ASSUME NEW T, NEW f \in Seq(T)
  PROVE  Same(f, f, Len(f))
BY DEF Same

LEMMA SizesOf ==
  ASSUME Typed, Covered, NEW e \in Day
  PROVE  /\ synced[e].data \in 0..Len(data[e]) /\ synced[e].pool \in 0..Len(pool[e])
         /\ synced[e].index \in 0..Len(index[e].lines)
         /\ synced[e].poolIndex \in 0..Len(poolIndex[e].lines)
<1>1. /\ Len(data[e]) \in Nat /\ Len(pool[e]) \in Nat
      /\ Len(index[e].lines) \in Nat /\ Len(poolIndex[e].lines) \in Nat
      /\ synced[e] \in Sizes
  BY FilesOf
<1> QED BY <1>1 DEF Covered, Sizes

LEMMA DayUntouched ==
  ASSUME Typed, Covered, NEW e \in Day,
         data'[e] = data[e], pool'[e] = pool[e], index'[e] = index[e],
         poolIndex'[e] = poolIndex[e], synced'[e] = synced[e]
  PROVE  GrewDay(e)
<1>1. /\ data[e] \in Seq(MemberCell) /\ pool[e] \in Seq(PoolCell)
      /\ index[e].lines \in Seq(Entry) /\ poolIndex[e].lines \in Seq(Pointer)
  BY FilesOf
<1>2. /\ Same(data[e], data[e], Len(data[e])) /\ Same(pool[e], pool[e], Len(pool[e]))
      /\ Same(index[e].lines, index[e].lines, Len(index[e].lines))
      /\ Same(poolIndex[e].lines, poolIndex[e].lines, Len(poolIndex[e].lines))
  BY <1>1, SameAgain
<1>3. MoreSynced(e)
  BY SizesOf DEF MoreSynced
<1> QED BY <1>2, <1>3 DEF GrewDay

(* The bounds of a day a step of one process works on. *)
LEMMA PutGrows ==
  ASSUME Typed, Working, Covered, NEW w \in Writer, Put(w)
  PROVE  /\ Typed' /\ Working' /\ Others(w) /\ tries' = tries
         /\ \A e \in Day : GrewDay(e)
<1> DEFINE d == D(w)
<1>1. tries' = tries
  BY DEF Put, WriteBlob, WriteBlobFails, SyncBlob, SyncBlobFails, WriteMember,
         WriteMemberFails, SyncMember, SyncMemberFails, WriteEntry, WriteEntryFails,
         SyncEntry, SyncEntryFails
<1>2. d \in Day
  BY Active DEF Put, WriteBlob, WriteBlobFails, SyncBlob, SyncBlobFails, WriteMember,
         WriteMemberFails, SyncMember, SyncMemberFails, WriteEntry, WriteEntryFails,
         SyncEntry, SyncEntryFails
<1>3. /\ data[d] \in Seq(MemberCell) /\ pool[d] \in Seq(PoolCell)
      /\ index[d].lines \in Seq(Entry) /\ poolIndex[d].lines \in Seq(Pointer)
      /\ Len(data[d]) \in Nat /\ Len(pool[d]) \in Nat
      /\ Len(index[d].lines) \in Nat /\ Len(poolIndex[d].lines) \in Nat
      /\ synced[d] \in Sizes
  BY <1>2, FilesOf
<1>4. /\ Same(data[d], data[d], Len(data[d])) /\ Same(pool[d], pool[d], Len(pool[d]))
      /\ Same(index[d].lines, index[d].lines, Len(index[d].lines))
      /\ Same(poolIndex[d].lines, poolIndex[d].lines, Len(poolIndex[d].lines))
  BY <1>3, SameAgain
<1>5. /\ synced[d].data \in 0..Len(data[d]) /\ synced[d].pool \in 0..Len(pool[d])
      /\ synced[d].index \in 0..Len(index[d].lines)
      /\ synced[d].poolIndex \in 0..Len(poolIndex[d].lines)
  BY <1>2, SizesOf
<1>6. ASSUME Typed'
      PROVE  /\ Len(data'[d]) \in Nat /\ Len(pool'[d]) \in Nat
             /\ Len(index'[d].lines) \in Nat /\ Len(poolIndex'[d].lines) \in Nat
  <2>1. /\ data'[d] \in Seq(MemberCell) /\ pool'[d] \in Seq(PoolCell)
        /\ index'[d].lines \in Seq(Entry) /\ poolIndex'[d].lines \in Seq(Pointer)
    BY <1>2, <1>6 DEF Typed, Lines
  <2> QED BY <2>1
<1>7. ASSUME NEW e \in Day, e # d, OtherDays(w)
      PROVE  GrewDay(e)
  BY <1>7, DayUntouched DEF OtherDays
<1>8. ASSUME UNCHANGED files
      PROVE  \A e \in Day : GrewDay(e)
  BY <1>8, DayUntouched DEF files
<1>9. CASE WriteBlob(w)
  <2>1. /\ Typed' /\ Working' /\ Others(w) /\ OtherDays(w)
        /\ Same(pool[d], pool'[d], Len(pool[d]))
    BY <1>9, WriteBlobDoes
  <2>2. UNCHANGED <<data, index, poolIndex, synced>>
    BY <1>9 DEF WriteBlob
  <2>3. GrewDay(d)
    BY <1>4, <1>5, <1>6, <2>1, <2>2 DEF GrewDay, MoreSynced, Same
  <2> QED BY <1>1, <1>7, <2>1, <2>3
<1>10. CASE WriteBlobFails(w)
  <2>1. /\ Typed' /\ Working' /\ Others(w) /\ OtherDays(w)
        /\ Same(pool[d], pool'[d], Len(pool[d]))
    BY <1>10, WriteBlobFailsDoes
  <2>2. UNCHANGED <<data, index, poolIndex, synced>>
    BY <1>10 DEF WriteBlobFails
  <2>3. GrewDay(d)
    BY SMTT(20), <1>4, <1>5, <1>6, <2>1, <2>2 DEF GrewDay, MoreSynced, Same
  <2> QED BY <1>1, <1>7, <2>1, <2>3
<1>11. CASE SyncBlob(w)
  <2>1. /\ Typed' /\ Working' /\ Others(w) /\ OtherDays(w)
        /\ data' = data /\ pool' = pool /\ index' = index
        /\ synced'[d].pool = Len(pool[d]) /\ synced'[d].data = synced[d].data
        /\ synced'[d].index = synced[d].index
        /\ synced'[d].poolIndex = Len(poolIndex'[d].lines)
        /\ Same(poolIndex[d].lines, poolIndex'[d].lines, Len(poolIndex[d].lines))
    BY <1>11, SyncBlobDoes
  <2>2. MoreSynced(d)
    BY <1>3, <1>5, <1>6, <2>1 DEF MoreSynced, Same
  <2>3. GrewDay(d)
    BY <1>4, <2>1, <2>2 DEF GrewDay
  <2> QED BY <1>1, <1>7, <2>1, <2>3
<1>12. CASE SyncBlobFails(w)
  BY <1>1, <1>8, <1>12, SyncBlobFailsDoes DEF files
<1>13. CASE WriteMember(w)
  <2>1. /\ Typed' /\ Working' /\ Others(w) /\ OtherDays(w)
        /\ Same(data[d], data'[d], Len(data[d]))
    BY <1>13, WriteMemberDoes
  <2>2. UNCHANGED <<pool, index, poolIndex, synced>>
    BY <1>13 DEF WriteMember
  <2>3. GrewDay(d)
    BY <1>4, <1>5, <1>6, <2>1, <2>2 DEF GrewDay, MoreSynced, Same
  <2> QED BY <1>1, <1>7, <2>1, <2>3
<1>14. CASE WriteMemberFails(w)
  <2>1. /\ Typed' /\ Working' /\ Others(w) /\ OtherDays(w)
        /\ Same(data[d], data'[d], Len(data[d]))
    BY <1>14, WriteMemberFailsDoes
  <2>2. UNCHANGED <<pool, index, poolIndex, synced>>
    BY <1>14 DEF WriteMemberFails
  <2>3. GrewDay(d)
    BY <1>4, <1>5, <1>6, <2>1, <2>2 DEF GrewDay, MoreSynced, Same
  <2> QED BY <1>1, <1>7, <2>1, <2>3
<1>15. CASE SyncMember(w)
  <2>1. /\ Typed' /\ Working' /\ Others(w) /\ OtherDays(w)
        /\ UNCHANGED <<data, index, pool, poolIndex>>
        /\ synced'[d] = [synced[d] EXCEPT !.data = Len(data[d])]
    BY <1>15, SyncMemberDoes
  <2>2. GrewDay(d)
    BY <1>3, <1>4, <1>5, <2>1 DEF GrewDay, MoreSynced, Sizes
  <2> QED BY <1>1, <1>7, <2>1, <2>2
<1>16. CASE SyncMemberFails(w)
  BY <1>1, <1>8, <1>16, SyncMemberFailsDoes DEF files
<1>17. CASE WriteEntry(w)
  <2>1. /\ Typed' /\ Working' /\ Others(w) /\ OtherDays(w)
        /\ UNCHANGED <<data, pool, poolIndex, synced>>
        /\ Same(index[d].lines, index'[d].lines, Len(index[d].lines))
    BY <1>17, WriteEntryDoes
  <2>2. GrewDay(d)
    BY SMTT(20), <1>4, <1>5, <1>6, <2>1 DEF GrewDay, MoreSynced, Same
  <2> QED BY <1>1, <1>7, <2>1, <2>2
<1>18. CASE WriteEntryFails(w)
  <2>1. /\ Typed' /\ Working' /\ Others(w) /\ OtherDays(w)
        /\ UNCHANGED <<data, pool, poolIndex, synced>>
        /\ Same(index[d].lines, index'[d].lines, Len(index[d].lines))
    BY <1>18, WriteEntryFailsDoes
  <2>2. GrewDay(d)
    BY SMTT(20), <1>4, <1>5, <1>6, <2>1 DEF GrewDay, MoreSynced, Same
  <2> QED BY <1>1, <1>7, <2>1, <2>2
<1>19. CASE SyncEntry(w)
  <2>1. /\ Typed' /\ Working' /\ Others(w) /\ OtherDays(w)
        /\ UNCHANGED <<data, index, pool, poolIndex>>
        /\ synced'[d] = [synced[d] EXCEPT !.index = Len(index[d].lines)]
    BY <1>19, SyncEntryDoes
  <2>2. GrewDay(d)
    BY <1>3, <1>4, <1>5, <2>1 DEF GrewDay, MoreSynced, Sizes
  <2> QED BY <1>1, <1>7, <2>1, <2>2
<1>20. CASE SyncEntryFails(w)
  BY <1>1, <1>8, <1>20, SyncEntryFailsDoes DEF files
<1> QED BY <1>9, <1>10, <1>11, <1>12, <1>13, <1>14, <1>15, <1>16, <1>17, <1>18, <1>19,
           <1>20 DEF Put

LEMMA SameShorter ==
  ASSUME NEW f, NEW g, NEW n \in Nat, NEW m \in Nat, m <= n, Same(f, g, n),
         Len(f) \in Nat, Len(g) \in Nat
  PROVE  Same(f, g, m)
BY DEF Same

LEMMA GrewIsDurable ==
  ASSUME Typed, Covered, Typed', NEW e \in Day, GrewDay(e)
  PROVE  Durable(e)
<1>1. /\ Len(data[e]) \in Nat /\ Len(pool[e]) \in Nat
      /\ Len(index[e].lines) \in Nat /\ Len(poolIndex[e].lines) \in Nat
  BY FilesOf
<1>2. /\ Len(data'[e]) \in Nat /\ Len(pool'[e]) \in Nat
      /\ Len(index'[e].lines) \in Nat /\ Len(poolIndex'[e].lines) \in Nat
  <2>1. /\ data'[e] \in Seq(MemberCell) /\ pool'[e] \in Seq(PoolCell)
        /\ index'[e].lines \in Seq(Entry) /\ poolIndex'[e].lines \in Seq(Pointer)
    BY DEF Typed, Lines
  <2> QED BY <2>1
<1>3. /\ synced[e].data \in 0..Len(data[e]) /\ synced[e].pool \in 0..Len(pool[e])
      /\ synced[e].index \in 0..Len(index[e].lines)
      /\ synced[e].poolIndex \in 0..Len(poolIndex[e].lines)
  BY SizesOf
<1>4. /\ synced[e].data \in Nat /\ synced[e].pool \in Nat
      /\ synced[e].index \in Nat /\ synced[e].poolIndex \in Nat
  BY <1>1, <1>3
<1>5. Same(data[e], data'[e], synced[e].data)
  BY <1>1, <1>2, <1>3, <1>4, SameShorter DEF GrewDay
<1>6. Same(pool[e], pool'[e], synced[e].pool)
  BY <1>1, <1>2, <1>3, <1>4, SameShorter DEF GrewDay
<1>7. Same(index[e].lines, index'[e].lines, synced[e].index)
  BY SMTT(20), <1>1, <1>2, <1>3, <1>4, SameShorter DEF GrewDay
<1>8. Same(poolIndex[e].lines, poolIndex'[e].lines, synced[e].poolIndex)
  BY SMTT(20), <1>1, <1>2, <1>3, <1>4, SameShorter DEF GrewDay
<1> QED BY <1>5, <1>6, <1>7, <1>8 DEF GrewDay, Durable

LEMMA CutIsDurable ==
  ASSUME Typed, Covered, Typed', NEW e \in Day, CutDay(e)
  PROVE  Durable(e)
<1>1. /\ Len(data[e]) \in Nat /\ Len(pool[e]) \in Nat
      /\ Len(index[e].lines) \in Nat /\ Len(poolIndex[e].lines) \in Nat
  BY FilesOf
<1>2. /\ Len(data'[e]) \in Nat /\ Len(pool'[e]) \in Nat
      /\ Len(index'[e].lines) \in Nat /\ Len(poolIndex'[e].lines) \in Nat
      /\ synced'[e] \in Sizes
  <2>1. /\ data'[e] \in Seq(MemberCell) /\ pool'[e] \in Seq(PoolCell)
        /\ index'[e].lines \in Seq(Entry) /\ poolIndex'[e].lines \in Seq(Pointer)
        /\ synced'[e] \in Sizes
    BY DEF Typed, Lines
  <2> QED BY <2>1
<1>3. /\ synced[e].data \in Nat /\ synced[e].pool \in Nat
      /\ synced[e].index \in Nat /\ synced[e].poolIndex \in Nat
      /\ synced'[e].data \in Nat /\ synced'[e].pool \in Nat
  BY <1>2, FilesOf DEF Sizes
<1>4. MoreSynced(e)
  BY DEF CutDay, MoreSynced
<1>5. Same(data[e], data'[e], synced[e].data) /\ Same(pool[e], pool'[e], synced[e].pool)
  <2>1. synced[e].data <= Len(data'[e]) /\ synced[e].pool <= Len(pool'[e])
    BY SMTT(20), <1>2, <1>3, <1>4 DEF MoreSynced
  <2> QED BY <1>1, <1>2, <1>3, <2>1, SameShorter DEF CutDay
<1>6. Same(index[e].lines, index'[e].lines, synced[e].index)
  <2>1. PICK k \in 0..Len(index'[e].lines) :
          synced[e].index <= k /\ Same(index[e].lines, index'[e].lines, k)
    BY DEF CutDay, LinesCut
  <2>2. k \in Nat
    BY <1>2, <2>1
  <2> QED BY <1>1, <1>2, <1>3, <2>1, <2>2, SameShorter
<1>7. Same(poolIndex[e].lines, poolIndex'[e].lines, synced[e].poolIndex)
  <2>1. PICK k \in 0..Len(poolIndex'[e].lines) :
          synced[e].poolIndex <= k /\ Same(poolIndex[e].lines, poolIndex'[e].lines, k)
    BY DEF CutDay, LinesCut
  <2>2. k \in Nat
    BY <1>2, <2>1
  <2> QED BY <1>1, <1>2, <1>3, <2>1, <2>2, SameShorter
<1> QED BY <1>4, <1>5, <1>6, <1>7 DEF Durable

LEMMA FilesNext ==
  ASSUME Typed', NEW d \in Day
  PROVE  /\ data'[d] \in Seq(MemberCell) /\ pool'[d] \in Seq(PoolCell)
         /\ index'[d].lines \in Seq(Entry) /\ poolIndex'[d].lines \in Seq(Pointer)
         /\ Len(data'[d]) \in Nat /\ Len(pool'[d]) \in Nat
         /\ Len(index'[d].lines) \in Nat /\ Len(poolIndex'[d].lines) \in Nat
         /\ synced'[d] \in Sizes
<1>1. /\ data'[d] \in Seq(MemberCell) /\ pool'[d] \in Seq(PoolCell)
      /\ index'[d] \in Lines(Entry) /\ poolIndex'[d] \in Lines(Pointer)
      /\ synced'[d] \in Sizes
  BY DEF Typed
<1>2. index'[d].lines \in Seq(Entry) /\ poolIndex'[d].lines \in Seq(Pointer)
  BY <1>1 DEF Lines
<1> QED BY <1>1, <1>2

(* A step of one process, which can only make the files longer: the calls,  *)
(* writes and syncs, and its death.                                         *)
Own(w) == Call(w) \/ Put(w) \/ Kill(w)

LEMMA OwnDoes ==
  ASSUME Typed, Working, Covered, NEW w \in Writer, Own(w)
  PROVE  /\ Typed' /\ Working' /\ Covered' /\ Others(w)
         /\ \A e \in Day : GrewDay(e) /\ Durable(e)
<1>1. /\ Typed' /\ Working' /\ Others(w) /\ \A e \in Day : GrewDay(e)
  <2>1. CASE Call(w)
    <3>1. Typed' /\ Working' /\ Others(w) /\ UNCHANGED files
      BY <2>1, CallDoes
    <3> QED BY <3>1, DayUntouched DEF files
  <2>2. CASE Put(w)
    BY <2>2, PutGrows
  <2>3. CASE Kill(w)
    <3>1. Typed' /\ Working' /\ Others(w) /\ UNCHANGED files
      BY <2>3, KillDoes
    <3> QED BY <3>1, DayUntouched DEF files
  <2> QED BY <2>1, <2>2, <2>3 DEF Own
<1>2. \A e \in Day : Durable(e)
  BY <1>1, GrewIsDurable
<1>3. Covered'
  BY <1>1 DEF GrewDay, MoreSynced, Covered
<1> QED BY <1>1, <1>2, <1>3

LEMMA PowerCutKeeps ==
  ASSUME Typed, Working, Covered, PowerCut
  PROVE  /\ Typed' /\ Working' /\ Covered' /\ UNCHANGED <<tries, history>>
         /\ \A e \in Day : CutDay(e) /\ Durable(e)
         /\ \A w \in Writer : open'[w] = Closed /\ job'[w] = Idle
<1>1. /\ Typed' /\ Working' /\ UNCHANGED <<tries, history>>
      /\ \A w \in Writer : open'[w] = Closed /\ job'[w] = Idle
      /\ \A e \in Day : CutDay(e)
  BY PowerCutDoes
<1>2. \A e \in Day : Durable(e)
  BY <1>1, CutIsDurable
<1>3. Covered'
  BY <1>2 DEF Durable, MoreSynced, Covered
<1> QED BY <1>1, <1>2, <1>3

(* What is synced and what a step leaves of it. *)
LEMMA MoreSizes ==
  ASSUME Typed, Covered, Typed', NEW e \in Day, Durable(e)
  PROVE  /\ synced[e].data \in Nat /\ synced[e].pool \in Nat /\ synced[e].index \in Nat
         /\ synced'[e].data \in Nat /\ synced'[e].pool \in Nat /\ synced'[e].index \in Nat
         /\ synced[e].data <= synced'[e].data /\ synced[e].pool <= synced'[e].pool
         /\ synced[e].index <= synced'[e].index
         /\ synced'[e].index <= Len(index'[e].lines)
         /\ synced[e].data <= Len(data[e]) /\ synced[e].pool <= Len(pool[e])
BY FilesOf, FilesNext, SizesOf DEF Durable, MoreSynced, Sizes

-----------------------------------------------------------------------------
(* Offsets stay within the files, however many processes append.            *)

LEMMA PtrStays ==
  ASSUME NEW d, NEW r, NEW p \in Nat, NEW n \in Nat, NEW m \in Nat, n <= m,
         PtrOk(d, r, p, n)
  PROVE  PtrOk(d, r, p, m)
BY DEF PtrOk

LEMMA MembersStay ==
  ASSUME NEW d, NEW f \in Seq(MemberCell), NEW g \in Seq(MemberCell),
         NEW n \in Nat, NEW m \in Nat, NEW l \in Nat,
         n <= m, MembersOk(d, f, n), Same(f, g, l),
         \A k \in 1..Len(g) : k > l => PtrOk(d, g[k][1].rec, g[k][1].ptr, m)
  PROVE  MembersOk(d, g, m)
<1> SUFFICES ASSUME NEW k \in 1..Len(g)
             PROVE  PtrOk(d, g[k][1].rec, g[k][1].ptr, m)
  BY DEF MembersOk
<1>1. CASE k > l
  BY <1>1
<1>2. CASE ~(k > l)
  <2>1. k \in 1..Len(f) /\ g[k] = f[k]
    BY <1>2 DEF Same
  <2>2. f[k] \in MemberCell
    BY <2>1
  <2>3. f[k][1].ptr \in Nat
    BY <2>2 DEF MemberCell, Member
  <2>4. PtrOk(d, f[k][1].rec, f[k][1].ptr, n)
    BY <2>1 DEF MembersOk
  <2> QED BY <2>1, <2>3, <2>4, PtrStays
<1> QED BY <1>1, <1>2

EntriesFrom(d, ls, l, n) ==
  \A i \in 1..Len(ls) :
    i > l /\ ls[i].rec # None => DayOf[ls[i].rec] = d /\ ls[i].off + 2 <= n

LEMMA EntriesStay ==
  ASSUME NEW d, NEW f \in Seq(Entry), NEW g \in Seq(Entry),
         NEW n \in Nat, NEW m \in Nat, NEW l \in Nat,
         n <= m, EntriesOk(d, f, n), Same(f, g, l),
         EntriesFrom(d, g, l, m)
  PROVE  EntriesOk(d, g, m)
<1> SUFFICES ASSUME NEW k \in 1..Len(g), g[k].rec # None
             PROVE  DayOf[g[k].rec] = d /\ g[k].off + 2 <= m
  BY DEF EntriesOk
<1>1. CASE k > l
  BY <1>1 DEF EntriesFrom
<1>2. CASE ~(k > l)
  <2>1. k \in 1..Len(f) /\ g[k] = f[k]
    BY <1>2 DEF Same
  <2>2. f[k] \in Entry
    BY <2>1
  <2>3. f[k].off \in Nat
    BY <2>2 DEF Entry
  <2>4. DayOf[f[k].rec] = d /\ f[k].off + 2 <= n
    BY <2>1 DEF EntriesOk
  <2> QED BY <2>1, <2>3, <2>4
<1> QED BY <1>1, <1>2

LEMMA PointersStay ==
  ASSUME NEW f \in Seq(Pointer), NEW g \in Seq(Pointer),
         NEW n \in Nat, NEW m \in Nat, NEW l \in Nat,
         n <= m, PointersOk(f, n), Same(f, g, l),
         \A k \in 1..Len(g) : k > l /\ g[k].content # None => g[k].off + 2 <= m
  PROVE  PointersOk(g, m)
<1> SUFFICES ASSUME NEW k \in 1..Len(g), g[k].content # None
             PROVE  g[k].off + 2 <= m
  BY DEF PointersOk
<1>1. CASE k > l
  BY <1>1
<1>2. CASE ~(k > l)
  <2>1. k \in 1..Len(f) /\ g[k] = f[k]
    BY <1>2 DEF Same
  <2>2. f[k] \in Pointer
    BY <2>1
  <2>3. f[k].off \in Nat
    BY <2>2 DEF Pointer
  <2>4. f[k].off + 2 <= n
    BY <2>1 DEF PointersOk
  <2> QED BY <2>1, <2>3, <2>4
<1> QED BY <1>1, <1>2

(* A process nothing happens to keeps its bounds while its files grow. *)
LEMMA BoundsStay ==
  ASSUME NEW o \in Opened, NEW j \in Job,
         NEW f \in Seq(MemberCell), NEW g \in Seq(MemberCell), Len(f) <= Len(g),
         NEW p \in Seq(PoolCell), NEW q \in Seq(PoolCell), Len(p) <= Len(q),
         NEW s \in Sizes, NEW t \in Sizes, s.data <= t.data, s.pool <= t.pool,
         InBounds(o, j, f, p, s)
  PROVE  InBounds(o, j, g, q, t)
<1>1. /\ Len(f) \in Nat /\ Len(g) \in Nat /\ Len(p) \in Nat /\ Len(q) \in Nat
      /\ o.off \in Nat /\ o.blobOff \in Nat /\ j.ptr \in Nat
      /\ s.data \in Nat /\ s.pool \in Nat /\ t.data \in Nat /\ t.pool \in Nat
  BY SMTT(20) DEF Opened, Job, Sizes
<1>2. \A c \in Content : o.blobs[c] \in Nat \cup {-1}
  BY DEF Opened
<1>3. ASSUME NEW c \in Content, o.blobs[c] # -1
      PROVE  o.blobs[c] + 2 <= t.pool
  <2>1. o.blobs[c] \in Nat /\ o.blobs[c] + 2 <= s.pool
    BY <1>2, <1>3 DEF InBounds
  <2> QED BY SMTT(20), <1>1, <2>1
<1>4. j.pc \in {"member", "memberSync", "entry"} => PtrOk(o.day, j.rec, j.ptr, t.pool)
  BY <1>1, PtrStays DEF InBounds
<1> QED BY SMTT(20), <1>1, <1>3, <1>4 DEF InBounds

LEMMA BoundsAfter ==
  ASSUME Typed, Working, Covered, Within, NEW w \in Writer, Own(w),
         NEW v \in Writer, D(v) # None
  PROVE  InBounds(open[v], job[v], data'[D(v)], pool'[D(v)], synced'[D(v)])
<1> DEFINE d == D(v)
<1>1. d \in Day /\ open[v] \in Opened /\ job[v] \in Job
  BY DEF Typed, Opened, D
<1>2. Typed' /\ GrewDay(d) /\ Durable(d)
  BY <1>1, OwnDoes
<1>3. InBounds(open[v], job[v], data[d], pool[d], synced[d])
  BY DEF Within
<1>4. Len(data[d]) <= Len(data'[d]) /\ Len(pool[d]) <= Len(pool'[d])
  BY <1>2 DEF GrewDay, Same
<1>5. synced[d].data <= synced'[d].data /\ synced[d].pool <= synced'[d].pool
  BY <1>2 DEF GrewDay, MoreSynced
<1>6. /\ data[d] \in Seq(MemberCell) /\ pool[d] \in Seq(PoolCell) /\ synced[d] \in Sizes
      /\ data'[d] \in Seq(MemberCell) /\ pool'[d] \in Seq(PoolCell) /\ synced'[d] \in Sizes
  BY <1>1, <1>2, FilesOf, FilesNext
<1> HIDE DEF d
<1> QED BY <1>1, <1>3, <1>4, <1>5, <1>6, BoundsStay DEF d

LEMMA PutBounds ==
  ASSUME Typed, Working, Covered, Within, NEW w \in Writer, Put(w)
  PROVE  /\ D(w) \in Day /\ open'[w].day = D(w)
         /\ InBounds(open'[w], job'[w], data'[D(w)], pool'[D(w)], synced'[D(w)])
<1> DEFINE d == D(w)
<1>1. /\ d \in Day /\ open[w] \in Opened /\ job[w] \in Job /\ job[w].rec \in Record
      /\ job[w].pc # "idle" /\ d # None /\ DayOf[job[w].rec] = d
  BY Active, Constants DEF Put, WriteBlob, WriteBlobFails, SyncBlob, SyncBlobFails,
         WriteMember, WriteMemberFails, SyncMember, SyncMemberFails, WriteEntry,
         WriteEntryFails, SyncEntry, SyncEntryFails
<1>2. Typed' /\ Own(w) /\ GrewDay(d) /\ Durable(d)
  BY <1>1, OwnDoes DEF Own
<1>3. InBounds(open[w], job[w], data'[d], pool'[d], synced'[d])
  BY <1>1, <1>2, BoundsAfter
<1>4. InBounds(open[w], job[w], data[d], pool[d], synced[d])
  BY <1>1 DEF Within
<1>5. open'[w] \in Opened /\ job'[w] \in Job
  BY <1>2 DEF Typed
<1>6. /\ Len(data[d]) \in Nat /\ Len(pool[d]) \in Nat
      /\ Len(data'[d]) \in Nat /\ Len(pool'[d]) \in Nat
      /\ synced[d] \in Sizes /\ synced'[d] \in Sizes
  BY <1>1, <1>2, FilesOf, FilesNext
<1>7. /\ open[w].off \in Nat /\ open[w].blobOff \in Nat /\ open[w].day = d
  BY <1>1 DEF Opened, D
<1>8. Idle.pc = "idle"
  BY DEF Idle
<1> HIDE DEF d
<1>9. CASE WriteBlob(w)
  <2>1. /\ open' = open /\ job'[w].pc = "blobSync" /\ Len(pool'[d]) = Len(pool[d]) + 2
    BY <1>9, WriteBlobDoes DEF KeepsJob, d
  <2> QED BY <1>1, <1>3, <1>4, <1>6, <1>7, <2>1 DEF InBounds, d
<1>10. CASE WriteBlobFails(w)
  <2>1. /\ open'[w] = [open[w] EXCEPT !.blobOff = Len(pool'[d]), !.behind = @ \ {"pool"}]
        /\ job'[w] = Idle
    BY <1>10, WriteBlobFailsDoes DEF d
  <2>2. /\ open'[w].off = open[w].off /\ open'[w].blobOff = Len(pool'[d])
        /\ open'[w].blobs = open[w].blobs /\ open'[w].day = open[w].day
    BY <1>1, <2>1 DEF Opened
  <2> QED BY <1>1, <1>3, <1>5, <1>6, <1>7, <1>8, <2>1, <2>2 DEF InBounds, d
<1>11. CASE SyncBlob(w)
  <2> DEFINE c == BlobOf[job[w].rec]
             at == open[w].blobOff
  <2>1. /\ open'[w].day = d /\ open'[w].off = open[w].off
        /\ open'[w].blobOff = at + 2
        /\ \A x \in Content : open'[w].blobs[x] = IF x = c THEN at ELSE open[w].blobs[x]
        /\ job'[w].pc = "member" /\ job'[w].rec = job[w].rec /\ job'[w].ptr = at
        /\ synced'[d].pool = Len(pool[d]) /\ pool' = pool
    BY <1>11, SyncBlobDoes DEF d
  <2>2. job[w].pc = "blobSync" /\ c \in Content
    BY <1>11, Active DEF SyncBlob
  <2>3. at + 2 <= Len(pool[d])
    BY <1>4, <2>2 DEF InBounds
  <2>4. PtrOk(d, job[w].rec, at, synced'[d].pool)
    BY <1>1, <2>1, <2>2, <2>3, Constants DEF PtrOk
  <2>5. ASSUME NEW x \in Content, open'[w].blobs[x] # -1
        PROVE  open'[w].blobs[x] + 2 <= synced'[d].pool
    <3>1. CASE x = c
      BY <2>1, <2>3, <3>1
    <3>2. CASE x # c
      BY <1>3, <2>1, <2>5, <3>2 DEF InBounds
    <3> QED BY <3>1, <3>2
  <2> HIDE DEF c, at
  <2>6. /\ open'[w].off <= Len(data'[d]) /\ open'[w].blobOff <= Len(pool'[d])
    BY <1>3, <2>1, <2>3 DEF InBounds
  <2> QED BY <1>1, <2>1, <2>4, <2>5, <2>6 DEF InBounds, d
<1>12. CASE SyncBlobFails(w)
  <2>1. /\ open'[w] = [open[w] EXCEPT !.behind = @ \cup {"pool"}] /\ job'[w] = Idle
    BY <1>12, SyncBlobFailsDoes
  <2>2. /\ open'[w].off = open[w].off /\ open'[w].blobOff = open[w].blobOff
        /\ open'[w].blobs = open[w].blobs /\ open'[w].day = open[w].day
    BY <1>1, <2>1 DEF Opened
  <2> QED BY <1>1, <1>3, <1>5, <1>7, <1>8, <2>1, <2>2 DEF InBounds, d
<1>13. CASE WriteMember(w)
  <2>1. /\ open' = open /\ job'[w].pc = "memberSync" /\ Len(data'[d]) = Len(data[d]) + 2
        /\ job'[w].rec = job[w].rec /\ job'[w].ptr = job[w].ptr
    BY <1>13, WriteMemberDoes DEF KeepsJob, d
  <2>2. job[w].pc = "member"
    BY <1>13 DEF WriteMember
  <2> QED BY <1>1, <1>3, <1>4, <1>6, <1>7, <2>1, <2>2 DEF InBounds, d
<1>14. CASE WriteMemberFails(w)
  <2>1. /\ open'[w] = [open[w] EXCEPT !.off = Len(data'[d]), !.behind = @ \ {"data"}]
        /\ job'[w] = Idle
    BY <1>14, WriteMemberFailsDoes DEF d
  <2>2. /\ open'[w].off = Len(data'[d]) /\ open'[w].blobOff = open[w].blobOff
        /\ open'[w].blobs = open[w].blobs /\ open'[w].day = open[w].day
    BY <1>1, <2>1 DEF Opened
  <2> QED BY <1>1, <1>3, <1>5, <1>6, <1>7, <1>8, <2>1, <2>2 DEF InBounds, d
<1>15. CASE SyncMember(w)
  <2>1. /\ open' = open /\ job'[w].pc = "entry" /\ data' = data
        /\ job'[w].rec = job[w].rec /\ job'[w].ptr = job[w].ptr
        /\ synced'[d] = [synced[d] EXCEPT !.data = Len(data[d])]
    BY <1>15, SyncMemberDoes DEF KeepsJob, d
  <2>2. synced'[d].data = Len(data[d])
    BY <1>6, <2>1 DEF Sizes
  <2>3. job[w].pc = "memberSync"
    BY <1>15 DEF SyncMember
  <2> QED BY <1>1, <1>3, <1>4, <1>6, <1>7, <2>1, <2>2, <2>3 DEF InBounds, d
<1>16. CASE SyncMemberFails(w)
  <2>1. /\ open'[w] = [open[w] EXCEPT !.behind = @ \cup {"data"}] /\ job'[w] = Idle
    BY <1>16, SyncMemberFailsDoes
  <2>2. /\ open'[w].off = open[w].off /\ open'[w].blobOff = open[w].blobOff
        /\ open'[w].blobs = open[w].blobs /\ open'[w].day = open[w].day
    BY <1>1, <2>1 DEF Opened
  <2> QED BY <1>1, <1>3, <1>5, <1>7, <1>8, <2>1, <2>2 DEF InBounds, d
<1>17. CASE WriteEntry(w)
  <2>1. /\ open'[w] = [open[w] EXCEPT !.off = @ + 2,
                                      !.rids = RememberId(open[w], job[w].rec)]
        /\ job'[w].pc = "entrySync"
    BY <1>17, WriteEntryDoes
  <2>2. /\ open'[w].off = open[w].off + 2 /\ open'[w].blobOff = open[w].blobOff
        /\ open'[w].blobs = open[w].blobs /\ open'[w].day = open[w].day
    BY <1>1, <2>1 DEF Opened
  <2>3. open'[w].off <= Len(data'[d])
    BY <1>3, <1>17, <2>2 DEF WriteEntry, InBounds
  <2> QED BY <1>1, <1>3, <1>5, <1>7, <2>1, <2>2, <2>3 DEF InBounds, d
<1>18. CASE WriteEntryFails(w)
  <2>1. /\ open'[w] = [open[w] EXCEPT !.behind = @ \cup {"data"}] /\ job'[w] = Idle
    BY <1>18, WriteEntryFailsDoes
  <2>2. /\ open'[w].off = open[w].off /\ open'[w].blobOff = open[w].blobOff
        /\ open'[w].blobs = open[w].blobs /\ open'[w].day = open[w].day
    BY <1>1, <2>1 DEF Opened
  <2> QED BY <1>1, <1>3, <1>5, <1>7, <1>8, <2>1, <2>2 DEF InBounds, d
<1>19. CASE SyncEntry(w)
  <2>1. open' = open /\ job'[w] = Idle
    BY <1>19, SyncEntryDoes
  <2> QED BY <1>1, <1>3, <1>5, <1>7, <1>8, <2>1 DEF InBounds, d
<1>20. CASE SyncEntryFails(w)
  <2>1. open' = open /\ job'[w] = Idle
    BY <1>20, SyncEntryFailsDoes
  <2> QED BY <1>1, <1>3, <1>5, <1>7, <1>8, <2>1 DEF InBounds, d
<1> QED BY <1>9, <1>10, <1>11, <1>12, <1>13, <1>14, <1>15, <1>16, <1>17, <1>18, <1>19,
           <1>20 DEF Put

LEMMA CallOpens ==
  ASSUME Typed, Working, NEW w \in Writer, Call(w), D(w)' # None
  PROVE  \E o \in Opened :
           /\ open'[w] = o /\ Opens(w, o) /\ o.day \in Day /\ D(w)' = o.day
           /\ \/ job'[w] = job[w]
              \/ \E r \in Record, how \in How : Starts(w, o, r, how)
<1>1. Closed.day = None
  BY DEF Closed
<1>2. \/ open'[w] = Closed
      \/ \E o \in Opened :
            /\ open'[w] = o /\ Opens(w, o)
            /\ \/ job'[w] = job[w]
               \/ \E r \in Record, how \in How : Starts(w, o, r, how)
  BY CallDoes
<1> QED BY <1>1, <1>2 DEF D, Opens

LEMMA CallBounds ==
  ASSUME Typed, Working, Covered, Within, Linked, NEW w \in Writer, Call(w),
         D(w)' # None
  PROVE  InBounds(open'[w], job'[w], data[D(w)'], pool[D(w)'], synced[D(w)'])
<1>1. /\ Typed' /\ UNCHANGED <<files, history>> /\ job[w].pc = "idle"
  BY CallDoes
<1>3. PICK o \in Opened :
        /\ open'[w] = o /\ Opens(w, o) /\ o.day \in Day /\ D(w)' = o.day
        /\ \/ job'[w] = job[w]
           \/ \E r \in Record, how \in How : Starts(w, o, r, how)
  BY CallOpens
<1> DEFINE d == o.day
<1>4. d \in Day /\ D(w)' = d /\ d # None
  BY <1>3, Constants
<1>5. /\ Len(data[d]) \in Nat /\ Len(pool[d]) \in Nat /\ synced[d] \in Sizes
      /\ o.off \in Nat /\ o.blobOff \in Nat
      /\ poolIndex[d].lines \in Seq(Pointer)
  BY <1>4, FilesOf DEF Opened
<1>6. /\ o.off <= Len(data[d]) /\ o.blobOff <= Len(pool[d])
      /\ \A c \in Content : o.blobs[c] # -1 => o.blobs[c] + 2 <= synced[d].pool
  <2>1. CASE D(w) = d
    <3>1. InBounds(open[w], job[w], data[d], pool[d], synced[d])
      BY <1>4, <2>1 DEF Within
    <3> QED BY <1>3, <2>1, <3>1 DEF Opens, InBounds
  <2>2. CASE D(w) # d
    <3>1. /\ o.off = Len(data[d]) /\ o.blobOff = Len(pool[d]) /\ o.blobs = LoadBlobMap(d)
      BY <1>3, <2>2 DEF Opens
    <3>2. ASSUME NEW c \in Content, LoadBlobMap(d)[c] # -1
          PROVE  LoadBlobMap(d)[c] + 2 <= synced[d].pool
      <4>1. PICK i \in 1..Len(poolIndex[d].lines) :
              /\ poolIndex[d].lines[i].content = c
              /\ poolIndex[d].lines[i].off = LoadBlobMap(d)[c]
        BY <1>4, <3>2, MapLoaded
      <4>2. PointersOk(poolIndex[d].lines, synced[d].pool)
        BY <1>4 DEF Linked
      <4> QED BY <4>1, <4>2, Constants DEF PointersOk
    <3> QED BY <1>5, <3>1, <3>2
  <2> QED BY <2>1, <2>2
<1>7. \/ job'[w].pc \in {"idle", "blob"}
      \/ job'[w].pc = "member" /\ PtrOk(d, job'[w].rec, job'[w].ptr, synced[d].pool)
  <2>1. CASE job'[w] = job[w]
    BY <1>1, <2>1
  <2>2. CASE \E r \in Record, how \in How : Starts(w, o, r, how)
    <3>1. PICK r \in Record, how \in How : Starts(w, o, r, how)
      BY <2>2
    <3>2. job'[w] = Started(r, how, o) /\ DayOf[r] = d
      BY <3>1 DEF Starts
    <3>3. /\ job'[w].rec = r
          /\ \/ job'[w].pc = "blob"
             \/ /\ job'[w].pc = "member"
                /\ BlobOf[r] = None => job'[w].ptr = 0
                /\ BlobOf[r] # None => /\ o.blobs[BlobOf[r]] # -1
                                       /\ job'[w].ptr = o.blobs[BlobOf[r]]
      BY <3>2, Start, Constants
    <3>4. BlobOf[r] \in Content \cup {None}
      BY Constants
    <3> QED BY <1>6, <3>2, <3>3, <3>4 DEF PtrOk
  <2> QED BY <1>3, <2>1, <2>2
<1> HIDE DEF d
<1>8. InBounds(o, job'[w], data[d], pool[d], synced[d])
  BY <1>6, <1>7 DEF InBounds, d
<1> QED BY <1>3, <1>4, <1>8

LEMMA WithinNext ==
  ASSUME Typed, Working, Covered, Within, Linked, Next
  PROVE  Within'
<1>1. CASE PowerCut
  <2>1. \A w \in Writer : open'[w] = Closed
    BY <1>1, PowerCutKeeps
  <2> QED BY <2>1 DEF Within, D, Closed
<1>2. ASSUME NEW w \in Writer, Own(w)
      PROVE  Within'
  <2>1. Others(w)
    BY <1>2, OwnDoes
  <2>2. ASSUME NEW v \in Writer, v # w, D(v)' # None
        PROVE  InBounds(open'[v], job'[v], data'[D(v)'], pool'[D(v)'], synced'[D(v)'])
    BY <1>2, <2>1, <2>2, BoundsAfter DEF Others, D
  <2>3. ASSUME D(w)' # None
        PROVE  InBounds(open'[w], job'[w], data'[D(w)'], pool'[D(w)'], synced'[D(w)'])
    <3>1. CASE Call(w)
      <4>1. UNCHANGED files
        BY <3>1, CallDoes
      <4> QED BY <2>3, <3>1, <4>1, CallBounds DEF files
    <3>2. CASE Put(w)
      BY <3>2, PutBounds DEF D
    <3>3. CASE Kill(w)
      BY <2>3, <3>3, KillDoes DEF D, Closed
    <3> QED BY <1>2, <3>1, <3>2, <3>3 DEF Own
  <2> QED BY <2>2, <2>3 DEF Within
<1> QED BY <1>1, <1>2 DEF Next, Own

-----------------------------------------------------------------------------
(* What a write adds to the files of the day of its process. *)
LEMMA PutAdds ==
  ASSUME Typed, Working, Covered, NEW w \in Writer, Put(w)
  PROVE  LET d == D(w)
         IN /\ OtherDays(w) /\ d \in Day
            /\ \A k \in 1..Len(data'[d]) : k > Len(data[d]) =>
                 data'[d][k][1] = Lifted(w) /\ job[w].pc = "member"
            /\ \A i \in 1..Len(index'[d].lines) : i > Len(index[d].lines) =>
                 \/ index'[d].lines[i] = Garbage
                 \/ index'[d].lines[i] = Line(w) /\ WriteEntry(w)
            /\ \A i \in 1..Len(poolIndex'[d].lines) : i > Len(poolIndex[d].lines) =>
                 \/ poolIndex'[d].lines[i].content = None
                 \/ /\ poolIndex'[d].lines[i].content = BlobOf[job[w].rec]
                    /\ poolIndex'[d].lines[i].off = open[w].blobOff
                    /\ SyncBlob(w)
<1> DEFINE d == D(w)
<1>1. d \in Day
  BY Active DEF Put, WriteBlob, WriteBlobFails, SyncBlob, SyncBlobFails,
         WriteMember, WriteMemberFails, SyncMember, SyncMemberFails, WriteEntry,
         WriteEntryFails, SyncEntry, SyncEntryFails
<1>2. /\ Len(data[d]) \in Nat /\ Len(index[d].lines) \in Nat
      /\ Len(poolIndex[d].lines) \in Nat
  BY <1>1, FilesOf
<1> HIDE DEF d
<1>3. ASSUME data' = data
      PROVE  \A k \in 1..Len(data'[d]) : ~(k > Len(data[d]))
  BY <1>2, <1>3
<1>4. ASSUME index' = index
      PROVE  \A i \in 1..Len(index'[d].lines) : ~(i > Len(index[d].lines))
  BY <1>2, <1>4
<1>5. ASSUME poolIndex' = poolIndex
      PROVE  \A i \in 1..Len(poolIndex'[d].lines) : ~(i > Len(poolIndex[d].lines))
  BY <1>2, <1>5
<1>6. ASSUME UNCHANGED files
      PROVE  OtherDays(w)
  BY <1>6 DEF files, OtherDays
<1>7. OtherDays(w)
  BY <1>6, WriteBlobDoes, WriteBlobFailsDoes, SyncBlobDoes, SyncBlobFailsDoes,
     WriteMemberDoes, WriteMemberFailsDoes, SyncMemberDoes, SyncMemberFailsDoes,
     WriteEntryDoes, WriteEntryFailsDoes, SyncEntryDoes, SyncEntryFailsDoes DEF Put
<1>8. \A k \in 1..Len(data'[d]) : k > Len(data[d]) =>
        data'[d][k][1] = Lifted(w) /\ job[w].pc = "member"
  <2>1. CASE WriteMember(w)
    BY <2>1, WriteMemberDoes DEF WriteMember, d
  <2>2. CASE WriteMemberFails(w)
    BY <2>2, WriteMemberFailsDoes DEF WriteMemberFails, d
  <2>3. CASE ~WriteMember(w) /\ ~WriteMemberFails(w)
    <3>1. data' = data
      BY <2>3 DEF files, Put, WriteBlob, WriteBlobFails, SyncBlob, SyncBlobFails,
         SyncMember, SyncMemberFails, WriteEntry, WriteEntryFails, SyncEntry, SyncEntryFails
    <3> QED BY <1>3, <3>1
  <2> QED BY <2>1, <2>2, <2>3
<1>9. \A i \in 1..Len(index'[d].lines) : i > Len(index[d].lines) =>
        \/ index'[d].lines[i] = Garbage
        \/ index'[d].lines[i] = Line(w) /\ WriteEntry(w)
  <2>1. CASE WriteEntry(w)
    <3>1. /\ index[d].torn => index'[d].lines = index[d].lines
          /\ ~index[d].torn =>
               /\ Len(index'[d].lines) = Len(index[d].lines) + 1
               /\ index'[d].lines[Len(index[d].lines) + 1] = Line(w)
      BY <2>1, WriteEntryDoes DEF d
    <3> HIDE DEF d
    <3> TAKE i \in 1..Len(index'[d].lines)
    <3> HAVE i > Len(index[d].lines)
    <3>2. i = Len(index[d].lines) + 1 /\ ~index[d].torn
      BY <1>2, <3>1
    <3> QED BY <2>1, <3>1, <3>2
  <2>2. CASE WriteEntryFails(w)
    BY <2>2, WriteEntryFailsDoes DEF d
  <2>3. CASE ~WriteEntry(w) /\ ~WriteEntryFails(w)
    <3>1. index' = index
      BY <2>3 DEF files, Put, WriteBlob, WriteBlobFails, SyncBlob, SyncBlobFails,
         WriteMember, WriteMemberFails, SyncMember, SyncMemberFails, SyncEntry, SyncEntryFails
    <3> QED BY <1>4, <3>1
  <2> QED BY <2>1, <2>2, <2>3
<1>10. \A i \in 1..Len(poolIndex'[d].lines) : i > Len(poolIndex[d].lines) =>
         \/ poolIndex'[d].lines[i].content = None
         \/ /\ poolIndex'[d].lines[i].content = BlobOf[job[w].rec]
            /\ poolIndex'[d].lines[i].off = open[w].blobOff
            /\ SyncBlob(w)
  <2>1. CASE SyncBlob(w)
    <3>1. \A i \in 1..Len(poolIndex'[d].lines) :
            \/ i <= Len(poolIndex[d].lines)
            \/ poolIndex'[d].lines[i].content = None
            \/ /\ poolIndex'[d].lines[i].content = BlobOf[job[w].rec]
               /\ poolIndex'[d].lines[i].off = open[w].blobOff
      BY <2>1, SyncBlobDoes DEF d
    <3> QED BY <1>2, <2>1, <3>1
  <2>2. CASE ~SyncBlob(w)
    <3>1. poolIndex' = poolIndex
      BY <2>2 DEF files, Put, WriteBlob, WriteBlobFails, SyncBlobFails,
         WriteMember, WriteMemberFails, SyncMember, SyncMemberFails, WriteEntry,
         WriteEntryFails, SyncEntry, SyncEntryFails
    <3> QED BY <1>5, <3>1
  <2> QED BY <2>1, <2>2
<1> QED BY <1>1, <1>7, <1>8, <1>9, <1>10 DEF d

LEMMA PutLinks ==
  ASSUME Typed, Working, Covered, Within, Linked, NEW w \in Writer, Put(w)
  PROVE  Linked'
<1> DEFINE d == D(w)
<1>1. /\ OtherDays(w) /\ d \in Day
      /\ \A k \in 1..Len(data'[d]) : k > Len(data[d]) =>
           data'[d][k][1] = Lifted(w) /\ job[w].pc = "member"
      /\ \A i \in 1..Len(index'[d].lines) : i > Len(index[d].lines) =>
           \/ index'[d].lines[i] = Garbage
           \/ index'[d].lines[i] = Line(w) /\ WriteEntry(w)
      /\ \A i \in 1..Len(poolIndex'[d].lines) : i > Len(poolIndex[d].lines) =>
           \/ poolIndex'[d].lines[i].content = None
           \/ /\ poolIndex'[d].lines[i].content = BlobOf[job[w].rec]
              /\ poolIndex'[d].lines[i].off = open[w].blobOff
              /\ SyncBlob(w)
  BY PutAdds
<1>2. Typed' /\ GrewDay(d)
  BY <1>1, PutGrows
<1>3. /\ data[d] \in Seq(MemberCell) /\ data'[d] \in Seq(MemberCell)
      /\ index[d].lines \in Seq(Entry) /\ index'[d].lines \in Seq(Entry)
      /\ poolIndex[d].lines \in Seq(Pointer) /\ poolIndex'[d].lines \in Seq(Pointer)
      /\ synced[d].data \in Nat /\ synced'[d].data \in Nat
      /\ synced[d].pool \in Nat /\ synced'[d].pool \in Nat
      /\ Len(data[d]) \in Nat /\ Len(index[d].lines) \in Nat
      /\ Len(poolIndex[d].lines) \in Nat
  BY <1>1, <1>2, FilesOf, FilesNext DEF Sizes
<1>4. /\ synced[d].data <= synced'[d].data /\ synced[d].pool <= synced'[d].pool
      /\ Same(data[d], data'[d], Len(data[d]))
      /\ Same(index[d].lines, index'[d].lines, Len(index[d].lines))
      /\ Same(poolIndex[d].lines, poolIndex'[d].lines, Len(poolIndex[d].lines))
  BY <1>2 DEF GrewDay, MoreSynced
<1>5. /\ MembersOk(d, data[d], synced[d].pool)
      /\ EntriesOk(d, index[d].lines, synced[d].data)
      /\ PointersOk(poolIndex[d].lines, synced[d].pool)
  BY <1>1 DEF Linked
<1>6. InBounds(open[w], job[w], data[d], pool[d], synced[d])
  BY <1>1, Constants DEF Within
<1>7. open[w].day = d /\ job[w] \in Job
  BY DEF D, Typed
<1> HIDE DEF d
<1>8. MembersOk(d, data'[d], synced'[d].pool)
  <2>1. ASSUME NEW k \in 1..Len(data'[d]), k > Len(data[d])
        PROVE  PtrOk(d, data'[d][k][1].rec, data'[d][k][1].ptr, synced'[d].pool)
    <3>1. data'[d][k][1] = [rec |-> job[w].rec, ptr |-> job[w].ptr] /\ job[w].pc = "member"
      BY <1>1, <2>1 DEF Lifted
    <3>2. PtrOk(d, job[w].rec, job[w].ptr, synced[d].pool)
      BY <1>6, <1>7, <3>1 DEF InBounds
    <3>3. job[w].ptr \in Nat
      BY <1>7 DEF Job
    <3>4. PtrOk(d, job[w].rec, job[w].ptr, synced'[d].pool)
      BY <1>3, <1>4, <3>2, <3>3, PtrStays
    <3> QED BY <3>1, <3>4
  <2> QED BY <1>3, <1>4, <1>5, <2>1, MembersStay
<1>9. EntriesOk(d, index'[d].lines, synced'[d].data)
  <2>1. ASSUME NEW i \in 1..Len(index'[d].lines), i > Len(index[d].lines),
               index'[d].lines[i].rec # None
        PROVE  DayOf[index'[d].lines[i].rec] = d /\ index'[d].lines[i].off + 2 <= synced'[d].data
    <3>1. index'[d].lines[i] = Line(w) /\ WriteEntry(w)
      BY <1>1, <2>1 DEF Garbage
    <3>2. job[w].pc = "entry" /\ synced' = synced
      BY <3>1 DEF WriteEntry
    <3>3. open[w].off + 2 <= synced[d].data /\ DayOf[job[w].rec] = d
      BY <1>6, <1>7, <3>2 DEF InBounds, PtrOk
    <3> QED BY <3>1, <3>2, <3>3 DEF Line
  <2>2. EntriesFrom(d, index'[d].lines, Len(index[d].lines), synced'[d].data)
    BY <2>1 DEF EntriesFrom
  <2> QED BY SMTT(20), <1>3, <1>4, <1>5, <2>2, EntriesStay
<1>10. PointersOk(poolIndex'[d].lines, synced'[d].pool)
  <2>1. ASSUME NEW i \in 1..Len(poolIndex'[d].lines), i > Len(poolIndex[d].lines),
               poolIndex'[d].lines[i].content # None
        PROVE  poolIndex'[d].lines[i].off + 2 <= synced'[d].pool
    <3>1. poolIndex'[d].lines[i].off = open[w].blobOff /\ SyncBlob(w)
      BY <1>1, <2>1
    <3>2. job[w].pc = "blobSync" /\ synced'[d].pool = Len(pool[d])
      BY <3>1, SyncBlobDoes DEF SyncBlob, d
    <3> QED BY <1>6, <3>1, <3>2 DEF InBounds
  <2> QED BY <1>3, <1>4, <1>5, <2>1, PointersStay
<1>11. ASSUME NEW e \in Day, e # d
       PROVE  /\ MembersOk(e, data'[e], synced'[e].pool)
              /\ EntriesOk(e, index'[e].lines, synced'[e].data)
              /\ PointersOk(poolIndex'[e].lines, synced'[e].pool)
  BY <1>1, <1>11 DEF OtherDays, Linked, d
<1> QED BY <1>8, <1>9, <1>10, <1>11 DEF Linked

LEMMA LinkedNext ==
  ASSUME Typed, Working, Covered, Within, Linked, Next
  PROVE  Linked'
<1>1. CASE PowerCut
  <2>1. Typed' /\ \A e \in Day : CutDay(e) /\ Durable(e)
    BY <1>1, PowerCutKeeps
  <2>2. ASSUME NEW d \in Day
        PROVE  /\ MembersOk(d, data'[d], synced'[d].pool)
               /\ EntriesOk(d, index'[d].lines, synced'[d].data)
               /\ PointersOk(poolIndex'[d].lines, synced'[d].pool)
    <3>1. /\ data[d] \in Seq(MemberCell) /\ data'[d] \in Seq(MemberCell)
          /\ index[d].lines \in Seq(Entry) /\ index'[d].lines \in Seq(Entry)
          /\ poolIndex[d].lines \in Seq(Pointer) /\ poolIndex'[d].lines \in Seq(Pointer)
          /\ synced[d].data \in Nat /\ synced'[d].data \in Nat
          /\ synced[d].pool \in Nat /\ synced'[d].pool \in Nat
          /\ Len(data'[d]) \in Nat /\ Len(index'[d].lines) \in Nat
          /\ Len(poolIndex'[d].lines) \in Nat
      BY <2>1, FilesOf, FilesNext DEF Sizes
    <3>2. /\ synced[d].data <= synced'[d].data /\ synced[d].pool <= synced'[d].pool
          /\ Same(data[d], data'[d], Len(data'[d]))
      BY <2>1 DEF CutDay
    <3>3. /\ MembersOk(d, data[d], synced[d].pool)
          /\ EntriesOk(d, index[d].lines, synced[d].data)
          /\ PointersOk(poolIndex[d].lines, synced[d].pool)
      BY DEF Linked
    <3>4. MembersOk(d, data'[d], synced'[d].pool)
      <4>1. \A k \in 1..Len(data'[d]) : ~(k > Len(data'[d]))
        BY <3>1
      <4> QED BY <3>1, <3>2, <3>3, <4>1, MembersStay
    <3>5. EntriesOk(d, index'[d].lines, synced'[d].data)
      <4>1. PICK k \in 0..Len(index'[d].lines) :
              /\ Same(index[d].lines, index'[d].lines, k)
              /\ \A i \in 1..Len(index'[d].lines) : i > k => index'[d].lines[i] = Garbage
        BY <2>1 DEF CutDay, LinesCut
      <4>2. Garbage.rec = None /\ k \in Nat
        BY <3>1 DEF Garbage
      <4>3. EntriesFrom(d, index'[d].lines, k, synced'[d].data)
        BY <4>1, <4>2 DEF EntriesFrom
      <4> QED BY SMTT(20), <3>1, <3>2, <3>3, <4>1, <4>2, <4>3, EntriesStay
    <3>6. PointersOk(poolIndex'[d].lines, synced'[d].pool)
      <4>1. PICK k \in 0..Len(poolIndex'[d].lines) :
              /\ Same(poolIndex[d].lines, poolIndex'[d].lines, k)
              /\ \A i \in 1..Len(poolIndex'[d].lines) :
                   i > k => poolIndex'[d].lines[i] = PoolGarbage
        BY <2>1 DEF CutDay, LinesCut
      <4>2. PoolGarbage.content = None /\ k \in Nat
        BY <3>1 DEF PoolGarbage
      <4> QED BY <3>1, <3>2, <3>3, <4>1, <4>2, PointersStay
    <3> QED BY <3>4, <3>5, <3>6
  <2> QED BY <2>2 DEF Linked
<1>2. ASSUME NEW w \in Writer, Call(w) \/ Kill(w)
      PROVE  Linked'
  BY <1>2, CallDoes, KillDoes DEF files, Linked
<1>3. ASSUME NEW w \in Writer, Put(w)
      PROVE  Linked'
  BY <1>3, PutLinks
<1> QED BY <1>1, <1>2, <1>3 DEF Next

-----------------------------------------------------------------------------
(* What was acknowledged stays listed. *)

LEMMA HasLineStays ==
  ASSUME NEW f, NEW g, NEW n \in Nat, NEW m \in Nat, n <= m, NEW r,
         Same(f, g, n), HasLine(f, n, r)
  PROVE  HasLine(g, m, r)
<1>1. PICK i \in 1..n : f[i].rec = r /\ f[i].clean
  BY DEF HasLine
<1>2. g[i] = f[i] /\ i \in 1..m
  BY DEF Same
<1> QED BY <1>1, <1>2 DEF HasLine

(* Only writing the line of an append leads to syncing it. *)
LEMMA EntrySyncEntered ==
  ASSUME Typed, Working, NEW w \in Writer, Own(w), job'[w].pc = "entrySync"
  PROVE  WriteEntry(w)
<1>1. Idle.pc = "idle"
  BY DEF Idle
<1>2. ASSUME Call(w)
      PROVE  FALSE
  <2>1. job[w].pc = "idle"
    BY <1>2, CallDoes
  <2>2. \/ job'[w] = job[w]
        \/ \E o \in Opened, r \in Record, how \in How : Starts(w, o, r, how)
    BY <1>2, CallDoes
  <2>3. PICK o \in Opened, r \in Record, how \in How : job'[w] = Started(r, how, o)
    BY <2>1, <2>2 DEF Starts
  <2> QED BY <2>3, Start, Constants
<1>3. ASSUME Kill(w)
      PROVE  FALSE
  BY <1>1, <1>3, KillDoes
<1>4. ASSUME Put(w), ~WriteEntry(w)
      PROVE  FALSE
  BY <1>1, <1>4, WriteBlobDoes, WriteBlobFailsDoes, SyncBlobDoes, SyncBlobFailsDoes,
     WriteMemberDoes, WriteMemberFailsDoes, SyncMemberDoes, SyncMemberFailsDoes,
     WriteEntryFailsDoes, SyncEntryDoes, SyncEntryFailsDoes DEF Put, KeepsJob
<1> QED BY <1>2, <1>3, <1>4 DEF Own

(* Only a sync of a line acknowledges. *)
LEMMA KeptBy ==
  ASSUME Typed, Working, NEW w \in Writer, Own(w), ~SyncEntry(w)
  PROVE  kept' = kept
BY DEF Own, Call, Begin, BeginFails, Kill, Put, history, WriteBlob, WriteBlobFails,
       SyncBlob, SyncBlobFails, WriteMember, WriteMemberFails, SyncMember,
       SyncMemberFails, WriteEntry, WriteEntryFails, SyncEntryFails

LEMMA KeptStays ==
  ASSUME Typed, Covered, Promised, Typed', \A e \in Day : Durable(e), NEW key \in kept
  PROVE  \E r \in Record :
           Key(r) = key /\ HasLine(index'[key[1]].lines, synced'[key[1]].index, r)
<1> DEFINE d == key[1]
<1>1. d \in Day
  BY DEF Typed
<1>2. PICK r \in Record : Key(r) = key /\ HasLine(index[d].lines, synced[d].index, r)
  BY DEF Promised
<1>3. /\ synced[d].index \in Nat /\ synced'[d].index \in Nat
      /\ synced[d].index <= synced'[d].index
      /\ Same(index[d].lines, index'[d].lines, synced[d].index)
  BY <1>1, MoreSizes DEF Durable
<1> HIDE DEF d
<1>4. HasLine(index'[d].lines, synced'[d].index, r)
  BY <1>2, <1>3, HasLineStays
<1> QED BY <1>2, <1>4 DEF d

LEMMA PromisedNext ==
  ASSUME Typed, Working, Covered, Promised, Next
  PROVE  Promised'
<1>1. CASE PowerCut
  <2>1. /\ Typed' /\ kept' = kept /\ \A e \in Day : Durable(e)
        /\ \A w \in Writer : job'[w] = Idle
    BY <1>1, PowerCutKeeps DEF history
  <2>2. \A w \in Writer : job'[w].pc # "entrySync"
    BY <2>1 DEF Idle
  <2> QED BY <2>1, <2>2, KeptStays DEF Promised
<1>2. ASSUME NEW w \in Writer, Own(w)
      PROVE  Promised'
  <2>1. /\ Typed' /\ Others(w) /\ \A e \in Day : GrewDay(e) /\ Durable(e)
    BY <1>2, OwnDoes
  <2>2. ASSUME NEW key \in kept'
        PROVE  \E r \in Record :
                 Key(r) = key /\ HasLine(index'[key[1]].lines, synced'[key[1]].index, r)
    <3>1. CASE key \in kept
      BY <2>1, <3>1, KeptStays
    <3>2. CASE key \notin kept
      <4>1. SyncEntry(w)
        BY <1>2, <2>2, <3>2, KeptBy
      <4>2. job[w].pc = "entrySync" /\ job[w].rec \in Record /\ D(w) \in Day
            /\ D(w) = DayOf[job[w].rec]
        BY <4>1, Active DEF SyncEntry
      <4>3. job[w].sound /\ key = Key(job[w].rec)
        BY <3>2, <4>1 DEF SyncEntry
      <4>4. key[1] = D(w)
        BY <4>2, <4>3 DEF Key
      <4>5. HasLine(index[D(w)].lines, Len(index[D(w)].lines), job[w].rec)
        BY <4>2, <4>3 DEF Promised
      <4>6. synced'[D(w)].index = Len(index[D(w)].lines) /\ index' = index
        BY <4>1, <4>2, SyncEntryDoes, FilesOf DEF Sizes
      <4> QED BY <4>2, <4>3, <4>4, <4>5, <4>6
    <3> QED BY <3>1, <3>2
  <2>3. ASSUME NEW v \in Writer, job'[v].pc = "entrySync", job'[v].sound
        PROVE  HasLine(index'[D(v)'].lines, Len(index'[D(v)'].lines), job'[v].rec)
    <3>1. CASE v # w
      <4> DEFINE d == D(v)
      <4>1. job'[v] = job[v] /\ D(v)' = d
        BY <2>1, <3>1 DEF Others, D
      <4>2. d \in Day /\ HasLine(index[d].lines, Len(index[d].lines), job[v].rec)
        BY <2>3, <4>1, Active DEF Promised
      <4>3. /\ Len(index[d].lines) \in Nat /\ Len(index'[d].lines) \in Nat
            /\ Same(index[d].lines, index'[d].lines, Len(index[d].lines))
        BY <2>1, <4>2, FilesOf, FilesNext DEF GrewDay
      <4> HIDE DEF d
      <4>4. Len(index[d].lines) <= Len(index'[d].lines)
        BY <4>3 DEF Same
      <4>5. HasLine(index'[d].lines, Len(index'[d].lines), job[v].rec)
        BY <4>2, <4>3, <4>4, HasLineStays
      <4> QED BY <4>1, <4>5
    <3>2. CASE v = w
      <4> DEFINE d == D(w)
      <4>1. WriteEntry(w)
        BY <1>2, <2>3, <3>2, EntrySyncEntered
      <4>2. /\ job'[w].rec = job[w].rec /\ job'[w].sound = (Clean(w) /\ ~index[d].torn)
            /\ ~index[d].torn => /\ Len(index'[d].lines) = Len(index[d].lines) + 1
                                 /\ index'[d].lines[Len(index[d].lines) + 1] = Line(w)
        BY <4>1, WriteEntryDoes
      <4>3. d \in Day /\ D(w)' = d
        <5>1. /\ open'[w] = [open[w] EXCEPT !.off = @ + 2,
                                            !.rids = RememberId(open[w], job[w].rec)]
          BY <4>1, WriteEntryDoes
        <5>2. open[w] \in Opened /\ d \in Day
          BY <4>1, LiftedType DEF WriteEntry
        <5> QED BY <5>1, <5>2 DEF Opened, D
      <4>4. Len(index[d].lines) \in Nat
        BY <4>3, FilesOf
      <4> HIDE DEF d
      <4>5. Line(w).rec = job[w].rec /\ (Line(w).clean <=> Clean(w))
        BY DEF Line
      <4>6. Clean(w) /\ ~index[d].torn
        BY <2>3, <3>2, <4>2
      <4>7. /\ Len(index[d].lines) + 1 \in 1..Len(index'[d].lines)
            /\ index'[d].lines[Len(index[d].lines) + 1] = Line(w)
        BY <4>2, <4>4, <4>6
      <4> QED BY <4>7, <3>2, <4>2, <4>3, <4>5, <4>6 DEF HasLine
    <3> QED BY <3>1, <3>2
  <2> QED BY <2>2, <2>3 DEF Promised
<1> QED BY <1>1, <1>2 DEF Next, Own

-----------------------------------------------------------------------------
(* The invariant of any number of writers. *)
Inv == Typed /\ Working /\ Covered /\ Within /\ Linked /\ Promised

LEMMA InvInit == Init => Inv
<1> SUFFICES ASSUME Init
             PROVE  Inv
  OBVIOUS
<1>1. Typed /\ Working
  BY TypedInit
<1>2. /\ \A d \in Day : /\ data[d] = <<>> /\ pool[d] = <<>> /\ index[d] = NoLines
                        /\ poolIndex[d] = NoLines /\ synced[d] = Nothing
      /\ \A w \in Writer : open[w] = Closed /\ job[w] = Idle
      /\ kept = {}
  BY DEF Init
<1>3. NoLines.lines = <<>> /\ Idle.pc = "idle" /\ Closed.day = None
  BY DEF NoLines, Idle, Closed
<1>4. Covered
  BY <1>2, <1>3 DEF Covered, Nothing
<1>5. Within
  BY <1>2, <1>3 DEF Within, D
<1>6. Linked
  BY <1>2, <1>3 DEF Linked, MembersOk, EntriesOk, PointersOk
<1>7. Promised
  BY <1>2, <1>3 DEF Promised
<1> QED BY <1>1, <1>4, <1>5, <1>6, <1>7 DEF Inv

LEMMA InvStep == Inv /\ [Next]_vars => Inv'
<1> SUFFICES ASSUME Inv, [Next]_vars
             PROVE  Inv'
  OBVIOUS
<1> USE DEF Inv
<1>1. CASE Next
  <2>1. Typed' /\ Working' /\ Covered'
    BY <1>1, OwnDoes, PowerCutKeeps DEF Next, Own
  <2> QED BY <1>1, <2>1, WithinNext, LinkedNext, PromisedNext
<1>2. CASE UNCHANGED vars
  <2> USE <1>2 DEF vars, files, history
  <2>1. Typed'
    BY DEF Typed
  <2>2. Working'
    BY DEF Working, Busy, D
  <2>3. Covered'
    BY DEF Covered
  <2>4. Within'
    BY DEF Within, D
  <2>5. Linked'
    BY DEF Linked
  <2>6. Promised'
    BY DEF Promised, D
  <2> QED BY <2>1, <2>2, <2>3, <2>4, <2>5, <2>6
<1> QED BY <1>1, <1>2

LEMMA Always == Spec => []Inv
BY InvInit, InvStep, PTL DEF Spec

LEMMA TypesFollow == Inv => TypeOK
<1> SUFFICES ASSUME Inv
             PROVE  TypeOK
  OBVIOUS
<1> USE DEF Inv
<1>1. ASSUME NEW d \in Day
      PROVE  /\ \A k \in DOMAIN data[d] : data[d][k] \in Member \X {1, 2}
             /\ \A k \in DOMAIN pool[d] : pool[d][k] \in Content \X {1, 2}
             /\ index[d] \in Lines(Entry) /\ poolIndex[d] \in Lines(Pointer)
             /\ synced[d] \in [data : 0..Len(data[d]), pool : 0..Len(pool[d]),
                               index : 0..Len(index[d].lines),
                               poolIndex : 0..Len(poolIndex[d].lines)]
  <2>1. /\ data[d] \in Seq(MemberCell) /\ pool[d] \in Seq(PoolCell)
        /\ index[d] \in Lines(Entry) /\ poolIndex[d] \in Lines(Pointer)
        /\ synced[d] \in Sizes
    BY FilesOf
  <2>2. \A k \in DOMAIN data[d] : data[d][k] \in MemberCell
    BY <2>1
  <2>3. \A k \in DOMAIN pool[d] : pool[d][k] \in PoolCell
    BY <2>1
  <2>4. /\ synced[d].data \in 0..Len(data[d]) /\ synced[d].pool \in 0..Len(pool[d])
        /\ synced[d].index \in 0..Len(index[d].lines)
        /\ synced[d].poolIndex \in 0..Len(poolIndex[d].lines)
    BY SizesOf
  <2>5. synced[d] \in [data : 0..Len(data[d]), pool : 0..Len(pool[d]),
                       index : 0..Len(index[d].lines),
                       poolIndex : 0..Len(poolIndex[d].lines)]
    BY <2>1, <2>4 DEF Sizes
  <2> QED BY <2>1, <2>2, <2>3, <2>5 DEF MemberCell, PoolCell
<1>2. \A w \in Writer : open[w].day # None =>
        open[w].off <= Len(data[D(w)]) /\ open[w].blobOff <= Len(pool[D(w)])
  BY DEF Within, InBounds, D
<1>3. /\ open \in [Writer -> Opened] /\ job \in [Writer -> Job]
      /\ tries \in 0..MaxTries /\ crashes \in 0..MaxCrash
      /\ acked \subseteq Day \X Rid /\ kept \subseteq acked /\ spoiled \subseteq Day
  BY DEF Typed
<1> QED BY <1>1, <1>2, <1>3 DEF TypeOK, Opened, Job, Pc

(* Every file, index line and offset is of its type, no process's offsets   *)
(* lie past the end of its files, and nothing is synced that is not there:  *)
(* for any number of processes appending at once.                           *)
THEOREM TypeCorrect == Spec => []TypeOK
BY Always, TypesFollow, PTL

LEMMA VisibleFollows == Inv => AckedVisible
<1> SUFFICES ASSUME Inv, NEW key \in kept
             PROVE  \E i \in Entries(key[1]) :
                      RidOf[index[key[1]].lines[i].rec] = key[2]
  BY DEF AckedVisible
<1> USE DEF Inv
<1> DEFINE d == key[1]
<1>1. d \in Day
  BY DEF Typed
<1>2. PICK r \in Record : Key(r) = key /\ HasLine(index[d].lines, synced[d].index, r)
  BY DEF Promised
<1>3. synced[d].index \in 0..Len(index[d].lines) /\ Len(index[d].lines) \in Nat
  BY <1>1, SizesOf, FilesOf
<1>4. PICK i \in 1..synced[d].index : index[d].lines[i].rec = r
  BY <1>2 DEF HasLine
<1>5. i \in Entries(d)
  BY <1>1, <1>3, <1>4, LinesOf, Constants
<1>6. RidOf[r] = key[2]
  BY <1>2 DEF Key
<1> QED BY <1>4, <1>5, <1>6

(* A record whose append returned nil is listed ever after, unless its line *)
(* was written behind a torn one or at a stale offset: whatever fails,      *)
(* whoever dies, wherever the power is cut and however many processes       *)
(* append, for nil is returned only once its line is synced.                *)
THEOREM AckedStaysVisible == Spec => []AckedVisible
BY Always, VisibleFollows, PTL

-----------------------------------------------------------------------------
(* One process appends: what the offsets point at.                          *)

LEMMA IsAtStays ==
  ASSUME NEW f, NEW g, NEW n \in Nat, Same(f, g, n), NEW off \in Nat, off + 2 <= n,
         NEW m, IsAt(f, off, m), Len(g) \in Nat
  PROVE  IsAt(g, off, m)
<1>1. off + 1 \in 1..n /\ off + 2 \in 1..n
  OBVIOUS
<1>2. g[off + 1] = f[off + 1] /\ g[off + 2] = f[off + 2] /\ off + 2 <= Len(g)
  BY <1>1 DEF Same
<1> QED BY <1>2 DEF IsAt

LEMMA InPoolStays ==
  ASSUME NEW p, NEW q, NEW n \in Nat, NEW m \in Nat, n <= m, Same(p, q, n), Len(q) \in Nat,
         NEW c, NEW at \in Nat, InPool(p, n, c, at)
  PROVE  InPool(q, m, c, at)
<1>1. at + 2 <= n /\ IsAt(p, at, c)
  BY DEF InPool
<1>2. IsAt(q, at, c)
  BY <1>1, IsAtStays
<1> QED BY <1>1, <1>2 DEF InPool

LEMMA HoldsStays ==
  ASSUME NEW f, NEW g, NEW p, NEW q, NEW s \in Sizes, NEW t \in Sizes,
         s.data <= t.data, s.pool <= t.pool, Same(f, g, s.data), Same(p, q, s.pool),
         Len(g) \in Nat, Len(q) \in Nat, NEW off \in Nat, NEW r, Holds(f, p, s, off, r)
  PROVE  Holds(g, q, t, off, r)
<1>1. s.data \in Nat /\ s.pool \in Nat /\ t.data \in Nat /\ t.pool \in Nat
  BY DEF Sizes
<1>2. off + 2 <= s.data
  BY DEF Holds
<1>3. PICK at \in 0..s.pool :
        /\ IsAt(f, off, [rec |-> r, ptr |-> at])
        /\ BlobOf[r] # None => InPool(p, s.pool, BlobOf[r], at)
  BY DEF Holds
<1>4. IsAt(g, off, [rec |-> r, ptr |-> at])
  BY <1>1, <1>2, <1>3, IsAtStays
<1>5. BlobOf[r] # None => InPool(q, t.pool, BlobOf[r], at)
  BY <1>1, <1>3, InPoolStays
<1>6. at \in 0..t.pool /\ off + 2 <= t.data
  BY <1>1, <1>2
<1> QED BY <1>4, <1>5, <1>6 DEF Holds

LEMMA PutEnd ==
  ASSUME Typed, Working, Covered, Within, AtEnd, NEW w \in Writer, Put(w)
  PROVE  Positioned(open'[w], job'[w], data'[D(w)], pool'[D(w)])
<1> DEFINE d == D(w)
<1>1. /\ d \in Day /\ open[w] \in Opened /\ job[w] \in Job /\ d # None
  BY Active, Constants DEF Put, WriteBlob, WriteBlobFails, SyncBlob, SyncBlobFails,
         WriteMember, WriteMemberFails, SyncMember, SyncMemberFails, WriteEntry,
         WriteEntryFails, SyncEntry, SyncEntryFails
<1>2. Positioned(open[w], job[w], data[d], pool[d])
  BY <1>1 DEF AtEnd
<1>3. /\ Len(data[d]) \in Nat /\ Len(pool[d]) \in Nat
      /\ open[w].off \in Nat /\ open[w].blobOff \in Nat
  BY <1>1, FilesOf DEF Opened
<1>4. Idle.pc = "idle"
  BY DEF Idle
<1> HIDE DEF d
<1>5. CASE WriteBlob(w)
  <2>1. /\ open' = open /\ job'[w].pc = "blobSync" /\ job'[w].rec = job[w].rec
        /\ Len(pool'[d]) = Len(pool[d]) + 2 /\ data' = data /\ job[w].pc = "blob"
        /\ IsAt(pool'[d], Len(pool[d]), BlobOf[job[w].rec])
    BY <1>5, WriteBlobDoes DEF KeepsJob, d, WriteBlob
  <2> QED BY <1>2, <1>3, <2>1 DEF Positioned, d
<1>6. CASE WriteBlobFails(w)
  <2>1. /\ open'[w] = [open[w] EXCEPT !.blobOff = Len(pool'[d]), !.behind = @ \ {"pool"}]
        /\ job'[w] = Idle /\ data' = data /\ job[w].pc = "blob"
    BY <1>6, WriteBlobFailsDoes DEF d, WriteBlobFails
  <2>2. /\ open'[w].off = open[w].off /\ open'[w].blobOff = Len(pool'[d])
        /\ open'[w].behind = open[w].behind \ {"pool"}
    BY <1>1, <2>1 DEF Opened
  <2> QED BY <1>2, <1>4, <2>1, <2>2 DEF Positioned, d
<1>7. CASE SyncBlob(w)
  <2>1. /\ open'[w].off = open[w].off /\ open'[w].behind = open[w].behind
        /\ open'[w].blobOff = open[w].blobOff + 2 /\ job'[w].pc = "member"
        /\ data' = data /\ pool' = pool /\ job[w].pc = "blobSync"
    BY <1>7, SyncBlobDoes DEF SyncBlob
  <2> QED BY <1>2, <2>1 DEF Positioned, d
<1>8. CASE SyncBlobFails(w)
  <2>1. /\ open'[w] = [open[w] EXCEPT !.behind = @ \cup {"pool"}] /\ job'[w] = Idle
        /\ data' = data /\ pool' = pool /\ job[w].pc = "blobSync"
    BY <1>8, SyncBlobFailsDoes DEF files, SyncBlobFails
  <2>2. open'[w].off = open[w].off /\ open'[w].behind = open[w].behind \cup {"pool"}
    BY <1>1, <2>1 DEF Opened
  <2> QED BY <1>2, <1>4, <2>1, <2>2 DEF Positioned, d
<1>9. CASE WriteMember(w)
  <2>1. /\ open' = open /\ job'[w].pc = "memberSync" /\ pool' = pool
        /\ Len(data'[d]) = Len(data[d]) + 2 /\ job'[w].rec = job[w].rec
        /\ job'[w].ptr = job[w].ptr /\ IsAt(data'[d], Len(data[d]), Lifted(w))
        /\ job[w].pc = "member"
    BY <1>9, WriteMemberDoes DEF KeepsJob, d, WriteMember
  <2> QED BY <1>2, <2>1 DEF Positioned, d, Lifted
<1>10. CASE WriteMemberFails(w)
  <2>1. /\ open'[w] = [open[w] EXCEPT !.off = Len(data'[d]), !.behind = @ \ {"data"}]
        /\ job'[w] = Idle /\ pool' = pool /\ job[w].pc = "member"
    BY <1>10, WriteMemberFailsDoes DEF d, WriteMemberFails
  <2>2. /\ open'[w].off = Len(data'[d]) /\ open'[w].blobOff = open[w].blobOff
        /\ open'[w].behind = open[w].behind \ {"data"}
    BY <1>1, <2>1 DEF Opened
  <2> QED BY <1>2, <1>4, <2>1, <2>2 DEF Positioned, d
<1>11. CASE SyncMember(w)
  <2>1. /\ open' = open /\ job'[w].pc = "entry" /\ pool' = pool /\ data' = data
        /\ job'[w].rec = job[w].rec /\ job'[w].ptr = job[w].ptr
        /\ job[w].pc = "memberSync"
    BY <1>11, SyncMemberDoes DEF KeepsJob, SyncMember
  <2> QED BY <1>2, <2>1 DEF Positioned, d
<1>12. CASE SyncMemberFails(w)
  <2>1. /\ open'[w] = [open[w] EXCEPT !.behind = @ \cup {"data"}] /\ job'[w] = Idle
        /\ data' = data /\ pool' = pool /\ job[w].pc = "memberSync"
    BY <1>12, SyncMemberFailsDoes DEF files, SyncMemberFails
  <2>2. open'[w].blobOff = open[w].blobOff /\ open'[w].behind = open[w].behind \cup {"data"}
    BY <1>1, <2>1 DEF Opened
  <2> QED BY <1>2, <1>4, <2>1, <2>2 DEF Positioned, d
<1>13. CASE WriteEntry(w)
  <2>1. /\ open'[w] = [open[w] EXCEPT !.off = @ + 2,
                                      !.rids = RememberId(open[w], job[w].rec)]
        /\ job'[w].pc = "entrySync" /\ data' = data /\ pool' = pool /\ job[w].pc = "entry"
    BY <1>13, WriteEntryDoes DEF WriteEntry
  <2>2. /\ open'[w].off = open[w].off + 2 /\ open'[w].blobOff = open[w].blobOff
        /\ open'[w].behind = open[w].behind
    BY <1>1, <2>1 DEF Opened
  <2> QED BY <1>2, <2>1, <2>2 DEF Positioned, d
<1>14. CASE WriteEntryFails(w)
  <2>1. /\ open'[w] = [open[w] EXCEPT !.behind = @ \cup {"data"}] /\ job'[w] = Idle
        /\ data' = data /\ pool' = pool /\ job[w].pc = "entry"
    BY <1>14, WriteEntryFailsDoes DEF WriteEntryFails
  <2>2. open'[w].blobOff = open[w].blobOff /\ open'[w].behind = open[w].behind \cup {"data"}
    BY <1>1, <2>1 DEF Opened
  <2> QED BY <1>2, <1>4, <2>1, <2>2 DEF Positioned, d
<1>15. CASE SyncEntry(w) \/ SyncEntryFails(w)
  <2>1. open' = open /\ job'[w] = Idle /\ data' = data /\ pool' = pool
        /\ job[w].pc = "entrySync"
    BY <1>15, SyncEntryDoes, SyncEntryFailsDoes DEF files, SyncEntry, SyncEntryFails
  <2> QED BY <1>2, <1>4, <2>1 DEF Positioned, d
<1> QED BY <1>5, <1>6, <1>7, <1>8, <1>9, <1>10, <1>11, <1>12, <1>13, <1>14, <1>15 DEF Put

(* What an append starts with. *)
LEMMA StartsWith ==
  ASSUME NEW w \in Writer, NEW o \in Opened, NEW r \in Record, NEW how \in How,
         Starts(w, o, r, how)
  PROVE  /\ job'[w].rec = r /\ job'[w].how = how /\ DayOf[r] = o.day
         /\ how = "new" => o.loaded /\ RidOf[r] \notin o.rids
         /\ BlobOf[r] # None => BlobOf[r] \in Content
         /\ \/ job'[w].pc = "blob"
            \/ /\ job'[w].pc = "member"
               /\ BlobOf[r] # None => /\ o.blobs[BlobOf[r]] # -1
                                      /\ job'[w].ptr = o.blobs[BlobOf[r]]
<1>1. how \in {"append", "new"}
  BY Constants
<1>2. job'[w] = Started(r, how, o)
  BY DEF Starts
<1>3. BlobOf[r] # None => BlobOf[r] \in Content
  BY Constants
<1> QED BY <1>1, <1>2, <1>3, Start DEF Starts

LEMMA CallEnd ==
  ASSUME Typed, Working, AtEnd, NEW w \in Writer, Call(w), D(w)' # None
  PROVE  Positioned(open'[w], job'[w], data[D(w)'], pool[D(w)'])
<1>1. PICK o \in Opened :
        /\ open'[w] = o /\ Opens(w, o) /\ o.day \in Day /\ D(w)' = o.day
        /\ \/ job'[w] = job[w]
           \/ \E r \in Record, how \in How : Starts(w, o, r, how)
  BY CallOpens
<1>2. job[w].pc = "idle"
  BY CallDoes
<1>3. job'[w].pc \in {"idle", "blob", "member"}
  BY <1>1, <1>2, StartsWith
<1>4. CASE D(w) = o.day
  <2>1. Positioned(open[w], job[w], data[o.day], pool[o.day])
    BY <1>1, <1>4, Constants DEF AtEnd
  <2>2. /\ o.off = open[w].off /\ o.blobOff = open[w].blobOff /\ o.behind = open[w].behind
    BY <1>1, <1>4 DEF Opens
  <2> QED BY <1>1, <1>2, <1>3, <2>1, <2>2 DEF Positioned
<1>5. CASE D(w) # o.day
  <2>1. /\ o.off = Len(data[o.day]) /\ o.blobOff = Len(pool[o.day]) /\ o.behind = {}
    BY <1>1, <1>5 DEF Opens
  <2> QED BY <1>1, <1>3, <2>1 DEF Positioned
<1> QED BY <1>4, <1>5

LEMMA AtEndNext ==
  ASSUME OneWriter, Typed, Working, Covered, Within, AtEnd, Next
  PROVE  AtEnd'
<1>1. CASE PowerCut
  <2>1. \A w \in Writer : open'[w] = Closed
    BY <1>1, PowerCutKeeps
  <2> QED BY <2>1 DEF AtEnd, D, Closed
<1>2. ASSUME NEW w \in Writer, Own(w)
      PROVE  AtEnd'
  <2> SUFFICES ASSUME NEW v \in Writer, D(v)' # None
               PROVE  Positioned(open'[v], job'[v], data'[D(v)'], pool'[D(v)'])
    BY DEF AtEnd
  <2>1. v = w
    BY DEF OneWriter
  <2>2. CASE Call(w)
    <3>1. data' = data /\ pool' = pool
      BY <2>2, CallDoes DEF files
    <3> QED BY <2>1, <2>2, <3>1, CallEnd
  <2>3. CASE Put(w)
    <3>1. D(w)' = D(w)
      BY <2>3, PutBounds DEF D
    <3> QED BY <2>1, <2>3, <3>1, PutEnd
  <2>4. CASE Kill(w)
    BY <2>1, <2>4, KillDoes DEF D, Closed
  <2> QED BY <1>2, <2>2, <2>3, <2>4 DEF Own
<1> QED BY <1>1, <1>2 DEF Next, Own

(* The dedup map and the pool's index stay right as a day goes on. *)
PointersSoundFrom(ls, l, p, n) ==
  \A i \in 1..Len(ls) :
    i > l /\ ls[i].content # None => InPool(p, n, ls[i].content, ls[i].off)

LEMMA PointersSoundStay ==
  ASSUME NEW ls \in Seq(Pointer), NEW new \in Seq(Pointer), NEW l \in Nat, Same(ls, new, l),
         NEW p, NEW q, NEW n \in Nat, NEW m \in Nat, n <= m, Same(p, q, n), Len(q) \in Nat,
         PointersSound(ls, p, n),
         PointersSoundFrom(new, l, q, m)
  PROVE  PointersSound(new, q, m)
<1> SUFFICES ASSUME NEW i \in 1..Len(new), new[i].content # None
             PROVE  InPool(q, m, new[i].content, new[i].off)
  BY DEF PointersSound
<1>1. CASE i > l
  BY <1>1 DEF PointersSoundFrom
<1>2. CASE ~(i > l)
  <2>1. i \in 1..Len(ls) /\ new[i] = ls[i]
    BY <1>2 DEF Same
  <2>2. new[i] \in Pointer
    OBVIOUS
  <2>3. new[i].off \in Nat
    BY <2>2 DEF Pointer
  <2>4. InPool(p, n, new[i].content, new[i].off)
    BY <2>1 DEF PointersSound
  <2> QED BY <2>3, <2>4, InPoolStays
<1> QED BY <1>1, <1>2

LEMMA ProcessSoundStays ==
  ASSUME NEW o \in Opened, NEW j \in Job, NEW p, NEW q, NEW n \in Nat, NEW m \in Nat,
         n <= m, Same(p, q, n), Len(q) \in Nat, ProcessSound(o, j, p, n)
  PROVE  ProcessSound(o, j, q, m)
<1>1. ASSUME NEW c \in Content, o.blobs[c] # -1
      PROVE  InPool(q, m, c, o.blobs[c])
  <2>1. o.blobs[c] \in Nat
    BY <1>1 DEF Opened
  <2>2. InPool(p, n, c, o.blobs[c])
    BY <1>1 DEF ProcessSound
  <2> QED BY <2>1, <2>2, InPoolStays
<1>2. ASSUME j.pc \in {"member", "memberSync", "entry"}, BlobOf[j.rec] # None
      PROVE  InPool(q, m, BlobOf[j.rec], j.ptr)
  <2>1. j.ptr \in Nat
    BY DEF Job
  <2>2. InPool(p, n, BlobOf[j.rec], j.ptr)
    BY <1>2 DEF ProcessSound
  <2> QED BY <2>1, <2>2, InPoolStays
<1> QED BY <1>1, <1>2 DEF ProcessSound

(* Only the sync of a value enters it in the dedup map. *)
LEMMA PutKeepsMap ==
  ASSUME Typed, Working, NEW w \in Writer, Put(w), ~SyncBlob(w)
  PROVE  /\ open'[w].blobs = open[w].blobs /\ spoiled' = spoiled
         /\ job'[w].pc \in {"member", "memberSync", "entry"} =>
              /\ job[w].pc \in {"member", "memberSync", "entry"}
              /\ job'[w].rec = job[w].rec /\ job'[w].ptr = job[w].ptr
<1>1. open[w] \in Opened /\ Idle.pc = "idle"
  BY Active DEF Idle
<1>2. CASE WriteBlob(w) \/ WriteMember(w) \/ SyncMember(w)
  <2>1. open' = open /\ spoiled' = spoiled
    BY <1>2 DEF WriteBlob, WriteMember, SyncMember, history
  <2>2. \/ job'[w].pc = "blobSync"
        \/ /\ job'[w].rec = job[w].rec /\ job'[w].ptr = job[w].ptr
           /\ job[w].pc \in {"member", "memberSync"}
    BY <1>2, WriteBlobDoes, WriteMemberDoes, SyncMemberDoes
       DEF KeepsJob, WriteMember, SyncMember
  <2> QED BY <2>1, <2>2
<1>3. CASE WriteBlobFails(w)
  <2>1. /\ open'[w] = [open[w] EXCEPT !.blobOff = Len(pool'[D(w)]), !.behind = @ \ {"pool"}]
        /\ job'[w] = Idle /\ spoiled' = spoiled
    BY <1>3, WriteBlobFailsDoes DEF WriteBlobFails, history
  <2> QED BY <1>1, <2>1 DEF Opened
<1>4. CASE SyncBlobFails(w)
  <2>1. /\ open'[w] = [open[w] EXCEPT !.behind = @ \cup {"pool"}]
        /\ job'[w] = Idle /\ spoiled' = spoiled
    BY <1>4, SyncBlobFailsDoes DEF history
  <2> QED BY <1>1, <2>1 DEF Opened
<1>5. CASE WriteMemberFails(w)
  <2>1. /\ open'[w] = [open[w] EXCEPT !.off = Len(data'[D(w)]), !.behind = @ \ {"data"}]
        /\ job'[w] = Idle /\ spoiled' = spoiled
    BY <1>5, WriteMemberFailsDoes DEF WriteMemberFails, history
  <2> QED BY <1>1, <2>1 DEF Opened
<1>6. CASE SyncMemberFails(w)
  <2>1. /\ open'[w] = [open[w] EXCEPT !.behind = @ \cup {"data"}]
        /\ job'[w] = Idle /\ spoiled' = spoiled
    BY <1>6, SyncMemberFailsDoes DEF history
  <2> QED BY <1>1, <2>1 DEF Opened
<1>7. CASE WriteEntry(w)
  <2>1. /\ open'[w] = [open[w] EXCEPT !.off = @ + 2,
                                      !.rids = RememberId(open[w], job[w].rec)]
        /\ job'[w].pc = "entrySync" /\ spoiled' = spoiled
    BY <1>7, WriteEntryDoes DEF history
  <2> QED BY <1>1, <2>1 DEF Opened
<1>8. CASE WriteEntryFails(w)
  <2>1. /\ open'[w] = [open[w] EXCEPT !.behind = @ \cup {"data"}]
        /\ job'[w] = Idle /\ spoiled' = spoiled
    BY <1>8, WriteEntryFailsDoes DEF history
  <2> QED BY <1>1, <2>1 DEF Opened
<1>9. CASE SyncEntry(w) \/ SyncEntryFails(w)
  <2>1. open' = open /\ job'[w] = Idle /\ spoiled' = spoiled
    BY <1>9, SyncEntryDoes, SyncEntryFailsDoes DEF history
  <2> QED BY <1>1, <2>1
<1> QED BY <1>2, <1>3, <1>4, <1>5, <1>6, <1>7, <1>8, <1>9 DEF Put

LEMMA PutPoolSound ==
  ASSUME Typed, Working, Covered, Within, AtEnd, PoolSound, NEW w \in Writer, Put(w),
         D(w) \notin spoiled'
  PROVE  /\ PointersSound(poolIndex'[D(w)].lines, pool'[D(w)], synced'[D(w)].pool)
         /\ ProcessSound(open'[w], job'[w], pool'[D(w)], synced'[D(w)].pool)
<1> DEFINE d == D(w)
           n == synced'[d].pool
<1>1. /\ d \in Day
      /\ \A i \in 1..Len(poolIndex'[d].lines) : i > Len(poolIndex[d].lines) =>
           \/ poolIndex'[d].lines[i].content = None
           \/ /\ poolIndex'[d].lines[i].content = BlobOf[job[w].rec]
              /\ poolIndex'[d].lines[i].off = open[w].blobOff
              /\ SyncBlob(w)
  BY PutAdds
<1>2. Typed' /\ GrewDay(d) /\ Durable(d)
  BY <1>1, PutGrows, GrewIsDurable
<1>3. d \notin spoiled
  BY PutKeepsMap DEF SyncBlob
<1>4. /\ poolIndex[d].lines \in Seq(Pointer) /\ poolIndex'[d].lines \in Seq(Pointer)
      /\ synced[d].pool \in Nat /\ n \in Nat
      /\ Len(pool'[d]) \in Nat /\ Len(poolIndex[d].lines) \in Nat
  BY <1>1, <1>2, FilesOf, FilesNext DEF Sizes
<1>5. /\ synced[d].pool <= n /\ Same(pool[d], pool'[d], synced[d].pool)
      /\ Same(poolIndex[d].lines, poolIndex'[d].lines, Len(poolIndex[d].lines))
  BY <1>2 DEF GrewDay, MoreSynced, Durable
<1>6. /\ PointersSound(poolIndex[d].lines, pool[d], synced[d].pool)
      /\ ProcessSound(open[w], job[w], pool[d], synced[d].pool)
  BY <1>1, <1>3 DEF PoolSound
<1>7. open[w] \in Opened /\ job[w] \in Job
  BY Active
<1>8. ProcessSound(open[w], job[w], pool'[d], n)
  BY <1>4, <1>5, <1>6, <1>7, ProcessSoundStays
<1>9. ASSUME SyncBlob(w)
      PROVE  InPool(pool'[d], n, BlobOf[job[w].rec], open[w].blobOff)
  <2>1. "pool" \notin open[w].behind
    BY <1>9 DEF SyncBlob, d
  <2>2. Positioned(open[w], job[w], data[d], pool[d])
    BY <1>1, Constants DEF AtEnd
  <2>3. n = Len(pool[d]) /\ pool' = pool /\ job[w].pc = "blobSync"
    BY <1>9, SyncBlobDoes DEF SyncBlob
  <2>4. Len(pool[d]) = open[w].blobOff + 2 /\ IsAt(pool[d], open[w].blobOff, BlobOf[job[w].rec])
    BY <2>1, <2>2, <2>3 DEF Positioned
  <2>5. open[w].blobOff + 2 <= n
    BY <1>4, <2>3, <2>4
  <2> QED BY <2>3, <2>4, <2>5 DEF InPool
<1> HIDE DEF d, n
<1>10. PointersSound(poolIndex'[d].lines, pool'[d], n)
  <2>1. PointersSoundFrom(poolIndex'[d].lines, Len(poolIndex[d].lines), pool'[d], n)
    BY <1>1, <1>9 DEF PointersSoundFrom
  <2> QED BY <1>4, <1>5, <1>6, <2>1, PointersSoundStay
<1>11. ProcessSound(open'[w], job'[w], pool'[d], n)
  <2>1. CASE SyncBlob(w)
    <3>1. /\ \A x \in Content : open'[w].blobs[x] = IF x = BlobOf[job[w].rec]
                                                    THEN open[w].blobOff
                                                    ELSE open[w].blobs[x]
          /\ job'[w].rec = job[w].rec /\ job'[w].ptr = open[w].blobOff
      BY <2>1, SyncBlobDoes
    <3> QED BY <1>8, <1>9, <2>1, <3>1 DEF ProcessSound
  <2>2. CASE ~SyncBlob(w)
    <3>1. /\ open'[w].blobs = open[w].blobs
          /\ job'[w].pc \in {"member", "memberSync", "entry"} =>
               /\ job[w].pc \in {"member", "memberSync", "entry"}
               /\ job'[w].rec = job[w].rec /\ job'[w].ptr = job[w].ptr
      BY <2>2, PutKeepsMap
    <3> QED BY <1>8, <3>1 DEF ProcessSound
  <2> QED BY <2>1, <2>2
<1> QED BY <1>10, <1>11 DEF d, n

LEMMA CallPoolSound ==
  ASSUME Typed, Working, PoolSound, NEW w \in Writer, Call(w), D(w)' \in Day \ spoiled
  PROVE  ProcessSound(open'[w], job'[w], pool[D(w)'], synced[D(w)'].pool)
<1>1. PICK o \in Opened :
        /\ open'[w] = o /\ Opens(w, o) /\ o.day \in Day /\ D(w)' = o.day
        /\ \/ job'[w] = job[w]
           \/ \E r \in Record, how \in How : Starts(w, o, r, how)
  BY CallOpens, Constants
<1>2. job[w].pc = "idle"
  BY CallDoes
<1> DEFINE d == o.day
<1>3. ASSUME NEW c \in Content, o.blobs[c] # -1
      PROVE  InPool(pool[d], synced[d].pool, c, o.blobs[c])
  <2>1. CASE D(w) = d
    <3>1. ProcessSound(open[w], job[w], pool[d], synced[d].pool)
      BY <1>1, <2>1 DEF PoolSound
    <3>2. o.blobs = open[w].blobs
      BY <1>1, <2>1 DEF Opens
    <3> QED BY <1>3, <3>1, <3>2 DEF ProcessSound
  <2>2. CASE D(w) # d
    <3>1. o.blobs = LoadBlobMap(d)
      BY <1>1, <2>2 DEF Opens
    <3>2. PICK i \in 1..Len(poolIndex[d].lines) :
              /\ poolIndex[d].lines[i].content = c
              /\ poolIndex[d].lines[i].off = LoadBlobMap(d)[c]
      BY <1>1, <1>3, <3>1, MapLoaded
    <3>3. PointersSound(poolIndex[d].lines, pool[d], synced[d].pool)
      BY <1>1 DEF PoolSound
    <3>4. c # None
      BY Constants
    <3> QED BY <3>1, <3>2, <3>3, <3>4 DEF PointersSound
  <2> QED BY <2>1, <2>2
<1>4. ASSUME job'[w].pc \in {"member", "memberSync", "entry"}, BlobOf[job'[w].rec] # None
      PROVE  InPool(pool[d], synced[d].pool, BlobOf[job'[w].rec], job'[w].ptr)
  <2>1. PICK r \in Record, how \in How : Starts(w, o, r, how)
    BY <1>1, <1>2, <1>4
  <2>2. job'[w].rec = r
    BY <2>1, StartsWith
  <2>3. /\ BlobOf[r] \in Content
        /\ o.blobs[BlobOf[r]] # -1 /\ job'[w].ptr = o.blobs[BlobOf[r]]
    BY <1>4, <2>1, <2>2, StartsWith
  <2> QED BY <1>3, <2>2, <2>3
<1> HIDE DEF d
<1>5. ProcessSound(o, job'[w], pool[d], synced[d].pool)
  BY <1>3, <1>4 DEF ProcessSound
<1> QED BY <1>1, <1>5 DEF d

LEMMA PoolSoundNext ==
  ASSUME OneWriter, Typed, Working, Covered, Within, AtEnd, PoolSound, Next
  PROVE  PoolSound'
<1>1. CASE PowerCut
  <2>1. /\ Typed' /\ spoiled' = spoiled /\ \A e \in Day : CutDay(e) /\ Durable(e)
        /\ \A w \in Writer : open'[w] = Closed
    BY <1>1, PowerCutKeeps DEF history
  <2>2. ASSUME NEW d \in Day \ spoiled
        PROVE  PointersSound(poolIndex'[d].lines, pool'[d], synced'[d].pool)
    <3>1. PointersSound(poolIndex[d].lines, pool[d], synced[d].pool)
      BY DEF PoolSound
    <3>2. /\ poolIndex[d].lines \in Seq(Pointer) /\ poolIndex'[d].lines \in Seq(Pointer)
          /\ synced[d].pool \in Nat /\ synced'[d].pool \in Nat
          /\ Len(pool'[d]) \in Nat /\ Len(poolIndex'[d].lines) \in Nat
      BY <2>1, FilesOf, FilesNext DEF Sizes
    <3>3. /\ synced[d].pool <= synced'[d].pool /\ Same(pool[d], pool'[d], synced[d].pool)
      BY <2>1 DEF Durable, MoreSynced
    <3>4. PICK k \in 0..Len(poolIndex'[d].lines) :
            /\ Same(poolIndex[d].lines, poolIndex'[d].lines, k)
            /\ \A i \in 1..Len(poolIndex'[d].lines) :
                 i > k => poolIndex'[d].lines[i] = PoolGarbage
      BY <2>1 DEF CutDay, LinesCut
    <3>5. PoolGarbage.content = None /\ k \in Nat
      BY <3>2 DEF PoolGarbage
    <3>6. PointersSoundFrom(poolIndex'[d].lines, k, pool'[d], synced'[d].pool)
      BY <3>4, <3>5 DEF PointersSoundFrom
    <3> QED BY <3>1, <3>2, <3>3, <3>4, <3>5, <3>6, PointersSoundStay
  <2>3. \A w \in Writer : D(w)' \notin Day
    BY <2>1, Constants DEF D, Closed
  <2> QED BY <2>1, <2>2, <2>3 DEF PoolSound
<1>2. ASSUME NEW w \in Writer, Own(w)
      PROVE  PoolSound'
  <2> SUFFICES ASSUME NEW d \in Day \ spoiled'
               PROVE  /\ PointersSound(poolIndex'[d].lines, pool'[d], synced'[d].pool)
                      /\ \A v \in Writer : D(v)' = d =>
                           ProcessSound(open'[v], job'[v], pool'[d], synced'[d].pool)
    BY DEF PoolSound
  <2>1. \A v \in Writer : v = w
    BY DEF OneWriter
  <2>2. CASE Call(w) \/ Kill(w)
    <3>1. UNCHANGED <<files, history>>
      BY <2>2, CallDoes, KillDoes
    <3>2. PointersSound(poolIndex[d].lines, pool[d], synced[d].pool) /\ d \notin spoiled
      BY <3>1 DEF history, PoolSound
    <3>3. D(w)' = d => Call(w)
      BY <2>2, KillDoes, Constants DEF D, Closed
    <3>4. D(w)' = d => ProcessSound(open'[w], job'[w], pool[d], synced[d].pool)
      BY <3>2, <3>3, CallPoolSound
    <3> QED BY <2>1, <3>1, <3>2, <3>4 DEF files
  <2>3. CASE Put(w)
    <3>1. D(w)' = D(w)
      BY <2>3, PutBounds DEF D
    <3>2. CASE d = D(w)
      BY <2>1, <2>3, <3>1, <3>2, PutPoolSound
    <3>3. CASE d # D(w)
      <4>1. poolIndex'[d] = poolIndex[d] /\ pool'[d] = pool[d] /\ synced'[d] = synced[d]
        BY <2>3, <3>3, PutAdds DEF OtherDays
      <4>2. d \notin spoiled
        BY <2>3, PutKeepsMap DEF SyncBlob
      <4>3. PointersSound(poolIndex[d].lines, pool[d], synced[d].pool)
        BY <4>2 DEF PoolSound
      <4> QED BY <2>1, <3>1, <3>3, <4>1, <4>3
    <3> QED BY <3>2, <3>3
  <2> QED BY <1>2, <2>2, <2>3 DEF Own
<1> QED BY <1>1, <1>2 DEF Next, Own

(* Every clean line written points at its record. *)
LinesHoldFrom(ls, l, f, p, s) ==
  \A i \in 1..Len(ls) :
    i > l /\ ls[i].rec # None /\ ls[i].clean => Holds(f, p, s, ls[i].off, ls[i].rec)

LEMMA LinesHoldStay ==
  ASSUME NEW ls \in Seq(Entry), NEW new \in Seq(Entry), NEW l \in Nat, Same(ls, new, l),
         NEW f, NEW g, NEW p, NEW q, NEW s \in Sizes, NEW t \in Sizes,
         s.data <= t.data, s.pool <= t.pool, Same(f, g, s.data), Same(p, q, s.pool),
         Len(g) \in Nat, Len(q) \in Nat,
         LinesHold(ls, f, p, s), LinesHoldFrom(new, l, g, q, t)
  PROVE  LinesHold(new, g, q, t)
<1> SUFFICES ASSUME NEW i \in 1..Len(new), new[i].rec # None, new[i].clean
             PROVE  Holds(g, q, t, new[i].off, new[i].rec)
  BY DEF LinesHold
<1>1. CASE i > l
  BY <1>1 DEF LinesHoldFrom
<1>2. CASE ~(i > l)
  <2>1. i \in 1..Len(ls) /\ new[i] = ls[i]
    BY <1>2 DEF Same
  <2>2. new[i] \in Entry
    OBVIOUS
  <2>3. new[i].off \in Nat
    BY <2>2 DEF Entry
  <2>4. Holds(f, p, s, new[i].off, new[i].rec)
    BY <2>1 DEF LinesHold
  <2> QED BY <2>3, <2>4, HoldsStays
<1> QED BY <1>1, <1>2

(* The line an append writes. *)
LEMMA LineHolds ==
  ASSUME Typed, Working, Covered, Within, AtEnd, PoolSound, NEW w \in Writer,
         WriteEntry(w), Line(w).clean
  PROVE  Holds(data[D(w)], pool[D(w)], synced[D(w)], open[w].off, job[w].rec)
<1> DEFINE d == D(w)
           b == BlobOf[job[w].rec]
<1>1. /\ d \in Day /\ job[w].rec \in Record /\ d # None /\ job[w].pc = "entry"
      /\ open[w].day = d /\ job[w] \in Job
  BY Active, Constants DEF WriteEntry, D
<1>2. /\ InBounds(open[w], job[w], data[d], pool[d], synced[d])
      /\ Positioned(open[w], job[w], data[d], pool[d])
  BY <1>1 DEF Within, AtEnd
<1>3. "data" \notin open[w].behind /\ (b # None => d \notin spoiled)
  BY DEF Line, Clean
<1>4. synced[d].pool \in Nat /\ job[w].ptr \in Nat
  BY <1>1, FilesOf DEF Sizes, Job
<1>5. b # None => InPool(pool[d], synced[d].pool, b, job[w].ptr)
  BY <1>1, <1>3 DEF PoolSound, ProcessSound
<1> HIDE DEF d
<1>6. /\ open[w].off + 2 <= synced[d].data
      /\ IsAt(data[d], open[w].off, [rec |-> job[w].rec, ptr |-> job[w].ptr])
      /\ PtrOk(d, job[w].rec, job[w].ptr, synced[d].pool)
  BY <1>1, <1>2, <1>3 DEF InBounds, Positioned
<1>7. job[w].ptr \in 0..synced[d].pool
  BY <1>4, <1>6 DEF PtrOk
<1> QED BY <1>5, <1>6, <1>7 DEF Holds, d

LEMMA EntriesSoundNext ==
  ASSUME OneWriter, Typed, Working, Covered, Within, AtEnd, PoolSound, EntriesSound, Next
  PROVE  EntriesSound'
<1>1. ASSUME NEW d \in Day, Typed', Durable(d), NEW l \in Nat,
             Same(index[d].lines, index'[d].lines, l),
             LinesHoldFrom(index'[d].lines, l, data'[d], pool'[d], synced'[d])
      PROVE  LinesHold(index'[d].lines, data'[d], pool'[d], synced'[d])
  <2>1. /\ index[d].lines \in Seq(Entry) /\ index'[d].lines \in Seq(Entry)
        /\ synced[d] \in Sizes /\ synced'[d] \in Sizes
        /\ Len(data'[d]) \in Nat /\ Len(pool'[d]) \in Nat
    BY <1>1, FilesOf, FilesNext
  <2>2. /\ synced[d].data <= synced'[d].data /\ synced[d].pool <= synced'[d].pool
        /\ Same(data[d], data'[d], synced[d].data)
        /\ Same(pool[d], pool'[d], synced[d].pool)
    BY <1>1 DEF Durable, MoreSynced
  <2>3. LinesHold(index[d].lines, data[d], pool[d], synced[d])
    BY DEF EntriesSound
  <2> QED BY <1>1, <2>1, <2>2, <2>3, LinesHoldStay
<1>2. CASE PowerCut
  <2> SUFFICES ASSUME NEW d \in Day
               PROVE  LinesHold(index'[d].lines, data'[d], pool'[d], synced'[d])
    BY DEF EntriesSound
  <2>1. Typed' /\ CutDay(d) /\ Durable(d)
    BY <1>2, PowerCutKeeps
  <2>2. PICK k \in 0..Len(index'[d].lines) :
          /\ Same(index[d].lines, index'[d].lines, k)
          /\ \A i \in 1..Len(index'[d].lines) : i > k => index'[d].lines[i] = Garbage
    BY <2>1 DEF CutDay, LinesCut
  <2>3. Garbage.rec = None /\ k \in Nat
    BY <2>1, FilesNext DEF Garbage
  <2>4. LinesHoldFrom(index'[d].lines, k, data'[d], pool'[d], synced'[d])
    BY <2>2, <2>3 DEF LinesHoldFrom
  <2> QED BY <1>1, <2>1, <2>2, <2>3, <2>4
<1>3. ASSUME NEW w \in Writer, Call(w) \/ Kill(w)
      PROVE  EntriesSound'
  BY <1>3, CallDoes, KillDoes DEF files, EntriesSound
<1>4. ASSUME NEW w \in Writer, Put(w)
      PROVE  EntriesSound'
  <2> DEFINE d == D(w)
             l == Len(index[d].lines)
  <2>1. /\ OtherDays(w) /\ d \in Day
        /\ \A i \in 1..Len(index'[d].lines) : i > l =>
             \/ index'[d].lines[i] = Garbage
             \/ index'[d].lines[i] = Line(w) /\ WriteEntry(w)
    BY <1>4, PutAdds
  <2>2. Typed' /\ GrewDay(d) /\ Durable(d)
    BY <1>4, <2>1, PutGrows, GrewIsDurable
  <2>3. l \in Nat /\ Same(index[d].lines, index'[d].lines, l)
    BY <2>1, <2>2, FilesOf DEF GrewDay
  <2>4. LinesHoldFrom(index'[d].lines, l, data'[d], pool'[d], synced'[d])
    <3>1. ASSUME NEW i \in 1..Len(index'[d].lines), i > l,
                 index'[d].lines[i].rec # None, index'[d].lines[i].clean
          PROVE  Holds(data'[d], pool'[d], synced'[d], index'[d].lines[i].off,
                       index'[d].lines[i].rec)
      <4>1. index'[d].lines[i] = Line(w) /\ WriteEntry(w)
        BY <2>1, <3>1 DEF Garbage
      <4>2. Line(w).off = open[w].off /\ Line(w).rec = job[w].rec
        BY DEF Line
      <4>3. data' = data /\ pool' = pool /\ synced' = synced
        BY <4>1 DEF WriteEntry
      <4>4. Holds(data[d], pool[d], synced[d], open[w].off, job[w].rec)
        BY <3>1, <4>1, LineHolds
      <4> QED BY <4>1, <4>2, <4>3, <4>4
    <3> QED BY <3>1 DEF LinesHoldFrom
  <2>5. LinesHold(index'[d].lines, data'[d], pool'[d], synced'[d])
    BY <1>1, <2>1, <2>2, <2>3, <2>4
  <2>6. ASSUME NEW e \in Day, e # d
        PROVE  LinesHold(index'[e].lines, data'[e], pool'[e], synced'[e])
    BY <2>1, <2>6 DEF OtherDays, EntriesSound
  <2> QED BY <2>5, <2>6 DEF EntriesSound
<1> QED BY <1>2, <1>3, <1>4 DEF Next

-----------------------------------------------------------------------------
(* The ids a process keeps in memory are those of its day.                  *)

LEMMA RidsAre ==
  ASSUME Typed, NEW d \in Day
  PROVE  RidsOf(d) = RidsIn(index[d].lines)
BY LinesOf DEF RidsOf, RidsIn

RidsFrom(ls, l, r) ==
  \A i \in 1..Len(ls) : i > l => ls[i].rec = None \/ ls[i].rec = r

LEMMA RidsGrow ==
  ASSUME NEW f, NEW g, NEW l \in Nat, Len(f) \in Nat, Len(g) \in Nat, Same(f, g, l),
         NEW r, RidsFrom(g, l, r)
  PROVE  RidsIn(g) \subseteq RidsIn(f) \cup {RidOf[r]}
<1> SUFFICES ASSUME NEW i \in 1..Len(g), g[i].rec # None
             PROVE  RidOf[g[i].rec] \in RidsIn(f) \cup {RidOf[r]}
  BY DEF RidsIn
<1>1. CASE i > l
  BY <1>1 DEF RidsFrom
<1>2. CASE ~(i > l)
  <2>1. i \in 1..Len(f) /\ g[i] = f[i]
    BY <1>2 DEF Same
  <2> QED BY <2>1 DEF RidsIn
<1> QED BY <1>1, <1>2

(* The index gets one line at a time, from an append at its entry. *)
LEMMA PutLists ==
  ASSUME Typed, Working, Covered, NEW w \in Writer, Put(w)
  PROVE  LET d == D(w)
         IN /\ Len(index'[d].lines) <= Len(index[d].lines) + 1
            /\ \/ job[w].pc = "entry" /\ job'[w].pc \in {"idle", "entrySync"}
               \/ index' = index
<1> DEFINE d == D(w)
<1>1. d \in Day
  BY PutAdds
<1>2. Len(index[d].lines) \in Nat
  BY <1>1, FilesOf
<1> HIDE DEF d
<1>3. CASE WriteEntry(w)
  <2>1. /\ index[d].torn => index'[d].lines = index[d].lines
        /\ ~index[d].torn => Len(index'[d].lines) = Len(index[d].lines) + 1
        /\ job'[w].pc = "entrySync" /\ job[w].pc = "entry"
    BY <1>3, WriteEntryDoes DEF d, WriteEntry
  <2> QED BY <1>2, <2>1 DEF d
<1>4. CASE WriteEntryFails(w)
  <2>1. /\ Len(index'[d].lines) <= Len(index[d].lines) + 1
        /\ job'[w] = Idle /\ job[w].pc = "entry"
    BY <1>4, WriteEntryFailsDoes DEF WriteEntryFails, d
  <2>2. Idle.pc = "idle"
    BY DEF Idle
  <2> QED BY <2>1, <2>2 DEF d
<1>5. CASE ~WriteEntry(w) /\ ~WriteEntryFails(w)
  <2>1. index' = index
    BY <1>5 DEF files, Put, WriteBlob, WriteBlobFails, SyncBlob, SyncBlobFails,
       WriteMember, WriteMemberFails, SyncMember, SyncMemberFails, SyncEntry, SyncEntryFails
  <2> QED BY <1>2, <2>1 DEF d
<1> QED BY <1>3, <1>4, <1>5

LEMMA PutKeepsRids ==
  ASSUME Typed, Working, NEW w \in Writer, Put(w), ~WriteEntry(w)
  PROVE  /\ open'[w].loaded = open[w].loaded /\ open'[w].rids = open[w].rids
         /\ \/ job'[w].pc = "idle"
            \/ /\ job'[w].rec = job[w].rec /\ job'[w].how = job[w].how
               /\ job[w].pc \notin {"idle", "entrySync"}
<1>1. open[w] \in Opened /\ Idle.pc = "idle"
  BY Active DEF Idle
<1>2. CASE WriteBlob(w) \/ WriteMember(w) \/ SyncMember(w)
  <2>1. open' = open /\ job[w].pc \notin {"idle", "entrySync"}
    BY <1>2 DEF WriteBlob, WriteMember, SyncMember
  <2>2. job'[w].rec = job[w].rec /\ job'[w].how = job[w].how
    BY <1>2, WriteBlobDoes, WriteMemberDoes, SyncMemberDoes DEF KeepsJob
  <2> QED BY <2>1, <2>2
<1>3. CASE WriteBlobFails(w)
  <2>1. /\ open'[w] = [open[w] EXCEPT !.blobOff = Len(pool'[D(w)]), !.behind = @ \ {"pool"}]
        /\ job'[w] = Idle
    BY <1>3, WriteBlobFailsDoes
  <2> QED BY <1>1, <2>1 DEF Opened
<1>4. CASE SyncBlob(w)
  BY <1>4, SyncBlobDoes DEF SyncBlob
<1>5. CASE SyncBlobFails(w)
  <2>1. open'[w] = [open[w] EXCEPT !.behind = @ \cup {"pool"}] /\ job'[w] = Idle
    BY <1>5, SyncBlobFailsDoes
  <2> QED BY <1>1, <2>1 DEF Opened
<1>6. CASE WriteMemberFails(w)
  <2>1. /\ open'[w] = [open[w] EXCEPT !.off = Len(data'[D(w)]), !.behind = @ \ {"data"}]
        /\ job'[w] = Idle
    BY <1>6, WriteMemberFailsDoes
  <2> QED BY <1>1, <2>1 DEF Opened
<1>7. CASE SyncMemberFails(w)
  <2>1. open'[w] = [open[w] EXCEPT !.behind = @ \cup {"data"}] /\ job'[w] = Idle
    BY <1>7, SyncMemberFailsDoes
  <2> QED BY <1>1, <2>1 DEF Opened
<1>8. CASE WriteEntryFails(w)
  <2>1. open'[w] = [open[w] EXCEPT !.behind = @ \cup {"data"}] /\ job'[w] = Idle
    BY <1>8, WriteEntryFailsDoes
  <2> QED BY <1>1, <2>1 DEF Opened
<1>9. CASE SyncEntry(w) \/ SyncEntryFails(w)
  <2>1. open' = open /\ job'[w] = Idle
    BY <1>9, SyncEntryDoes, SyncEntryFailsDoes
  <2> QED BY <1>1, <2>1
<1> QED BY <1>2, <1>3, <1>4, <1>5, <1>6, <1>7, <1>8, <1>9 DEF Put

LEMMA PutRids ==
  ASSUME Typed, Working, Covered, RidsSound, NEW w \in Writer, Put(w)
  PROVE  Remembers(open'[w], job'[w], index'[D(w)].lines)
<1> DEFINE d == D(w)
           l == Len(index[d].lines)
           r == job[w].rec
<1>1. /\ d \in Day
      /\ \A i \in 1..Len(index'[d].lines) : i > l =>
           \/ index'[d].lines[i] = Garbage
           \/ index'[d].lines[i] = Line(w) /\ WriteEntry(w)
  BY PutAdds
<1>2. Typed' /\ GrewDay(d)
  BY <1>1, PutGrows
<1>3. /\ l \in Nat /\ Len(index'[d].lines) \in Nat
      /\ Same(index[d].lines, index'[d].lines, l)
  BY <1>1, <1>2, FilesOf, FilesNext DEF GrewDay
<1>4. Remembers(open[w], job[w], index[d].lines)
  BY <1>1, Constants DEF RidsSound
<1>5. Garbage.rec = None /\ Line(w).rec = r
  BY DEF Garbage, Line
<1> HIDE DEF d, r
<1>6. CASE WriteEntry(w)
  <2>1. RidsFrom(index'[d].lines, l, r)
    BY <1>1, <1>5 DEF RidsFrom
  <2>2. RidsIn(index'[d].lines) \subseteq RidsIn(index[d].lines) \cup {RidOf[r]}
    BY <1>3, <2>1, RidsGrow
  <2>3. /\ open'[w] = [open[w] EXCEPT !.off = @ + 2, !.rids = RememberId(open[w], r)]
        /\ job'[w].pc = "entrySync"
    BY <1>6, WriteEntryDoes DEF r
  <2>4. open[w] \in Opened
    BY Active
  <2>5. open'[w].loaded = open[w].loaded /\ open'[w].rids = RememberId(open[w], r)
    BY <2>3, <2>4 DEF Opened
  <2> QED BY <1>4, <2>2, <2>3, <2>5 DEF Remembers, RememberId, d
<1>7. CASE ~WriteEntry(w)
  <2>1. RidsIn(index'[d].lines) \subseteq RidsIn(index[d].lines)
    <3>1. ASSUME NEW i \in 1..Len(index'[d].lines), index'[d].lines[i].rec # None
          PROVE  RidOf[index'[d].lines[i].rec] \in RidsIn(index[d].lines)
      <4>1. ~(i > l)
        BY <1>1, <1>5, <1>7, <3>1
      <4>2. i \in 1..Len(index[d].lines) /\ index'[d].lines[i] = index[d].lines[i]
        BY <1>3, <4>1 DEF Same
      <4> QED BY <3>1, <4>2 DEF RidsIn
    <3> QED BY <3>1 DEF RidsIn
  <2>2. /\ open'[w].loaded = open[w].loaded /\ open'[w].rids = open[w].rids
        /\ \/ job'[w].pc = "idle"
           \/ /\ job'[w].rec = job[w].rec /\ job'[w].how = job[w].how
              /\ job[w].pc \notin {"idle", "entrySync"}
    BY <1>7, PutKeepsRids
  <2> QED BY <1>4, <2>1, <2>2 DEF Remembers, d
<1> QED BY <1>6, <1>7

LEMMA CallRids ==
  ASSUME Typed, Working, RidsSound, NEW w \in Writer, Call(w)
  PROVE  IF D(w)' = None THEN ~open'[w].loaded
         ELSE Remembers(open'[w], job'[w], index[D(w)'].lines)
<1>1. job[w].pc = "idle"
  BY CallDoes
<1>2. CASE D(w)' = None
  <2>1. \/ open'[w] = Closed
        \/ \E o \in Opened : open'[w] = o /\ Opens(w, o)
    BY CallDoes
  <2> QED BY <1>2, <2>1, Constants DEF D, Closed, Opens
<1>3. CASE D(w)' # None
  <2>1. PICK o \in Opened :
          /\ open'[w] = o /\ Opens(w, o) /\ o.day \in Day /\ D(w)' = o.day
          /\ \/ job'[w] = job[w]
             \/ \E r \in Record, how \in How : Starts(w, o, r, how)
    BY <1>3, CallOpens
  <2> DEFINE ls == index[o.day].lines
  <2>2. RidsOf(o.day) = RidsIn(ls)
    BY <2>1, RidsAre
  <2>3. o.loaded => RidsIn(ls) \subseteq o.rids
    <3>1. CASE o.loaded /\ o.rids = RidsOf(o.day)
      BY <2>2, <3>1
    <3>2. CASE D(w) = o.day /\ open[w].loaded /\ o.rids = open[w].rids
      <4>1. Remembers(open[w], job[w], ls)
        BY <2>1, <3>2, Constants DEF RidsSound
      <4> QED BY <3>2, <4>1 DEF Remembers
    <3> QED BY <2>1, <3>1, <3>2 DEF Opens
  <2>4. ASSUME job'[w].how = "new", job'[w].pc \notin {"idle", "entrySync"}
        PROVE  RidOf[job'[w].rec] \notin RidsIn(ls)
    <3>1. PICK r \in Record, how \in How : Starts(w, o, r, how)
      BY <1>1, <2>1, <2>4
    <3>2. job'[w].rec = r /\ o.loaded /\ RidOf[r] \notin o.rids
      BY <2>4, <3>1, StartsWith
    <3> QED BY <2>3, <3>2
  <2> HIDE DEF ls
  <2>5. Remembers(o, job'[w], ls)
    BY <2>3, <2>4 DEF Remembers
  <2> QED BY <1>3, <2>1, <2>5 DEF ls
<1> QED BY <1>2, <1>3

LEMMA RidsSoundNext ==
  ASSUME OneWriter, Typed, Working, Covered, Within, RidsSound, Next
  PROVE  RidsSound'
<1>1. Closed.day = None /\ ~Closed.loaded
  BY DEF Closed
<1>2. CASE PowerCut
  <2>1. \A w \in Writer : open'[w] = Closed
    BY <1>2, PowerCutKeeps
  <2> QED BY <1>1, <2>1 DEF RidsSound, D
<1>3. ASSUME NEW w \in Writer, Own(w)
      PROVE  RidsSound'
  <2>1. \A v \in Writer : v = w
    BY DEF OneWriter
  <2> SUFFICES IF D(w)' = None THEN ~open'[w].loaded
               ELSE Remembers(open'[w], job'[w], index'[D(w)'].lines)
    BY <2>1 DEF RidsSound
  <2>2. CASE Call(w)
    <3>1. index' = index
      BY <2>2, CallDoes DEF files
    <3> QED BY <2>2, <3>1, CallRids
  <2>3. CASE Put(w)
    <3>1. D(w)' = D(w) /\ D(w) \in Day
      BY <2>3, PutBounds DEF D
    <3> QED BY <2>3, <3>1, PutRids, Constants
  <2>4. CASE Kill(w)
    BY <1>1, <2>4, KillDoes DEF D
  <2> QED BY <1>3, <2>2, <2>3, <2>4 DEF Own
<1> QED BY <1>2, <1>3 DEF Next, Own

(* All that comes after line l is one whose id is new, if it says so. *)
OneMore(f, g, l) ==
  /\ Len(g) <= l + 1
  /\ g[l + 1].how = "new" => RidOf[g[l + 1].rec] \notin RidsIn(f)

LEMMA NewAreNewStay ==
  ASSUME NEW f, NEW g, NEW l \in Nat, Len(f) \in Nat, Len(g) \in Nat, Same(f, g, l),
         NewAreNew(f), RidsFrom(g, l, None) \/ OneMore(f, g, l)
  PROVE  NewAreNew(g)
<1> SUFFICES ASSUME NEW i \in 1..Len(g), NEW j \in 1..Len(g), i < j,
                    g[i].rec # None, g[j].rec # None,
                    RidOf[g[i].rec] = RidOf[g[j].rec], g[j].how = "new"
             PROVE  FALSE
  BY DEF NewAreNew
<1>1. CASE ~(j > l)
  <2>1. /\ i \in 1..Len(f) /\ g[i] = f[i] /\ j \in 1..Len(f) /\ g[j] = f[j]
    BY <1>1 DEF Same
  <2> QED BY <2>1 DEF NewAreNew
<1>2. CASE j > l
  <2>1. /\ Len(g) <= l + 1
        /\ g[l + 1].how = "new" => RidOf[g[l + 1].rec] \notin RidsIn(f)
    BY <1>2 DEF RidsFrom, OneMore
  <2>2. j = l + 1 /\ i \in 1..Len(f) /\ g[i] = f[i]
    BY <1>2, <2>1 DEF Same
  <2>3. RidOf[f[i].rec] \in RidsIn(f)
    BY <2>2 DEF RidsIn
  <2> QED BY <2>1, <2>2, <2>3
<1> QED BY <1>1, <1>2

LEMMA UnrepeatedNext ==
  ASSUME Typed, Working, Covered, RidsSound, Unrepeated, Next
  PROVE  Unrepeated'
<1>1. CASE PowerCut
  <2> SUFFICES ASSUME NEW d \in Day
               PROVE  NewAreNew(index'[d].lines)
    BY DEF Unrepeated
  <2>1. Typed' /\ CutDay(d) /\ Durable(d)
    BY <1>1, PowerCutKeeps
  <2>2. PICK k \in 0..Len(index'[d].lines) :
          /\ Same(index[d].lines, index'[d].lines, k)
          /\ \A i \in 1..Len(index'[d].lines) : i > k => index'[d].lines[i] = Garbage
    BY <2>1 DEF CutDay, LinesCut
  <2>3. Garbage.rec = None /\ k \in Nat
    BY <2>1, FilesNext DEF Garbage
  <2>4. RidsFrom(index'[d].lines, k, None)
    BY <2>2, <2>3 DEF RidsFrom
  <2>5. Len(index[d].lines) \in Nat /\ Len(index'[d].lines) \in Nat
    BY <2>1, FilesOf, FilesNext
  <2>6. NewAreNew(index[d].lines)
    BY DEF Unrepeated
  <2> QED BY <2>2, <2>3, <2>4, <2>5, <2>6, NewAreNewStay
<1>2. ASSUME NEW w \in Writer, Call(w) \/ Kill(w)
      PROVE  Unrepeated'
  BY <1>2, CallDoes, KillDoes DEF files, Unrepeated
<1>3. ASSUME NEW w \in Writer, Put(w)
      PROVE  Unrepeated'
  <2> DEFINE d == D(w)
             f == index[d].lines
             g == index'[d].lines
  <2>1. /\ OtherDays(w) /\ d \in Day
        /\ \A i \in 1..Len(g) : i > Len(f) =>
             g[i] = Garbage \/ (g[i] = Line(w) /\ WriteEntry(w))
    BY <1>3, PutAdds
  <2>2. Typed' /\ GrewDay(d)
    BY <1>3, <2>1, PutGrows
  <2>3. Len(f) \in Nat /\ Len(g) \in Nat /\ Same(f, g, Len(f)) /\ NewAreNew(f)
    BY <2>1, <2>2, FilesOf, FilesNext DEF GrewDay, Unrepeated
  <2>4. NewAreNew(g)
    <3>1. CASE WriteEntry(w) /\ ~index[d].torn
      <4>1. Len(g) = Len(f) + 1 /\ g[Len(f) + 1] = Line(w)
        BY <3>1, WriteEntryDoes
      <4>2. Remembers(open[w], job[w], f) /\ job[w].pc = "entry"
        BY <2>1, <3>1, Constants DEF RidsSound, WriteEntry
      <4>3. Line(w).rec = job[w].rec /\ Line(w).how = job[w].how
        BY DEF Line
      <4>4. Line(w).how = "new" => RidOf[job[w].rec] \notin RidsIn(f)
        BY <4>2, <4>3 DEF Remembers
      <4> HIDE DEF f, g
      <4>5. OneMore(f, g, Len(f))
        BY <2>3, <4>1, <4>3, <4>4 DEF OneMore
      <4> QED BY <2>3, <4>5, NewAreNewStay
    <3>2. CASE ~(WriteEntry(w) /\ ~index[d].torn)
      <4>1. WriteEntry(w) => g = f
        BY <3>2, WriteEntryDoes
      <4>2. Garbage.rec = None
        BY DEF Garbage
      <4> HIDE DEF f, g
      <4>3. RidsFrom(g, Len(f), None)
        BY <2>1, <2>3, <4>1, <4>2 DEF RidsFrom
      <4> QED BY <2>3, <4>3, NewAreNewStay
    <3> QED BY <3>1, <3>2
  <2>5. ASSUME NEW e \in Day, e # d
        PROVE  NewAreNew(index'[e].lines)
    BY <2>1, <2>5 DEF OtherDays, Unrepeated
  <2> QED BY <2>4, <2>5 DEF Unrepeated
<1> QED BY <1>1, <1>2, <1>3 DEF Next

(* There are fewer lines than appends. *)
LEMMA CountedNext ==
  ASSUME OneWriter, Typed, Working, Covered, Within, Counted, Next
  PROVE  Counted'
<1>1. tries \in Nat
  BY Constants DEF Typed
<1>2. CASE PowerCut
  <2>1. /\ Typed' /\ tries' = tries /\ \A e \in Day : CutDay(e)
        /\ \A w \in Writer : job'[w] = Idle
    BY <1>2, PowerCutKeeps
  <2>2. ASSUME NEW d \in Day
        PROVE  Len(index'[d].lines) <= tries
    BY <1>1, <2>1, FilesOf, FilesNext DEF CutDay, LinesCut, Counted
  <2> QED BY <2>1, <2>2 DEF Counted, Idle
<1>3. ASSUME NEW w \in Writer, Own(w)
      PROVE  Counted'
  <2>1. \A v \in Writer : v = w
    BY DEF OneWriter
  <2> SUFFICES ASSUME NEW d \in Day
               PROVE  /\ Len(index'[d].lines) <= tries'
                      /\ job'[w].pc \notin {"idle", "entrySync"} =>
                           Len(index'[d].lines) < tries'
    BY <2>1 DEF Counted
  <2>2. /\ Len(index[d].lines) \in Nat /\ Len(index[d].lines) <= tries
        /\ job[w].pc \notin {"idle", "entrySync"} => Len(index[d].lines) < tries
    BY FilesOf DEF Counted
  <2>3. CASE Call(w)
    BY <1>1, <2>2, <2>3, CallDoes DEF files
  <2>4. CASE Kill(w)
    BY <2>2, <2>4, KillDoes DEF files, Idle
  <2>5. CASE Put(w)
    <3>1. /\ OtherDays(w) /\ tries' = tries
          /\ Len(index'[D(w)].lines) <= Len(index[D(w)].lines) + 1
          /\ \/ job[w].pc = "entry" /\ job'[w].pc \in {"idle", "entrySync"}
             \/ index' = index
      BY <2>5, PutAdds, PutGrows, PutLists
    <3>2. Typed'
      BY <2>5, PutGrows
    <3>3. Len(index'[d].lines) \in Nat
      BY <3>2, FilesNext
    <3>4. CASE index' = index
      <4>1. job'[w].pc \notin {"idle", "entrySync"} => job[w].pc \notin {"idle", "entrySync"}
        BY <2>5, PutKeepsRids, WriteEntryDoes
      <4> QED BY <2>2, <3>1, <3>4, <4>1
    <3>5. CASE job[w].pc = "entry" /\ job'[w].pc \in {"idle", "entrySync"}
      <4>1. CASE d = D(w)
        BY <1>1, <2>2, <3>1, <3>3, <3>5, <4>1
      <4>2. CASE d # D(w)
        BY <1>1, <2>2, <3>1, <3>5, <4>2 DEF OtherDays
      <4> QED BY <4>1, <4>2
    <3> QED BY <3>1, <3>4, <3>5
  <2> QED BY <1>3, <2>3, <2>4, <2>5 DEF Own
<1> QED BY <1>2, <1>3 DEF Next, Own

-----------------------------------------------------------------------------
(* The invariant of one writer. *)
Inv1 == Inv /\ AtEnd /\ PoolSound /\ EntriesSound /\ RidsSound /\ Unrepeated /\ Counted

LEMMA Inv1Init == Init => Inv1
<1> SUFFICES ASSUME Init
             PROVE  Inv1
  OBVIOUS
<1>1. Inv
  BY InvInit
<1>2. /\ \A d \in Day : /\ data[d] = <<>> /\ pool[d] = <<>> /\ index[d] = NoLines
                        /\ poolIndex[d] = NoLines
      /\ \A w \in Writer : open[w] = Closed /\ job[w] = Idle
      /\ tries = 0
  BY DEF Init
<1>3. /\ NoLines.lines = <<>> /\ Idle.pc = "idle" /\ Closed.day = None /\ ~Closed.loaded
  BY DEF NoLines, Idle, Closed
<1>4. AtEnd
  BY <1>2, <1>3 DEF AtEnd, D
<1>5. PoolSound
  BY <1>2, <1>3, Constants DEF PoolSound, PointersSound, D
<1>6. EntriesSound
  BY <1>2, <1>3 DEF EntriesSound, LinesHold
<1>7. RidsSound
  BY <1>2, <1>3 DEF RidsSound, D
<1>8. Unrepeated
  BY <1>2, <1>3 DEF Unrepeated, NewAreNew
<1>9. Counted
  BY <1>2, <1>3 DEF Counted
<1> QED BY <1>1, <1>4, <1>5, <1>6, <1>7, <1>8, <1>9 DEF Inv1

LEMMA Inv1Step == ASSUME OneWriter PROVE Inv1 /\ [Next]_vars => Inv1'
<1> SUFFICES ASSUME Inv1, [Next]_vars
             PROVE  Inv1'
  OBVIOUS
<1>1. Inv'
  BY InvStep DEF Inv1
<1>2. Typed /\ Working /\ Covered /\ Within
  BY DEF Inv1, Inv
<1> USE DEF Inv1
<1>3. CASE Next
  <2>1. AtEnd'
    BY <1>2, <1>3, AtEndNext
  <2>2. PoolSound'
    BY <1>2, <1>3, PoolSoundNext
  <2>3. EntriesSound'
    BY <1>2, <1>3, EntriesSoundNext
  <2>4. RidsSound'
    BY <1>2, <1>3, RidsSoundNext
  <2>5. Unrepeated'
    BY <1>2, <1>3, UnrepeatedNext
  <2>6. Counted'
    BY <1>2, <1>3, CountedNext
  <2> QED BY <1>1, <2>1, <2>2, <2>3, <2>4, <2>5, <2>6
<1>4. CASE UNCHANGED vars
  <2> USE <1>4 DEF vars, files, history
  <2>1. AtEnd'
    BY DEF AtEnd, D
  <2>2. PoolSound'
    BY DEF PoolSound, D
  <2>3. EntriesSound'
    BY DEF EntriesSound
  <2>4. RidsSound'
    BY DEF RidsSound, D
  <2>5. Unrepeated'
    BY DEF Unrepeated
  <2>6. Counted'
    BY DEF Counted
  <2> QED BY <1>1, <2>1, <2>2, <2>3, <2>4, <2>5, <2>6
<1> QED BY <1>3, <1>4

LEMMA Always1 == ASSUME OneWriter PROVE Spec => []Inv1
<1>1. Init => Inv1
  BY Inv1Init
<1>2. Inv1 /\ [Next]_vars => Inv1'
  BY Inv1Step
<1> QED BY <1>1, <1>2, PTL DEF Spec

(* A record of a day and the pool it lifts from read back as one record.    *)
LEMMA FetchedOne ==
  ASSUME NEW f, NEW off, NEW m, NEW n, IsAt(f, off, m), IsAt(f, off, n)
  PROVE  m = n
BY DEF IsAt

LEMMA HoldsResolves ==
  ASSUME Typed, Covered, NEW d \in Day, NEW e, e.rec \in Record,
         Holds(data[d], pool[d], synced[d], e.off, e.rec)
  PROVE  Resolves(d, e)
<1>1. PICK at \in 0..synced[d].pool :
        /\ IsAt(data[d], e.off, [rec |-> e.rec, ptr |-> at])
        /\ BlobOf[e.rec] # None => InPool(pool[d], synced[d].pool, BlobOf[e.rec], at)
  BY DEF Holds
<1>2. at \in 0..Len(pool[d])
  BY SizesOf, FilesOf
<1>3. e.rec \in Fetched(d, e)
  BY <1>1, <1>2 DEF Fetched, InPool
<1>4. ASSUME NEW r \in Fetched(d, e)
      PROVE  r = e.rec
  <2>1. PICK p \in 0..Len(pool[d]) : IsAt(data[d], e.off, [rec |-> r, ptr |-> p])
    BY DEF Fetched
  <2>2. [rec |-> r, ptr |-> p] = [rec |-> e.rec, ptr |-> at]
    BY <1>1, <2>1, FetchedOne
  <2>3. [rec |-> r, ptr |-> p].rec = [rec |-> e.rec, ptr |-> at].rec
    BY <2>2
  <2> QED BY <2>3
<1> QED BY <1>3, <1>4 DEF Resolves

(* With one process appending, every entry written at a right offset reads  *)
(* back its own record and the value it lifted, after any sequence of short *)
(* writes, failed syncs, kills and power cuts (archive.go, appendLocked;    *)
(* blob.go, putBlobLocked).                                                 *)
THEOREM EntriesReadBack == ASSUME OneWriter PROVE Spec => []CleanEntriesResolve
<1>1. Inv1 => CleanEntriesResolve
  <2> SUFFICES ASSUME Inv1, NEW d \in Day, NEW i \in Entries(d), index[d].lines[i].clean
               PROVE  Resolves(d, index[d].lines[i])
    BY DEF CleanEntriesResolve
  <2>1. Typed /\ Covered /\ EntriesSound
    BY DEF Inv1, Inv
  <2>2. /\ i \in 1..Len(index[d].lines) /\ index[d].lines[i].rec # None
        /\ index[d].lines[i].rec \in Record
    BY <2>1, LinesOf
  <2>3. Holds(data[d], pool[d], synced[d], index[d].lines[i].off, index[d].lines[i].rec)
    BY <2>1, <2>2 DEF EntriesSound, LinesHold
  <2> QED BY <2>1, <2>2, <2>3, HoldsResolves
<1>2. Spec => []Inv1
  BY Always1
<1> QED BY <1>1, <1>2, PTL

(* With one process appending, AppendNew never adds an entry for an id that *)
(* its day has: the ids it keeps in memory miss none of the day's, over     *)
(* failed writes, restarts and changes of day (archive.go, AppendNew).      *)
THEOREM NewOnlyOnce == ASSUME OneWriter PROVE Spec => []NewNeverDuplicates
<1>1. Inv1 => NewNeverDuplicates
  <2> SUFFICES ASSUME Inv1, NEW d \in Day, NEW i \in Entries(d), NEW j \in Entries(d),
                      i < j, RidOf[index[d].lines[i].rec] = RidOf[index[d].lines[j].rec]
               PROVE  index[d].lines[j].how # "new"
    BY DEF NewNeverDuplicates
  <2>1. Typed /\ Unrepeated
    BY DEF Inv1, Inv
  <2>2. /\ i \in 1..Len(index[d].lines) /\ index[d].lines[i].rec # None
        /\ j \in 1..Len(index[d].lines) /\ index[d].lines[j].rec # None
    BY <2>1, LinesOf
  <2> QED BY <2>1, <2>2 DEF Unrepeated, NewAreNew
<1>2. Spec => []Inv1
  BY Always1
<1> QED BY <1>1, <1>2, PTL

-----------------------------------------------------------------------------
(* The files implement RecordStore.                                         *)

(* What reads back at an offset, and what a reader finds in a day. *)
Reads(f, p, off) ==
  {r \in Record :
     \E at \in 0..Len(p) :
       /\ IsAt(f, off, [rec |-> r, ptr |-> at])
       /\ BlobOf[r] # None => IsAt(p, at, BlobOf[r])}
Finds(ls, f, p) ==
  {x \in (1..Len(ls)) \X Record :
     ls[x[1]].rec # None /\ x[2] \in Reads(f, p, ls[x[1]].off)}

LEMMA ShownIs ==
  ASSUME Typed
  PROVE  Shown = [d \in Day |-> Finds(index[d].lines, data[d], pool[d])]
<1>1. ASSUME NEW d \in Day
      PROVE  UNION {{<<i, r>> : r \in Fetched(d, index[d].lines[i])} : i \in Entries(d)}
               = Finds(index[d].lines, data[d], pool[d])
  <2> DEFINE ls == index[d].lines
  <2>1. Entries(d) = {i \in 1..Len(ls) : ls[i].rec # None}
    BY LinesOf
  <2>2. \A i \in 1..Len(ls) : Fetched(d, ls[i]) = Reads(data[d], pool[d], ls[i].off)
    BY DEF Fetched, Reads
  <2>3. \A i \in 1..Len(ls) : Reads(data[d], pool[d], ls[i].off) \subseteq Record
    BY DEF Reads
  <2> HIDE DEF ls
  <2> QED BY <2>1, <2>2, <2>3 DEF Finds, ls
<1> QED BY <1>1 DEF Shown

LEMMA ShownNext ==
  ASSUME Typed'
  PROVE  Shown' = [d \in Day |-> Finds(index'[d].lines, data'[d], pool'[d])]
<1>1. ASSUME NEW d \in Day
      PROVE  UNION {{<<i, r>> : r \in Fetched(d, index[d].lines[i])'} : i \in Entries(d)'}
               = Finds(index'[d].lines, data'[d], pool'[d])
  <2> DEFINE ls == index'[d].lines
  <2>1. Entries(d)' = {i \in 1..Len(ls) : ls[i].rec # None}
    <3>1. DOMAIN ls = 1..Len(ls)
      BY FilesNext
    <3> QED BY <3>1 DEF Entries
  <2>2. \A i \in 1..Len(ls) : Fetched(d, index[d].lines[i])' = Reads(data'[d], pool'[d], ls[i].off)
    BY DEF Fetched, Reads
  <2>3. \A i \in 1..Len(ls) : Reads(data'[d], pool'[d], ls[i].off) \subseteq Record
    BY DEF Reads
  <2> HIDE DEF ls
  <2> QED BY <2>1, <2>2, <2>3 DEF Finds, ls
<1> QED BY <1>1 DEF Shown

(* What reads back at a synced offset stays, for its pointer is synced too. *)
LEMMA ReadsStay ==
  ASSUME NEW d, NEW f \in Seq(MemberCell), NEW g \in Seq(MemberCell),
         NEW m \in Nat, Same(f, g, m), NEW off \in Nat, off + 2 <= m,
         NEW p \in Seq(PoolCell), NEW q \in Seq(PoolCell), NEW n \in Nat, Same(p, q, n),
         MembersOk(d, f, n)
  PROVE  Reads(g, q, off) = Reads(f, p, off)
<1>1. off + 1 \in 1..m /\ off + 2 \in 1..m /\ m <= Len(f) /\ m <= Len(g)
      /\ n <= Len(p) /\ n <= Len(q)
      /\ Len(p) \in Nat /\ Len(q) \in Nat /\ Len(f) \in Nat /\ Len(g) \in Nat
  BY DEF Same
<1>2. \A x : IsAt(g, off, x) <=> IsAt(f, off, x)
  BY SMTT(20), <1>1 DEF IsAt, Same
<1>3. ASSUME NEW r \in Record, NEW at \in Nat, IsAt(f, off, [rec |-> r, ptr |-> at])
      PROVE  /\ BlobOf[r] = None => at = 0
             /\ BlobOf[r] # None => /\ at + 2 <= n
                                    /\ IsAt(q, at, BlobOf[r]) <=> IsAt(p, at, BlobOf[r])
  <2>1. f[off + 1][1] = [rec |-> r, ptr |-> at]
    BY <1>3 DEF IsAt
  <2>2. PtrOk(d, f[off + 1][1].rec, f[off + 1][1].ptr, n)
    BY <1>1 DEF MembersOk
  <2>3. PtrOk(d, r, at, n)
    BY <2>1, <2>2
  <2>4. ASSUME at + 2 <= n, NEW c
        PROVE  IsAt(q, at, c) <=> IsAt(p, at, c)
    <3>1. at + 1 \in 1..n /\ at + 2 \in 1..n
      BY <2>4
    <3> QED BY SMTT(20), <1>1, <3>1 DEF IsAt, Same
  <2> QED BY <2>3, <2>4 DEF PtrOk
<1>4. ASSUME NEW r \in Record, NEW at \in Nat, IsAt(f, off, [rec |-> r, ptr |-> at])
      PROVE  at \in 0..Len(p) /\ at \in 0..Len(q)
  BY <1>1, <1>3, <1>4
<1>5. ASSUME NEW r \in Reads(g, q, off)
      PROVE  r \in Reads(f, p, off)
  <2>1. PICK at \in 0..Len(q) : /\ IsAt(g, off, [rec |-> r, ptr |-> at])
                                /\ BlobOf[r] # None => IsAt(q, at, BlobOf[r])
    BY DEF Reads
  <2>2. r \in Record /\ at \in Nat
    BY <1>1, <2>1 DEF Reads
  <2>3. IsAt(f, off, [rec |-> r, ptr |-> at])
    BY <1>2, <2>1
  <2>4. at \in 0..Len(p) /\ (BlobOf[r] # None => IsAt(p, at, BlobOf[r]))
    BY <1>3, <1>4, <2>1, <2>2, <2>3
  <2> QED BY <2>2, <2>3, <2>4 DEF Reads
<1>6. ASSUME NEW r \in Reads(f, p, off)
      PROVE  r \in Reads(g, q, off)
  <2>1. PICK at \in 0..Len(p) : /\ IsAt(f, off, [rec |-> r, ptr |-> at])
                                /\ BlobOf[r] # None => IsAt(p, at, BlobOf[r])
    BY DEF Reads
  <2>2. r \in Record /\ at \in Nat
    BY <1>1, <2>1 DEF Reads
  <2>3. IsAt(g, off, [rec |-> r, ptr |-> at])
    BY <1>2, <2>1
  <2>4. at \in 0..Len(q) /\ (BlobOf[r] # None => IsAt(q, at, BlobOf[r]))
    BY <1>3, <1>4, <2>1, <2>2
  <2> QED BY <2>2, <2>3, <2>4 DEF Reads
<1> QED BY <1>5, <1>6

(* What a step leaves of a day for its readers: all up to some line, and    *)
(* what the lines after it add.                                             *)
LEMMA FindsStay ==
  ASSUME Typed, Covered, Linked, Typed', NEW d \in Day, Durable(d),
         NEW k \in Nat, Same(index[d].lines, index'[d].lines, k),
         NEW x, x[1] <= k
  PROVE  x \in Finds(index'[d].lines, data'[d], pool'[d])
           <=> x \in Finds(index[d].lines, data[d], pool[d])
<1> DEFINE ls == index[d].lines
           new == index'[d].lines
<1>1. /\ data[d] \in Seq(MemberCell) /\ pool[d] \in Seq(PoolCell)
      /\ data'[d] \in Seq(MemberCell) /\ pool'[d] \in Seq(PoolCell)
      /\ Len(ls) \in Nat /\ Len(new) \in Nat /\ ls \in Seq(Entry)
  BY FilesOf, FilesNext
<1>2. /\ synced[d].data \in Nat /\ synced[d].pool \in Nat
      /\ Same(data[d], data'[d], synced[d].data) /\ Same(pool[d], pool'[d], synced[d].pool)
  BY MoreSizes DEF Durable
<1>3. MembersOk(d, data[d], synced[d].pool) /\ EntriesOk(d, ls, synced[d].data)
  BY DEF Linked
<1>4. ASSUME NEW i \in 1..k
      PROVE  /\ i \in 1..Len(ls) /\ i \in 1..Len(new) /\ new[i] = ls[i]
             /\ ls[i].rec # None =>
                  Reads(data'[d], pool'[d], ls[i].off) = Reads(data[d], pool[d], ls[i].off)
  <2>1. i \in 1..Len(ls) /\ i \in 1..Len(new) /\ new[i] = ls[i]
    BY <1>1 DEF Same
  <2>2. ls[i] \in Entry
    BY <1>1, <2>1
  <2>3. ls[i].off \in Nat
    BY <2>2 DEF Entry
  <2>4. ls[i].rec # None => ls[i].off + 2 <= synced[d].data
    BY <1>3, <2>1 DEF EntriesOk
  <2>5. ASSUME NEW off \in Nat, off + 2 <= synced[d].data
        PROVE  Reads(data'[d], pool'[d], off) = Reads(data[d], pool[d], off)
    <3>1. MembersOk(d, data[d], synced[d].pool)
      BY <1>3
    <3> QED BY SMTT(20), <1>1, <1>2, <2>5, <3>1, ReadsStay
  <2>6. ls[i].rec # None =>
          Reads(data'[d], pool'[d], ls[i].off) = Reads(data[d], pool[d], ls[i].off)
    BY <2>3, <2>4, <2>5
  <2> QED BY <2>1, <2>6
<1> HIDE DEF ls, new
<1>5. ASSUME x \in Finds(new, data'[d], pool'[d]) \/ x \in Finds(ls, data[d], pool[d])
      PROVE  x[1] \in 1..k
  BY <1>1, <1>5 DEF Finds
<1> QED BY <1>4, <1>5 DEF Finds, ls, new


(* After a step whose new lines cannot be parsed, a reader finds what was   *)
(* in the lines that stayed.                                                *)
NoneAfter(ls, k) == \A i \in 1..Len(ls) : i > k => ls[i].rec = None

LEMMA FindsCut ==
  ASSUME Typed, Covered, Linked, Typed', NEW d \in Day, Durable(d),
         NEW k \in Nat, Same(index[d].lines, index'[d].lines, k),
         NoneAfter(index'[d].lines, k)
  PROVE  Finds(index'[d].lines, data'[d], pool'[d])
           = {x \in Finds(index[d].lines, data[d], pool[d]) : x[1] <= k}
<1> DEFINE old == Finds(index[d].lines, data[d], pool[d])
           new == Finds(index'[d].lines, data'[d], pool'[d])
<1>1. \A x : x[1] <= k => (x \in new <=> x \in old)
  BY FindsStay
<1>2. ASSUME NEW x \in new
      PROVE  x[1] <= k
  <2>1. x[1] \in 1..Len(index'[d].lines) /\ index'[d].lines[x[1]].rec # None
    BY DEF Finds
  <2>2. Len(index'[d].lines) \in Nat
    BY FilesNext
  <2> QED BY <2>1, <2>2 DEF NoneAfter
<1> HIDE DEF old, new
<1>3. new = {x \in old : x[1] <= k}
  BY <1>1, <1>2
<1> QED BY <1>3 DEF old, new

LEMMA FindsMore ==
  ASSUME NEW ls \in Seq(Entry), NEW new \in Seq(Entry), NEW f, NEW p, NEW l,
         l = Len(ls) + 1, Len(new) = l, Same(ls, new, Len(ls)), new[l].rec # None
  PROVE  Finds(new, f, p) = Finds(ls, f, p) \cup {<<l, r>> : r \in Reads(f, p, new[l].off)}
<1>1. /\ 1..Len(new) = (1..Len(ls)) \cup {l} /\ l \notin 1..Len(ls)
      /\ \A i \in 1..Len(ls) : new[i] = ls[i]
  BY DEF Same
<1>2. Reads(f, p, new[l].off) \subseteq Record
  BY DEF Reads
<1> QED BY <1>1, <1>2 DEF Finds

(* At an offset of a day at most one record reads back, and it belongs to   *)
(* that day.                                                                *)
LEMMA ReadsOne ==
  ASSUME Typed, Linked, NEW d \in Day, NEW off \in Nat,
         NEW r \in Reads(data[d], pool[d], off)
  PROVE  r \in Record /\ DayOf[r] = d /\ Reads(data[d], pool[d], off) = {r}
<1>1. PICK at \in 0..Len(pool[d]) : IsAt(data[d], off, [rec |-> r, ptr |-> at])
  BY DEF Reads
<1>2. r \in Record
  BY DEF Reads
<1>3. DayOf[r] = d
  <2>1. off + 1 \in 1..Len(data[d]) /\ data[d][off + 1][1] = [rec |-> r, ptr |-> at]
    BY <1>1, FilesOf DEF IsAt
  <2>2. MembersOk(d, data[d], synced[d].pool)
    BY DEF Linked
  <2>3. PtrOk(d, data[d][off + 1][1].rec, data[d][off + 1][1].ptr, synced[d].pool)
    BY <2>1, <2>2 DEF MembersOk
  <2> QED BY <2>1, <2>3 DEF PtrOk
<1>4. ASSUME NEW q \in Reads(data[d], pool[d], off)
      PROVE  q = r
  <2>1. PICK a \in 0..Len(pool[d]) : IsAt(data[d], off, [rec |-> q, ptr |-> a])
    BY DEF Reads
  <2>2. [rec |-> q, ptr |-> a] = [rec |-> r, ptr |-> at]
    BY <1>1, <2>1, FetchedOne
  <2>3. [rec |-> q, ptr |-> a].rec = [rec |-> r, ptr |-> at].rec
    BY <2>2
  <2> QED BY <2>3
<1> QED BY <1>2, <1>3, <1>4

(* A record with a clean line can be found. *)
LEMMA LineSeen ==
  ASSUME Typed, Covered, EntriesSound, NEW d \in Day, NEW r \in Record,
         NEW n \in 0..Len(index[d].lines), HasLine(index[d].lines, n, r)
  PROVE  \E p \in Shown[d] : p[2] = r
<1>1. PICK i \in 1..n : index[d].lines[i].rec = r /\ index[d].lines[i].clean
  BY DEF HasLine
<1>2. i \in 1..Len(index[d].lines) /\ r # None
  BY FilesOf, Constants
<1>3. Holds(data[d], pool[d], synced[d], index[d].lines[i].off, index[d].lines[i].rec)
  BY <1>1, <1>2 DEF EntriesSound, LinesHold
<1>4. Resolves(d, index[d].lines[i])
  BY <1>1, <1>3, HoldsResolves
<1>5. r \in Fetched(d, index[d].lines[i])
  BY <1>1, <1>4 DEF Resolves
<1>6. i \in Entries(d)
  BY <1>1, <1>2, LinesOf
<1>7. <<i, r>> \in Shown[d]
  BY <1>5, <1>6 DEF Shown
<1> QED BY <1>7

(* What was acknowledged at a right offset can be found. *)
KeptSeen == \A key \in kept : Promise!Shows(Shown, key)

LEMMA KeptIsSeen == Inv1 => KeptSeen
<1> SUFFICES ASSUME Inv1, NEW key \in kept
             PROVE  \E p \in Shown[key[1]] : RidOf[p[2]] = key[2]
  BY DEF KeptSeen, Promise!Shows
<1>1. Typed /\ Covered /\ Promised /\ EntriesSound
  BY DEF Inv1, Inv
<1>2. key[1] \in Day
  BY <1>1 DEF Typed
<1>3. PICK r \in Record :
        Key(r) = key /\ HasLine(index[key[1]].lines, synced[key[1]].index, r)
  BY <1>1 DEF Promised
<1>4. synced[key[1]].index \in 0..Len(index[key[1]].lines)
  BY <1>1, <1>2, SizesOf
<1>5. \E p \in Shown[key[1]] : p[2] = r
  BY <1>1, <1>2, <1>3, <1>4, LineSeen
<1> QED BY <1>3, <1>5 DEF Key


(* A step that adds no line that can be parsed shows its readers nothing    *)
(* new.                                                                     *)
LEMMA ShownStays ==
  ASSUME Typed, Covered, Linked, Typed', \A d \in Day : Durable(d),
         \A d \in Day : /\ Same(index[d].lines, index'[d].lines, Len(index[d].lines))
                        /\ NoneAfter(index'[d].lines, Len(index[d].lines))
  PROVE  Shown' = Shown
<1>1. ASSUME NEW d \in Day
      PROVE  Finds(index'[d].lines, data'[d], pool'[d])
               = Finds(index[d].lines, data[d], pool[d])
  <2>1. Len(index[d].lines) \in Nat
    BY FilesOf
  <2>2. Finds(index'[d].lines, data'[d], pool'[d])
          = {x \in Finds(index[d].lines, data[d], pool[d]) : x[1] <= Len(index[d].lines)}
    BY <2>1, FindsCut
  <2>3. \A x \in Finds(index[d].lines, data[d], pool[d]) : x[1] <= Len(index[d].lines)
    BY <2>1 DEF Finds
  <2> QED BY <2>2, <2>3
<1> QED BY <1>1, ShownIs, ShownNext

(* A line written shows the record at its offset, if there is one. *)
LEMMA WriteEntryStores ==
  ASSUME Inv1, NEW w \in Writer, WriteEntry(w), ~index[D(w)].torn
  PROVE  Shown' = Shown \/ \E r \in Record : Promise!Store(r)
<1> DEFINE d == D(w)
           ls == index[d].lines
           new == index'[d].lines
           off == open[w].off
           found == Reads(data[d], pool[d], off)
           old == [e \in Day |-> Finds(index[e].lines, data[e], pool[e])]
           l == Len(ls) + 1
<1>1. Typed /\ Working /\ Covered /\ Linked /\ Counted
  BY DEF Inv1, Inv
<1>2. /\ Typed' /\ OtherDays(w) /\ UNCHANGED <<data, pool, history>>
      /\ Len(new) = l /\ new[l] = Line(w) /\ Same(ls, new, Len(ls))
  BY <1>1, WriteEntryDoes
<1>3. /\ d \in Day /\ job[w].rec \in Record /\ job[w].pc = "entry" /\ open[w] \in Opened
  BY <1>1, Active DEF WriteEntry
<1>4. /\ Line(w).off = off /\ off \in Nat /\ Line(w).rec # None
  BY <1>3, Constants DEF Line, Opened
<1>5. ls \in Seq(Entry) /\ new \in Seq(Entry) /\ Len(ls) \in Nat
  BY <1>1, <1>2, <1>3, FilesOf, FilesNext
<1>6. l \in 1..MaxTries
  <2>1. Len(ls) < tries /\ tries \in 0..MaxTries
    BY <1>1, <1>3 DEF Counted, Typed
  <2> QED BY <1>5, <2>1, Constants
<1>7. Finds(new, data[d], pool[d]) = old[d] \cup {<<l, r>> : r \in found}
  <2>1. new[l].rec # None /\ new[l].off = off
    BY <1>2, <1>4
  <2> HIDE DEF ls, new, off
  <2>2. Finds(new, data[d], pool[d])
          = Finds(ls, data[d], pool[d]) \cup {<<l, r>> : r \in found}
    BY <1>2, <1>5, <2>1, FindsMore
  <2> QED BY <1>3, <2>2 DEF ls
<1>8. Shown = old
  BY <1>1, ShownIs
<1>9. Shown' = [old EXCEPT ![d] = @ \cup {<<l, r>> : r \in found}]
  <2>1. Shown' = [e \in Day |-> Finds(index'[e].lines, data[e], pool[e])]
    BY <1>2, ShownNext
  <2>2. \A e \in Day : e # d => index'[e] = index[e]
    BY <1>2 DEF OtherDays
  <2> DEFINE more == {<<l, r>> : r \in found}
             now == [old EXCEPT ![d] = @ \cup more]
  <2>3. old[d] \cup more = Finds(new, data[d], pool[d])
    BY <1>7
  <2>4. \A e \in Day : e # d => old[e] = Finds(index'[e].lines, data[e], pool[e])
    BY <2>2
  <2>5. old = [e \in Day |-> old[e]]
    OBVIOUS
  <2> HIDE DEF old, more
  <2>6. now = [e \in Day |-> IF e = d THEN old[d] \cup more ELSE old[e]]
    BY <1>3, <2>5
  <2> DEFINE g == [e \in Day |-> Finds(index'[e].lines, data[e], pool[e])]
  <2>7. \A e \in Day : now[e] = g[e]
    <3>1. now[d] = g[d]
      BY <1>3, <2>3, <2>6
    <3>2. \A e \in Day : e # d => now[e] = old[e] /\ g[e] = old[e]
      BY <2>4, <2>6
    <3> QED BY <3>1, <3>2
  <2>8. now = g
    <3> HIDE DEF g
    <3>1. g = [e \in Day |-> g[e]]
      BY DEF g
    <3>2. now = [e \in Day |-> now[e]]
      BY <2>6
    <3> HIDE DEF now
    <3> QED BY <2>7, <3>1, <3>2
  <2> HIDE DEF now
  <2>9. Shown' = now
    BY <2>1, <2>8
  <2> HIDE DEF found, l, d
  <2> QED BY <2>9, Zenon DEF now, more
<1>10. old = [e \in Day |-> old[e]]
  OBVIOUS
<1> HIDE DEF old, found, l, d
<1>11. CASE found = {}
  BY <1>8, <1>9, <1>11, <1>10
<1>12. CASE found # {}
  <2>1. PICK r \in found : TRUE
    BY <1>12
  <2>2. r \in Record /\ DayOf[r] = d /\ found = {r}
    BY <1>1, <1>3, <1>4, <2>1, ReadsOne DEF found
  <2>3. Shown' = [Shown EXCEPT ![DayOf[r]] = @ \cup {<<l, r>>}]
    BY <1>8, <1>9, <2>2
  <2>4. \A p \in Shown[DayOf[r]] : p[1] < l
    BY <1>3, <1>5, <1>8, <2>2 DEF Finds, l, old, d
  <2>5. kept' = kept
    BY <1>2 DEF history
  <2>6. Promise!Store(r)
    BY <1>6, <2>3, <2>4, <2>5 DEF Promise!Store
  <2> QED BY <2>2, <2>6
<1> QED BY <1>11, <1>12

(* A step of the process stores a record, acknowledges one, or shows its    *)
(* readers nothing.                                                         *)
LEMMA OwnKeepsPromise ==
  ASSUME Inv1, NEW w \in Writer, Own(w)
  PROVE  [Promise!Next]_<<Shown, kept>>
<1>1. Typed /\ Working /\ Covered /\ Linked /\ Promised /\ EntriesSound
  BY DEF Inv1, Inv
<1>2. Typed' /\ \A e \in Day : GrewDay(e) /\ Durable(e)
  BY <1>1, OwnDoes
<1>3. CASE WriteEntry(w) /\ ~index[D(w)].torn
  <2>1. ~SyncEntry(w)
    BY <1>3 DEF WriteEntry, SyncEntry
  <2>2. kept' = kept
    BY <1>1, <2>1, KeptBy
  <2>3. Shown' = Shown \/ \E r \in Record : Promise!Store(r)
    BY <1>3, WriteEntryStores
  <2> QED BY <2>2, <2>3 DEF Promise!Next
<1>4. CASE ~(WriteEntry(w) /\ ~index[D(w)].torn)
  <2>1. Shown' = Shown
    <3>1. ASSUME NEW d \in Day
          PROVE  /\ Same(index[d].lines, index'[d].lines, Len(index[d].lines))
                 /\ NoneAfter(index'[d].lines, Len(index[d].lines))
      <4>1. /\ Same(index[d].lines, index'[d].lines, Len(index[d].lines))
            /\ Len(index[d].lines) \in Nat
        BY <1>1, <1>2, FilesOf DEF GrewDay
      <4>2. CASE index'[d].lines = index[d].lines
        BY <4>1, <4>2 DEF NoneAfter
      <4>3. CASE index'[d].lines # index[d].lines
        <5>1. Put(w)
          BY <1>1, <4>3, CallDoes, KillDoes DEF Own, files
        <5>2. d = D(w)
          BY <1>1, <4>3, <5>1, PutAdds DEF OtherDays
        <5>3. WriteEntry(w) => index'[d].lines = index[d].lines
          BY <1>1, <1>4, <5>2, WriteEntryDoes
        <5>4. \A i \in 1..Len(index'[d].lines) : i > Len(index[d].lines) =>
                index'[d].lines[i] = Garbage
          BY <1>1, <4>3, <5>1, <5>2, <5>3, PutAdds
        <5> QED BY <4>1, <5>4 DEF NoneAfter, Garbage
      <4> QED BY <4>2, <4>3
    <3> QED BY <1>1, <1>2, <3>1, ShownStays
  <2>2. CASE ~SyncEntry(w)
    BY <1>1, <2>1, <2>2, KeptBy
  <2>3. CASE SyncEntry(w)
    <3>1. kept' = IF job[w].sound THEN kept \cup {Key(job[w].rec)} ELSE kept
      BY <1>1, <2>3, SyncEntryDoes
    <3>2. CASE ~job[w].sound
      BY <2>1, <3>1, <3>2
    <3>3. CASE job[w].sound
      <4>1. /\ job[w].pc = "entrySync" /\ job[w].rec \in Record /\ D(w) \in Day
            /\ D(w) = DayOf[job[w].rec]
        BY <1>1, <2>3, Active DEF SyncEntry
      <4>2. HasLine(index[D(w)].lines, Len(index[D(w)].lines), job[w].rec)
        BY <1>1, <3>3, <4>1 DEF Promised
      <4>3. Len(index[D(w)].lines) \in 0..Len(index[D(w)].lines)
        BY <1>1, <4>1, FilesOf
      <4>4. \E p \in Shown[D(w)] : p[2] = job[w].rec
        BY <1>1, <4>1, <4>2, <4>3, LineSeen
      <4>5. Promise!Acknowledge(job[w].rec)
        BY <2>1, <3>1, <3>3, <4>1, <4>4
        DEF Promise!Acknowledge, Promise!Shows, Promise!Key, Key
      <4> QED BY <4>1, <4>5 DEF Promise!Next
    <3> QED BY <3>2, <3>3
  <2> QED BY <2>2, <2>3
<1> QED BY <1>3, <1>4

(* A power cut takes from the end of each day, and nothing acknowledged. *)
LEMMA PowerCutLoses ==
  ASSUME Inv1, KeptSeen', PowerCut
  PROVE  Promise!Lose
<1>1. Typed /\ Working /\ Covered /\ Linked
  BY DEF Inv1, Inv
<1>2. /\ Typed' /\ UNCHANGED history /\ \A e \in Day : CutDay(e) /\ Durable(e)
  BY <1>1, PowerCutKeeps
<1>3. ASSUME NEW d \in Day
      PROVE  \E k \in Nat : Shown'[d] = {x \in Shown[d] : x[1] <= k}
  <2>1. PICK k \in 0..Len(index'[d].lines) :
          /\ Same(index[d].lines, index'[d].lines, k)
          /\ \A i \in 1..Len(index'[d].lines) : i > k => index'[d].lines[i] = Garbage
    BY <1>2 DEF CutDay, LinesCut
  <2>2. Garbage.rec = None /\ k \in Nat
    BY <1>2, FilesNext DEF Garbage
  <2>3. NoneAfter(index'[d].lines, k)
    BY <2>1, <2>2 DEF NoneAfter
  <2>4. Finds(index'[d].lines, data'[d], pool'[d])
          = {x \in Finds(index[d].lines, data[d], pool[d]) : x[1] <= k}
    BY <1>1, <1>2, <2>1, <2>2, <2>3, FindsCut
  <2>5. /\ Shown'[d] = Finds(index'[d].lines, data'[d], pool'[d])
        /\ Shown[d] = Finds(index[d].lines, data[d], pool[d])
    BY <1>1, <1>2, ShownIs, ShownNext
  <2> QED BY <2>2, <2>4, <2>5
<1>4. \A d \in Day : \A x \in Shown[d] : x[1] \in Nat
  <2>1. \A d \in Day : Shown[d] = Finds(index[d].lines, data[d], pool[d])
    BY <1>1, ShownIs
  <2>2. \A d \in Day : \A x \in Shown[d] : x[1] \in 1..Len(index[d].lines)
    BY <2>1 DEF Finds
  <2> QED BY <1>1, <2>2, FilesOf
<1>5. DOMAIN Shown' = Day
  BY DEF Shown
<1>6. \A d \in Day :
        /\ Shown'[d] \subseteq Shown[d]
        /\ \A p \in Shown'[d] : \A q \in Shown[d] \ Shown'[d] : p[1] < q[1]
  <2> TAKE d \in Day
  <2>1. PICK k \in Nat : Shown'[d] = {x \in Shown[d] : x[1] <= k}
    BY <1>3
  <2> QED BY <1>4, <2>1
<1>7. kept' = kept
  BY <1>2 DEF history
<1>8. \A key \in kept : Promise!Shows(Shown', key)
  BY <1>7 DEF KeptSeen, Promise!Shows
<1> QED BY <1>5, <1>6, <1>7, <1>8 DEF Promise!Lose

LEMMA KeepsPromise ==
  ASSUME Inv1, KeptSeen', [Next]_vars
  PROVE  [Promise!Next]_<<Shown, kept>>
<1>1. CASE UNCHANGED vars
  BY <1>1 DEF vars, files, history, Shown, Fetched, Entries
<1>2. CASE PowerCut
  BY <1>2, PowerCutLoses DEF Promise!Next
<1>3. ASSUME NEW w \in Writer, Call(w) \/ Put(w) \/ Kill(w)
      PROVE  [Promise!Next]_<<Shown, kept>>
  BY <1>3, OwnKeepsPromise DEF Own
<1> QED BY <1>1, <1>2, <1>3 DEF Next

(* With one process appending, the files implement the promise made to      *)
(* readers: each day is a list that grows at its end, an append that        *)
(* returned nil at a right offset can be read back, and a power cut takes   *)
(* only what was not acknowledged, from the end (archive.go, appendLocked). *)
THEOREM KeepsRecords == ASSUME OneWriter PROVE Spec => ImplementsStore
<1>1. Init => Promise!Init
  BY Constants DEF Init, NoLines, Shown, Entries, Promise!Init
<1>2. Inv1 /\ KeptSeen' /\ [Next]_vars => [Promise!Next]_<<Shown, kept>>
  BY KeepsPromise
<1>3. Inv1 => KeptSeen
  BY KeptIsSeen
<1>4. Spec => []Inv1
  BY Always1
<1> QED BY <1>1, <1>2, <1>3, <1>4, PTL DEF Spec, ImplementsStore, Promise!Spec
=============================================================================
