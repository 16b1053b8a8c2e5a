--------------------------- MODULE IngesterProofs ---------------------------
(***************************************************************************)
(* Proofs about the spool ingester, for any number of calls, lines, files  *)
(* and restarts and any choice of faults: first the order of the files and *)
(* the checkpoint, then the versions of calls that are stored: how many    *)
(* there are, what dates them and what is in them.                         *)
(***************************************************************************)
EXTENDS Ingester, FiniteSetTheorems, SequenceTheorems, SetFacts, TLAPS

(* Oldest and Newest pick the least and the greatest. *)
LEMMA OldestIn ==
  ASSUME NEW S \in SUBSET Nat, S # {}
  PROVE  Oldest(S) \in S /\ \A y \in S : Oldest(S) <= y
BY LeastIn DEF Oldest

LEMMA NewestIn ==
  ASSUME NEW S \in SUBSET Nat, S # {}, NEW b \in Nat, \A x \in S : x <= b
  PROVE  Newest(S) \in S /\ \A y \in S : y <= Newest(S)
BY GreatestIn DEF Newest

(* And so do the choices by the time of the listing. *)
LEMMA FirstBy ==
  ASSUME NEW S, S # {}, NEW t, \A f \in S : t[f] \in Nat
  PROVE  \E f \in S : \A g \in S : t[f] <= t[g]
<1> DEFINE T == {t[f] : f \in S}
<1>1. T \in SUBSET Nat /\ T # {}
  OBVIOUS
<1>2. \E x \in T : \A y \in T : x <= y
  <2> HIDE DEF T
  <2> QED BY <1>1, OldestIn
<1> QED BY <1>2

LEMMA LastBy ==
  ASSUME NEW S, S # {}, NEW b \in Nat, NEW t, \A f \in S : t[f] \in 0..b
  PROVE  \E f \in S : \A g \in S : t[g] <= t[f]
<1> DEFINE T == {t[f] : f \in S}
<1>1. T \in SUBSET Nat /\ T # {} /\ \A x \in T : x <= b
  OBVIOUS
<1>2. \E x \in T : \A y \in T : y <= x
  <2> HIDE DEF T
  <2> QED BY <1>1, NewestIn
<1> QED BY <1>2
-----------------------------------------------------------------------------
(* Types of what the actions compute. *)

LEMMA VersionType ==
  ASSUME NEW r \in Record
  PROVE  VersionOf(r) \in Version /\ VersionOf(r).lines = r.lines \ r.cut
BY DEF Record, Version, VersionOf

LEMMA JudgedType ==
  ASSUME rec \in [Call -> Record], NEW c \in Call
  PROVE  /\ Judged(c) \in Record
         /\ Judged(c).lines = rec[c].lines /\ Judged(c).cut = rec[c].cut
         /\ VersionOf(Judged(c)) \in Version
         /\ VersionOf(Judged(c)).lines = rec[c].lines \ rec[c].cut
<1>1. rec[c] \in Record
  OBVIOUS
<1>2. (rec[c].stalled \/ ~Completed(c, rec[c])) \in BOOLEAN
  BY <1>1, Zenon DEF Record
<1> DEFINE b == rec[c].stalled \/ ~Completed(c, rec[c])
<1>3. Judged(c) = [rec[c] EXCEPT !.stalled = b]
  BY DEF Judged
<1> HIDE DEF b
<1>4. b \in BOOLEAN
  BY <1>2 DEF b
<1> QED BY <1>1, <1>3, <1>4, VersionType DEF Record

LEMMA BlankType == Blank \in Record /\ Blank.lines = {}
BY DEF Blank, Record

LEMMA QuietType ==
  ASSUME NEW r \in Record, NEW q \in 0..2
  PROVE  /\ [r EXCEPT !.quiet = q] \in Record
         /\ [r EXCEPT !.quiet = q].lines = r.lines
         /\ [r EXCEPT !.quiet = q].cut = r.cut
BY DEF Record

LEMMA FileBound == File \subseteq 0..MaxFile /\ MaxFile \in Nat
BY BoundAssumption DEF File

LEMMA TouchedType ==
  ASSUME mtime \in [File -> File], NEW f \in File
  PROVE  Touched(f) \in [File -> File]
<1>1. \A g \in File : /\ mtime[g] \in Nat /\ 1 <= mtime[g] /\ mtime[g] <= MaxFile
                      /\ MaxFile \in Nat /\ MaxFile >= 1
  BY BoundAssumption DEF File
<1>2. \A g \in File : Touched(f)[g] \in File
  BY <1>1 DEF Touched, File
<1>3. Touched(f) = [g \in File |-> Touched(f)[g]]
  BY DEF Touched
<1> QED BY <1>2, <1>3

(* What one read covers: positions of the file, the last one perhaps as a   *)
(* head.                                                                    *)
Read(f) ==
  [whole : SUBSET DOMAIN spool[f], head : SUBSET DOMAIN spool[f], marked : BOOLEAN]

LEMMA ReadingType ==
  ASSUME spool \in [File -> Seq(Line)], offsets \in [File -> Nat], size \in Nat,
         NEW f \in File, NEW r \in Reading(f)
  PROVE  /\ r \in Read(f)
         /\ r.whole \subseteq Scanned(f) /\ r.head \subseteq Scanned(f) \ r.whole
         /\ \A k \in r.head : k = Len(spool[f]) /\ HalfWritten(f)
<1>1. /\ Len(spool[f]) \in Nat /\ DOMAIN spool[f] = 1..Len(spool[f])
      /\ ResumeAt(f) \in Nat
  BY DEF ResumeAt
<1>2. Scanned(f) \subseteq DOMAIN spool[f]
  BY <1>1 DEF Scanned
<1>3. \/ r = Plain(Scanned(f)) \/ r = Plain({})
      \/ HalfWritten(f) /\ r \in Headed(f, Scanned(f))
  BY Zenon DEF Reading
<1>4. CASE r = Plain(Scanned(f)) \/ r = Plain({})
  <2>1. PICK P \in SUBSET Scanned(f) : r = [whole |-> P, head |-> {}, marked |-> FALSE]
    BY <1>4 DEF Plain
  <2> QED BY <1>2, <2>1 DEF Read
<1>5. CASE HalfWritten(f) /\ r \in Headed(f, Scanned(f))
  <2>1. PICK H \in {{}} \cup {{k} : k \in {k \in Scanned(f) \cap {Len(spool[f])} :
                              KindAt(f, k) \notin {"gin", "ginFail"}}},
             m \in BOOLEAN :
          r = [whole |-> Scanned(f) \ {Len(spool[f])}, head |-> H, marked |-> m]
    BY <1>5 DEF Headed
  <2>2. H \subseteq Scanned(f) \cap {Len(spool[f])}
    BY <2>1
  <2> QED BY <1>2, <1>5, <2>1, <2>2 DEF Read
<1> QED BY <1>3, <1>4, <1>5

(* The positions of a read that are lines of call c, and those lines. *)
Mine(f, r, c) == {k \in r.whole \cup r.head : spool[f][k][1] = c}
Fresh(f, r, c) == {spool[f][k][2] : k \in Mine(f, r, c)}
Heads(f, r, c) == {spool[f][k][2] : k \in Mine(f, r, c) \cap r.head}

LEMMA MineType ==
  ASSUME spool \in [File -> Seq(Line)], NEW f \in File, NEW r \in Read(f), NEW c
  PROVE  /\ Mine(f, r, c) \in SUBSET Nat
         /\ \A k \in Mine(f, r, c) : /\ k \in DOMAIN spool[f] /\ spool[f][k] \in Line
                                     /\ k <= Len(spool[f])
                                     /\ spool[f][k][2] \in Nat \ {0}
         /\ Mine(f, r, c) # {} =>
              /\ Oldest(Mine(f, r, c)) \in Mine(f, r, c)
              /\ \A k \in Mine(f, r, c) : Oldest(Mine(f, r, c)) <= k
              /\ Newest(Mine(f, r, c)) \in Mine(f, r, c)
         /\ Heads(f, r, c) \subseteq Fresh(f, r, c)
         /\ Fresh(f, r, c) \subseteq Nat \ {0}
<1>1. spool[f] \in Seq(Line) /\ Len(spool[f]) \in Nat
      /\ DOMAIN spool[f] = 1..Len(spool[f])
  OBVIOUS
<1>2. \A k \in Mine(f, r, c) : /\ k \in DOMAIN spool[f] /\ spool[f][k] \in Line
                               /\ k \in Nat /\ k <= Len(spool[f])
  BY <1>1 DEF Mine, Read
<1>3. \A k \in Mine(f, r, c) : spool[f][k][2] \in Nat \ {0}
  BY <1>2 DEF Line
<1>4. Mine(f, r, c) \in SUBSET Nat
  BY <1>2
<1>5. ASSUME Mine(f, r, c) # {}
      PROVE  /\ Oldest(Mine(f, r, c)) \in Mine(f, r, c)
             /\ \A k \in Mine(f, r, c) : Oldest(Mine(f, r, c)) <= k
             /\ Newest(Mine(f, r, c)) \in Mine(f, r, c)
  BY <1>1, <1>2, <1>4, <1>5, OldestIn, NewestIn
<1> QED BY <1>2, <1>3, <1>4, <1>5 DEF Heads, Fresh

(* What a read adds to the record of a call. *)
LEMMA FoldType ==
  ASSUME rec \in [Call -> Record], spool \in [File -> Seq(Line)],
         NEW f \in File, NEW r \in Read(f), NEW c \in Call
  PROVE  /\ Fold(f, r)[c] \in Record
         /\ Fold(f, r)[c].lines = rec[c].lines \cup Fresh(f, r, c)
         /\ Fold(f, r)[c].cut = (rec[c].cut \ Fresh(f, r, c)) \cup Heads(f, r, c)
         /\ Fold(f, r)[c].stalled = rec[c].stalled
         /\ rec[c].billed => Fold(f, r)[c].billed
         /\ Mine(f, r, c) = {} => Fold(f, r)[c] = rec[c]
         /\ Mine(f, r, c) # {} =>
              /\ Fold(f, r)[c].twice =
                   rec[c].twice \cup (rec[c].lines \cap Fresh(f, r, c))
              /\ Fold(f, r)[c].first =
                   IF rec[c].lines = {} THEN spool[f][Oldest(Mine(f, r, c))][2]
                   ELSE rec[c].first
              /\ Fold(f, r)[c].last = spool[f][Newest(Mine(f, r, c))][2]
<1> DEFINE mine == Mine(f, r, c)
           new == Fresh(f, r, c)
           heads == Heads(f, r, c)
           billing == {k \in mine : KindAt(f, k) = "billing"}
           sure == \/ rec[c].billed
                   \/ billing \ r.head # {}
                   \/ r.marked /\ billing # {}
           begun == IF rec[c].lines = {} THEN spool[f][Oldest(mine)][2]
                    ELSE rec[c].first
           tail == spool[f][Newest(mine)][2]
           folded == [lines |-> rec[c].lines \cup new,
                      twice |-> rec[c].twice \cup (rec[c].lines \cap new),
                      cut |-> (rec[c].cut \ new) \cup heads,
                      first |-> begun, last |-> tail, quiet |-> 0,
                      billed |-> sure, stalled |-> rec[c].stalled]
<1>1. rec[c] \in Record
  OBVIOUS
<1>2. /\ \A k \in mine : spool[f][k][2] \in Nat \ {0}
      /\ mine # {} => Oldest(mine) \in mine /\ Newest(mine) \in mine
      /\ new \subseteq Nat \ {0} /\ heads \subseteq new
  BY MineType
<1>3. Fold(f, r)[c] = IF mine = {} THEN rec[c] ELSE folded
  BY DEF Fold, Mine, Fresh, Heads
<1>4. CASE mine = {}
  <2>1. new = {} /\ heads = {}
    BY <1>4 DEF Fresh, Heads
  <2> QED BY <1>1, <1>3, <1>4, <2>1 DEF Record
<1>5. CASE mine # {}
  <2>1. sure \in BOOLEAN /\ (rec[c].billed => sure)
    BY Zenon, <1>1
  <2>2. begun \in Nat /\ tail \in Nat
    BY <1>1, <1>2, <1>5 DEF Record
  <2>3. Fold(f, r)[c] = folded
    BY <1>3, <1>5
  <2> HIDE DEF mine, new, heads, sure, begun, tail
  <2>4. /\ rec[c].lines \cup new \in SUBSET (Nat \ {0})
        /\ rec[c].twice \cup (rec[c].lines \cap new) \in SUBSET (Nat \ {0})
        /\ (rec[c].cut \ new) \cup heads \in SUBSET (Nat \ {0})
        /\ rec[c].stalled \in BOOLEAN
    BY <1>1, <1>2 DEF Record
  <2>5. folded \in Record
    BY <2>1, <2>2, <2>4 DEF Record
  <2>6. /\ Fold(f, r)[c] \in Record
        /\ Fold(f, r)[c].lines = rec[c].lines \cup new
        /\ Fold(f, r)[c].cut = (rec[c].cut \ new) \cup heads
        /\ Fold(f, r)[c].stalled = rec[c].stalled
        /\ rec[c].billed => Fold(f, r)[c].billed
        /\ Fold(f, r)[c].twice = rec[c].twice \cup (rec[c].lines \cap new)
        /\ Fold(f, r)[c].first = begun
        /\ Fold(f, r)[c].last = tail
    <3> HIDE DEF folded
    <3>1. /\ folded.lines = rec[c].lines \cup new
          /\ folded.cut = (rec[c].cut \ new) \cup heads
          /\ folded.stalled = rec[c].stalled
          /\ rec[c].billed => folded.billed
          /\ folded.twice = rec[c].twice \cup (rec[c].lines \cap new)
          /\ folded.first = begun
          /\ folded.last = tail
      BY <2>1 DEF folded
    <3> QED BY <2>3, <2>5, <3>1
  <2> QED BY <1>5, <2>6 DEF mine, new, heads, begun, tail
<1> QED BY <1>4, <1>5

LEMMA FoldIn ==
  ASSUME rec \in [Call -> Record], spool \in [File -> Seq(Line)],
         NEW f \in File, NEW r \in Read(f)
  PROVE  Fold(f, r) \in [Call -> Record]
<1>1. \A c \in Call : Fold(f, r)[c] \in Record
  BY FoldType
<1>2. Fold(f, r) = [c \in Call |-> Fold(f, r)[c]]
  BY DEF Fold
<1> HIDE DEF Fold
<1> QED BY <1>1, <1>2

LEMMA DayType == ASSUME NEW c, NEW v PROVE DayOf(c, v) \in Day
BY SMT DEF DayOf, Day

(* What writing entries for the records of S does to the store. *)
LEMMA EnteredType ==
  ASSUME rec \in [Call -> Record], archive \in [Call -> Seq(Version)],
         swallowed \in [Call -> SUBSET Version], damaged \subseteq Day, NEW S
  PROVE  /\ Entered(S) \in [Call -> Seq(Version)]
         /\ Lost(S) \in [Call -> SUBSET Version]
         /\ Mended(S) \subseteq damaged /\ Mended(S) \subseteq Day
<1>1. \A c \in Call : VersionOf(Judged(c)) \in Version
  BY JudgedType
<1>2. \A c \in Call : Append(archive[c], VersionOf(Judged(c))) \in Seq(Version)
  BY <1>1
<1> QED BY <1>1, <1>2 DEF Entered, Lost, Mended


-----------------------------------------------------------------------------
(* Type correctness. It rests on no file being numbered past the one New    *)
(* API opened last, and on which of the variables of a pass each phase uses.*)

NewestLive == \A f \in present : f <= live

PassState ==
  /\ phase \notin {"scan", "read"} => todo = {}
  /\ phase \in {"idle", "truncate", "restat"} => files = {}
  /\ phase = "prune" => files # {}
  /\ phase \in {"read", "truncate", "restat"} => cur \in present
  /\ phase = "read" => size <= Len(spool[cur])

TypeInv == TypeOK /\ NewestLive /\ PassState

LEMMA InitTypeInv == Init => TypeInv
<1> SUFFICES ASSUME Init PROVE TypeInv
  OBVIOUS
<1> USE DEF Init
<1>1. rec \in [Call -> Record]
  BY BlankType
<1>2. archive \in [Call -> Seq(Version)]
  BY EmptySeq
<1>3. spool \in [File -> Seq(Line)]
  BY EmptySeq
<1>4. 1 \in File
  BY BoundAssumption DEF File
<1>5. /\ written \in [Call -> Nat]
      /\ offsets \in [File -> Nat]
      /\ mtime \in [File -> File] /\ listed \in [File -> 0..MaxFile]
      /\ crashes \in 0..MaxCrash
      /\ late \in [Call -> 0..MaxLate] /\ swallowed \in [Call -> SUBSET Version]
  BY BoundAssumption
<1>6. TypeOK
  BY <1>1, <1>2, <1>3, <1>4, <1>5 DEF TypeOK
<1>7. NewestLive /\ PassState
  BY DEF NewestLive, PassState
<1> QED BY <1>6, <1>7 DEF TypeInv

(* The pass takes one of the listed files for the live one, and visits one  *)
(* of those left.                                                           *)
LEMMA LiveFileIn ==
  ASSUME TypeInv, files # {}
  PROVE  LiveFile \in files /\ \A g \in files : listed[g] <= listed[LiveFile]
<1>1. MaxFile \in Nat /\ \A f \in files : listed[f] \in 0..MaxFile
  BY BoundAssumption DEF TypeInv, TypeOK, File
<1>2. \E f \in files : \A g \in files : listed[g] <= listed[f]
  BY <1>1, LastBy
<1> QED BY <1>2, Zenon DEF LiveFile

LEMMA NextFileIn ==
  ASSUME TypeInv, todo # {}
  PROVE  NextFile \in todo /\ \A g \in todo : listed[NextFile] <= listed[g]
<1>1. \A f \in todo : listed[f] \in Nat
  BY BoundAssumption DEF TypeInv, TypeOK, File
<1>2. \E f \in todo : \A g \in todo : listed[f] <= listed[g]
  BY <1>1, FirstBy
<1> QED BY <1>2, Zenon DEF NextFile

(* A push that fails has stored some of the batch. *)
LEMMA SendFailsDoes ==
  ASSUME SendFails
  PROVE  \E done \in SUBSET Batch : \E S \in Appended(done),
            D \in SUBSET {DayOf(c, rec[c]) : c \in Batch} :
            /\ archive' = Entered(S) /\ damaged' = Mended(S) \cup D
            /\ swallowed' = Lost(Glued(S))
<1>1. PICK n \in 0..Cardinality(Batch) :
        LET done == {c \in Batch : Cardinality({d \in Batch : d < c}) < n}
        IN \E S \in Appended(done) :
            /\ archive' = Entered(S)
            /\ \E D \in SUBSET {DayOf(c, rec[c]) : c \in Batch \ done} :
                 damaged' = Mended(S) \cup D
            /\ swallowed' = Lost(Glued(S))
  BY DEF SendFails
<1> DEFINE done == {c \in Batch : Cardinality({d \in Batch : d < c}) < n}
<1>2. done \in SUBSET Batch
  OBVIOUS
<1>3. PICK S \in Appended(done),
           D \in SUBSET {DayOf(c, rec[c]) : c \in Batch \ done} :
            /\ archive' = Entered(S) /\ damaged' = Mended(S) \cup D
            /\ swallowed' = Lost(Glued(S))
  BY <1>1
<1>4. D \in SUBSET {DayOf(c, rec[c]) : c \in Batch}
  BY <1>3
<1> HIDE DEF done
<1> QED BY <1>2, <1>3, <1>4

(* A line added to a file. *)
LEMMA AddLine ==
  ASSUME spool \in [File -> Seq(Line)], NEW f \in File, NEW l \in Line,
         NEW s, s = [spool EXCEPT ![f] = Append(@, l)]
  PROVE  /\ s \in [File -> Seq(Line)]
         /\ \A g \in File : g # f => s[g] = spool[g]
         /\ s[f] = Append(spool[f], l)
         /\ Len(s[f]) = Len(spool[f]) + 1 /\ Len(spool[f]) \in Nat
         /\ s[f][Len(spool[f]) + 1] = l
         /\ \A k \in 1..Len(spool[f]) : s[f][k] = spool[f][k]
         /\ DOMAIN s[f] = 1..(Len(spool[f]) + 1)
         /\ \A g \in File : Len(spool[g]) <= Len(s[g])
<1>1. spool[f] \in Seq(Line) /\ Append(spool[f], l) \in Seq(Line)
  OBVIOUS
<1>2. \A g \in File : spool[g] \in Seq(Line) /\ Len(spool[g]) \in Nat
  OBVIOUS
<1> QED BY <1>1, <1>2

(* Every action keeps the types and the shape of the pass. *)
LEMMA StepTypeInv == TypeInv /\ [Next]_vars => TypeInv'
<1> SUFFICES ASSUME TypeInv, [Next]_vars PROVE TypeInv'
  OBVIOUS
<1> USE DEF TypeInv, TypeOK, NewestLive, PassState,
            gateway, memory, store, listing, pass, fate, history
<1>1. CASE Rotate
  <2>1. live + 1 \in File /\ live <= live + 1
    BY BoundAssumption, <1>1 DEF Rotate, File
  <2>2. \A f \in present : f \in Nat /\ live \in Nat
    BY DEF File
  <2>3. NewestLive'
    BY <1>1, <2>2 DEF Rotate
  <2>4. mtime' \in [File -> File]
    BY <1>1, <2>1, TouchedType DEF Rotate
  <2> QED BY <1>1, <2>1, <2>3, <2>4 DEF Rotate
<1>2. CASE BackoffExpires
  BY <1>2 DEF BackoffExpires
<1>3. CASE BeginHeld
  BY <1>3 DEF BeginHeld, Pending
<1>4. CASE BeginScan
  <2>1. listed' = mtime
    BY <1>4 DEF BeginScan
  <2>2. listed' \in [File -> 0..MaxFile]
    <3>1. mtime \in [File -> File] /\ File \subseteq 0..MaxFile
      BY FileBound
    <3> QED BY ONLY <2>1, <3>1
  <2> QED BY <1>4, <2>2 DEF BeginScan
<1>5. CASE SkipFile
  BY <1>5, NextFileIn DEF SkipFile
<1>6. CASE StatFile
  <2>1. NextFile \in todo
    BY <1>6, NextFileIn DEF StatFile
  <2>2. Len(spool[NextFile]) \in Nat
    BY <2>1
  <2> QED BY SMTT(20), <1>6, <2>1, <2>2 DEF StatFile
<1>7. CASE EndScan
  BY <1>7 DEF EndScan, Pending
<1>8. CASE EndFlush
  BY <1>8 DEF EndFlush, AfterFlush, Trim
<1>9. CASE SendStops
  BY <1>9 DEF SendStops, AfterFlush, Trim
<1>10. CASE Truncate
  <2>1. cur \in File /\ live \in File
    BY <1>10 DEF Truncate
  <2>2. mtime' \in [File -> File] /\ overtaken' \subseteq File
    BY <1>10, <2>1, TouchedType DEF Truncate
  <2>3. spool' \in [File -> Seq(Line)]
    BY <1>10, EmptySeq DEF Truncate
  <2> QED BY <1>10, <2>1, <2>2, <2>3 DEF Truncate
<1>11. CASE TruncateFails
  BY <1>11 DEF TruncateFails
<1>12. CASE Restat
  BY <1>12 DEF Restat
<1>13. ASSUME NEW c \in Call, KeepRunning(c) PROVE TypeInv'
  BY <1>13 DEF KeepRunning, Visit
<1>14. ASSUME NEW c \in Call, Discard(c) PROVE TypeInv'
  <2>1. rec' \in [Call -> Record]
    BY <1>14, BlankType DEF Discard
  <2>2. dismissed' \subseteq Line
    <3>1. rec[c].lines \subseteq Nat \ {0}
      BY DEF Record
    <3> QED BY <1>14, <3>1 DEF Discard, LinesOf, Line
  <2> QED BY <1>14, <2>1, <2>2 DEF Discard, Visit
<1>e. \A S : /\ Entered(S) \in [Call -> Seq(Version)]
             /\ Lost(S) \in [Call -> SUBSET Version]
             /\ Mended(S) \subseteq Day
  BY EnteredType
<1>15. ASSUME NEW c \in Call, AppendRecord(c) PROVE TypeInv'
  <2>1. rec' \in [Call -> Record]
    BY <1>15, BlankType DEF AppendRecord
  <2>2. /\ archive' \in [Call -> Seq(Version)] /\ damaged' \subseteq Day
        /\ swallowed' \in [Call -> SUBSET Version]
    BY <1>e, <1>15 DEF AppendRecord
  <2> QED BY <1>15, <2>1, <2>2 DEF AppendRecord, Visit, Remember
<1>16. ASSUME NEW c \in Call, AppendFailure(c) PROVE TypeInv'
  <2>1. rec' \in [Call -> Record]
    BY <1>16, JudgedType DEF AppendFailure, Retained
  <2>2. /\ archive' \in [Call -> Seq(Version)] /\ damaged' \subseteq Day
        /\ swallowed' \in [Call -> SUBSET Version]
        /\ late' \in [Call -> 0..MaxLate]
    <3>1. CASE UNCHANGED <<store, late, swallowed>>
      BY <3>1
    <3>2. CASE /\ damaged' = damaged \cup {DayOf(c, rec[c])}
               /\ UNCHANGED <<archive, late, swallowed>>
      BY <3>2, DayType
    <3>3. CASE /\ late[c] < MaxLate /\ late' = [late EXCEPT ![c] = @ + 1]
               /\ archive' = Entered({c}) /\ damaged' = Mended({c})
               /\ swallowed' = Lost(Glued({c}))
      <4>1. late' \in [Call -> 0..MaxLate]
        <5>1. /\ late \in [Call -> 0..MaxLate] /\ MaxLate \in Nat
              /\ late[c] < MaxLate /\ late' = [late EXCEPT ![c] = @ + 1]
          BY <3>3, BoundAssumption
        <5> QED BY ONLY <5>1
      <4> QED BY <1>e, <3>3, <4>1
    <3> QED BY <1>16, <3>1, <3>2, <3>3 DEF AppendFailure
  <2> QED BY <1>16, <2>1, <2>2 DEF AppendFailure, Visit
<1>17. ASSUME NEW c \in Call, Collect(c) PROVE TypeInv'
  BY <1>17, JudgedType DEF Collect, Visit
<1>18. ASSUME NEW c \in Call, LogLine(c) PROVE TypeInv'
  <2> DEFINE l == <<c, written[c] + 1>>
  <2>1. l \in Line
    BY DEF Line
  <2>3. \/ /\ spool' = [spool EXCEPT ![live] = Append(@, l)]
           /\ mtime' = Touched(live)
        \/ UNCHANGED <<spool, mtime>>
    BY <1>18 DEF LogLine
  <2>4. /\ windowed' \subseteq windowed \cup {l} /\ raced' \subseteq raced \cup {l}
        /\ orphaned' \subseteq orphaned \cup {l}
    BY <1>18 DEF LogLine
  <2>5. written' \in [Call -> Nat]
    BY <1>18 DEF LogLine
  <2> HIDE DEF l
  <2>6. /\ spool' \in [File -> Seq(Line)]
        /\ \A f \in File : Len(spool[f]) <= Len(spool'[f])
    <3>1. /\ spool \in [File -> Seq(Line)] /\ live \in File
          /\ \A f \in File : Len(spool[f]) \in Nat
      OBVIOUS
    <3>2. CASE spool' = [spool EXCEPT ![live] = Append(@, l)]
      BY ONLY <2>1, <3>1, <3>2, AddLine
    <3>3. CASE spool' = spool
      BY ONLY <3>1, <3>3
    <3> QED BY <2>3, <3>2, <3>3
  <2>7. mtime' \in [File -> File]
    BY <2>3, TouchedType
  <2>8. phase' = "read" => size' <= Len(spool'[cur'])
    BY <1>18, <2>6 DEF LogLine
  <2> QED BY ZenonT(40), <1>18, <2>1, <2>4, <2>5, <2>6, <2>7, <2>8 DEF LogLine
<1>19. ASSUME NEW q \in {1, 2}, Wait(q) PROVE TypeInv'
  <2>1. rec' \in [Call -> Record]
    <3>1. \A c \in Call : [rec[c] EXCEPT !.quiet = q] \in Record
      <4>1. q \in 0..2 /\ \A c \in Call : rec[c] \in Record
        OBVIOUS
      <4> HIDE DEF TypeInv
      <4> QED BY <4>1, QuietType
    <3>2. rec' = [c \in Call |-> IF rec[c].lines # {} /\ rec[c].quiet < q
                                THEN [rec[c] EXCEPT !.quiet = q] ELSE rec[c]]
      BY <1>19 DEF Wait
    <3> QED BY <3>1, <3>2
  <2>2. aged' \subseteq Line
    <3>1. \A c \in Call : DOMAIN Script[c] \subseteq Nat \ {0}
      BY ScriptAssumption
    <3>2. aged' \subseteq Call \X UNION {DOMAIN Script[c] : c \in Call}
      BY <1>19 DEF Wait
    <3>3. UNION {DOMAIN Script[c] : c \in Call} \subseteq Nat \ {0}
      BY <3>1
    <3> QED BY <3>2, <3>3 DEF Line
  <2> QED BY <1>19, <2>1, <2>2 DEF Wait
<1>20. CASE ReadFile
  <2>1. /\ cur \in File /\ cur \in present
        /\ spool[cur] \in Seq(Line)
        /\ ResumeAt(cur) \in Nat
    BY <1>20 DEF ReadFile, ResumeAt
  <2>2. PICK r \in Reading(cur) :
          /\ rec' = Fold(cur, r)
          /\ skipped' = skipped \cup
               {spool[cur][k] : k \in ((ResumeAt(cur) + 1)..size) \ r.whole}
    BY <1>20 DEF ReadFile
  <2>3. r \in Read(cur)
    BY <2>1, <2>2, ReadingType
  <2>4. rec' \in [Call -> Record]
    BY <2>1, <2>2, <2>3, FoldIn
  <2>5. skipped' \subseteq Line
    <3>1. \A k \in (ResumeAt(cur) + 1)..size : k \in 1..Len(spool[cur])
      BY <1>20, <2>1 DEF ReadFile
    <3> QED BY <2>1, <2>2, <3>1
  <2> QED BY <1>20, <2>1, <2>4, <2>5 DEF ReadFile
<1>21. CASE SendAcked
  <2>1. rec' \in [Call -> Record]
    BY <1>21, BlankType DEF SendAcked
  <2>2. /\ archive' \in [Call -> Seq(Version)] /\ damaged' \subseteq Day
        /\ swallowed' \in [Call -> SUBSET Version]
    BY <1>e, <1>21 DEF SendAcked
  <2>3. dismissed' \subseteq Line
    <3>1. \A c \in Call : LinesOf(c, rec[c]) \subseteq Line
      BY DEF LinesOf, Line, Record
    <3>2. \A l \in dismissed' \ dismissed : \E c \in Call : l \in LinesOf(c, rec[c])
      BY <1>21 DEF SendAcked, Batch
    <3> QED BY <3>1, <3>2
  <2>4. Batch \subseteq Call
    BY DEF Batch
  <2> QED BY <1>21, <2>1, <2>2, <2>3, <2>4 DEF SendAcked, Remember
<1>22. CASE SendFails
  <2>1. rec' \in [Call -> Record]
    BY <1>22, JudgedType DEF SendFails, Retained
  <2>2. PICK S, D : /\ archive' = Entered(S) /\ damaged' = Mended(S) \cup D
                    /\ swallowed' = Lost(Glued(S))
                    /\ D \subseteq {DayOf(c, rec[c]) : c \in Batch}
    BY <1>22, SendFailsDoes
  <2>3. /\ archive' \in [Call -> Seq(Version)] /\ damaged' \subseteq Day
        /\ swallowed' \in [Call -> SUBSET Version]
    BY <1>e, <2>2, DayType
  <2> QED BY <1>22, <2>1, <2>3 DEF SendFails
<1>23. CASE Prune
  <2>1. PICK drop : /\ spool' = [f \in File |-> IF f \in drop THEN <<>> ELSE spool[f]]
                    /\ offsets' = [f \in File |-> IF f \in drop THEN 0 ELSE offsets[f]]
                    /\ present' = present \ drop
                    /\ \/ phase' = "truncate" /\ cur' = LiveFile
                       \/ phase' = "idle" /\ cur' = 0
                    /\ LiveFile \notin drop
    BY <1>23 DEF Prune, TooOld, TooMuch, Droppable
  <2>2. LiveFile \in files
    BY <1>23, LiveFileIn DEF Prune
  <2>3. spool' \in [File -> Seq(Line)] /\ offsets' \in [File -> Nat]
    BY <2>1, EmptySeq
  <2>4. listed' \in [File -> 0..MaxFile]
    BY <1>23, BoundAssumption DEF Prune
  <2> QED BY <1>23, <2>1, <2>2, <2>3, <2>4 DEF Prune
<1>24. CASE Crash
  <2>1. rec' \in [Call -> Record] /\ offsets' \in [File -> Nat]
    BY <1>24, BlankType DEF Crash
  <2>2. Held \subseteq Line
    BY DEF Held, LinesOf, Line, Record
  <2>3. crashes' \in 0..MaxCrash
    BY BoundAssumption, <1>24 DEF Crash
  <2>4. listed' \in [File -> 0..MaxFile]
    BY <1>24, BoundAssumption DEF Crash
  <2> QED BY <1>24, <2>1, <2>2, <2>3, <2>4 DEF Crash
<1>25. CASE UNCHANGED vars
  BY <1>25 DEF vars
<1> QED
  BY <1>1, <1>2, <1>3, <1>4, <1>5, <1>6, <1>7, <1>8, <1>9, <1>10, <1>11, <1>12,
     <1>13, <1>14, <1>15, <1>16, <1>17, <1>18, <1>19, <1>20, <1>21, <1>22,
     <1>23, <1>24, <1>25
  DEF Next, Once, Scan, Flush, Ship, Reclaim, Gateway, Clock

(* The variables keep their types, and each phase of a pass the variables   *)
(* it uses, for any schedule of the pass, New API, the clock and restarts.  *)
THEOREM TypeCorrect == Spec => []TypeOK
<1>1. TypeInv => TypeOK
  BY DEF TypeInv
<1> QED BY <1>1, InitTypeInv, StepTypeInv, PTL DEF Spec

-----------------------------------------------------------------------------
(* The order of the files.  No two share a modification time, of two files  *)
(* the older one, unless it is empty, was written earlier, and the live     *)
(* file is the newest unless a truncate overtook it; so it is in a listing. *)

Apart ==
  /\ \A f, g \in File : mtime[f] = mtime[g] => f = g
  /\ \A f, g \in files : listed[f] = listed[g] => f = g

WrittenInOrder ==
  /\ \A f, g \in present : f < g /\ spool[f] # <<>> => mtime[f] < mtime[g]
  /\ \A f, g \in files : f < g /\ spool[f] # <<>> => listed[f] < listed[g]

LiveLast ==
  /\ \A f \in overtaken : f <= live
  /\ live \notin overtaken =>
       live \in present /\ \A f \in present : mtime[f] <= mtime[live]
  /\ live \in files \ overtaken => \A f \in files : listed[f] <= listed[live]

TimeInv == TypeInv /\ Apart /\ WrittenInOrder /\ LiveLast

(* A file that is written becomes the newest; the others keep their order. *)
LEMMA TouchedDoes ==
  ASSUME mtime \in [File -> File], \A g, h \in File : mtime[g] = mtime[h] => g = h,
         NEW f \in File, NEW t, t = Touched(f)
  PROVE  /\ \A g \in File \ {f} : t[g] < t[f]
         /\ \A g \in File : t[g] <= t[f]
         /\ \A g, h \in File \ {f} : mtime[g] < mtime[h] => t[g] < t[h]
         /\ \A g, h \in File : t[g] = t[h] => g = h
<1>1. \A g \in File : /\ mtime[g] \in Nat /\ 1 <= mtime[g] /\ mtime[g] <= MaxFile
                      /\ MaxFile \in Nat
  BY FileBound DEF File
<1>2. \A g \in File : t[g] = IF g = f THEN MaxFile
                             ELSE IF mtime[g] > mtime[f] THEN mtime[g] - 1 ELSE mtime[g]
  BY DEF Touched
<1>3. \A g \in File \ {f} : mtime[g] # mtime[f]
  OBVIOUS
<1>4. \A g \in File \ {f} : t[g] < t[f]
  BY <1>1, <1>2, <1>3
<1>5. ASSUME NEW g \in File \ {f}, NEW h \in File \ {f}, mtime[g] < mtime[h]
      PROVE  t[g] < t[h]
  BY <1>1, <1>2, <1>3, <1>5
<1>6. ASSUME NEW g \in File, NEW h \in File, t[g] = t[h], g # h
      PROVE  FALSE
  <2>1. CASE g = f \/ h = f
    <3>1. \A e \in File : t[e] \in Int
      BY <1>1, <1>2
    <3> QED BY <1>4, <1>6, <2>1, <3>1
  <2>2. CASE g # f /\ h # f
    <3>1. mtime[g] < mtime[h] \/ mtime[h] < mtime[g]
      BY <1>1, <1>6
    <3>2. t[g] \in Int
      BY <1>1, <1>2
    <3> QED BY <1>5, <1>6, <2>2, <3>1, <3>2
  <2> QED BY <2>1, <2>2
<1>7. \A g \in File : t[g] <= t[f]
  BY <1>1, <1>2
<1> QED BY <1>4, <1>5, <1>6, <1>7

LEMMA InitTimeInv == Init => TimeInv
<1> SUFFICES ASSUME Init PROVE TimeInv
  OBVIOUS
<1>1. TypeInv
  BY InitTypeInv
<1>2. Apart /\ WrittenInOrder
  BY DEF Init, Apart, WrittenInOrder
<1>3. LiveLast
  BY BoundAssumption DEF Init, LiveLast, File
<1> QED BY <1>1, <1>2, <1>3 DEF TimeInv

LEMMA StepTimeInv == TimeInv /\ [Next]_vars => TimeInv'
<1> SUFFICES ASSUME TimeInv, [Next]_vars PROVE (Apart /\ WrittenInOrder /\ LiveLast)'
  BY StepTypeInv DEF TimeInv
<1>t. /\ spool \in [File -> Seq(Line)] /\ present \subseteq File /\ live \in File
      /\ mtime \in [File -> File] /\ files \subseteq present
      /\ \A f \in present : f <= live
      /\ phase \in {"truncate", "restat"} => files = {} /\ cur \in present
      /\ phase = "idle" => files = {}
      /\ overtaken \subseteq File
      /\ TypeInv
  BY DEF TimeInv, TypeInv, TypeOK, NewestLive, PassState
<1>n. /\ File \subseteq Nat /\ \A f \in File : mtime[f] \in Nat
      /\ MaxFile \in Nat
  BY <1>t, FileBound DEF File
<1>i. /\ \A f, g \in File : mtime[f] = mtime[g] => f = g
      /\ \A f, g \in files : listed[f] = listed[g] => f = g
      /\ \A f, g \in present : f < g /\ spool[f] # <<>> => mtime[f] < mtime[g]
      /\ \A f, g \in files : f < g /\ spool[f] # <<>> => listed[f] < listed[g]
      /\ \A f \in overtaken : f <= live
      /\ live \notin overtaken =>
           live \in present /\ \A f \in present : mtime[f] <= mtime[live]
      /\ live \in files \ overtaken => \A f \in files : listed[f] <= listed[live]
  BY DEF TimeInv, Apart, WrittenInOrder, LiveLast
<1>0. ASSUME UNCHANGED <<spool, present, live, mtime, files, listed, overtaken>>
      PROVE  (Apart /\ WrittenInOrder /\ LiveLast)'
  BY <1>0, <1>i DEF Apart, WrittenInOrder, LiveLast
<1> USE DEF gateway, memory, store, listing, pass, fate, history
<1>1. ASSUME NEW c \in Call, LogLine(c)
      PROVE  (Apart /\ WrittenInOrder /\ LiveLast)'
  <2>1. UNCHANGED <<present, live, files, listed, overtaken>>
    BY <1>1 DEF LogLine
  <2>2. \/ /\ live \in present
           /\ mtime' = Touched(live)
           /\ \A f \in File \ {live} : spool'[f] = spool[f]
        \/ UNCHANGED <<spool, mtime>>
    BY <1>1, <1>t DEF LogLine
  <2>3. CASE UNCHANGED <<spool, mtime>>
    BY <1>0, <2>1, <2>3
  <2>4. CASE /\ live \in present
             /\ mtime' = Touched(live)
             /\ \A f \in File \ {live} : spool'[f] = spool[f]
    <3>1. /\ \A g \in File \ {live} : mtime'[g] < mtime'[live]
          /\ \A g \in File : mtime'[g] <= mtime'[live]
          /\ \A g, h \in File \ {live} : mtime[g] < mtime[h] => mtime'[g] < mtime'[h]
          /\ \A g, h \in File : mtime'[g] = mtime'[h] => g = h
          /\ mtime' \in [File -> File]
      BY <1>t, <1>i, <2>4, TouchedDoes, TouchedType
    <3>n. \A f \in File : mtime'[f] \in Nat /\ f \in Nat
      BY <1>n, <3>1
    <3>2. \A f, g \in present : f < g => f # live
      BY <1>t, <1>n
    <3>3. \A f, g \in present : f < g /\ spool'[f] # <<>> => mtime'[f] < mtime'[g]
      BY <1>t, <1>i, <2>4, <3>1, <3>2
    <3>4. \A f, g \in files : f < g /\ spool'[f] # <<>> => listed[f] < listed[g]
      BY <1>t, <1>i, <2>4, <3>2
    <3>5. \A f \in present : mtime'[f] <= mtime'[live]
      BY <1>t, <3>1, <3>n
    <3> QED BY <1>i, <2>1, <2>4, <3>1, <3>3, <3>4, <3>5 DEF Apart, WrittenInOrder, LiveLast
  <2> QED BY <2>2, <2>3, <2>4
<1>2. CASE Rotate
  <2>1. /\ live' = live + 1 /\ present' = present \cup {live + 1}
        /\ mtime' = Touched(live + 1) /\ live + 1 \in File
        /\ UNCHANGED <<spool, files, listed, overtaken>>
    BY <1>2, <1>t, <1>n DEF Rotate, File
  <2>2. /\ \A g \in File \ {live + 1} : mtime'[g] < mtime'[live + 1]
        /\ \A g \in File : mtime'[g] <= mtime'[live + 1]
        /\ \A g, h \in File \ {live + 1} : mtime[g] < mtime[h] => mtime'[g] < mtime'[h]
        /\ \A g, h \in File : mtime'[g] = mtime'[h] => g = h
        /\ mtime' \in [File -> File]
    BY <1>t, <1>i, <2>1, TouchedDoes, TouchedType
  <2>n. \A f \in File : mtime'[f] \in Nat /\ f \in Nat
    BY <1>n, <2>2
  <2>3. /\ \A f \in present : f # live + 1 /\ f \in File
        /\ \A f \in overtaken : f <= live + 1 /\ f # live + 1
    <3>1. \A f \in File : f \in Nat
      BY <1>n
    <3> QED BY <1>t, <3>1, <1>i
  <2>4. \A f, g \in present' : f < g /\ spool[f] # <<>> => mtime'[f] < mtime'[g]
    <3> SUFFICES ASSUME NEW f \in present', NEW g \in present', f < g, spool[f] # <<>>
                 PROVE  mtime'[f] < mtime'[g]
      OBVIOUS
    <3>1. f # live + 1
      BY <1>t, <1>n, <2>1
    <3> QED BY <1>i, <2>1, <2>2, <2>3, <3>1
  <2>5. \A f \in present' : mtime'[f] <= mtime'[live + 1]
    BY <2>1, <2>2, <2>3, <2>n
  <2> QED BY <1>i, <1>t, <2>1, <2>2, <2>3, <2>4, <2>5 DEF Apart, WrittenInOrder, LiveLast
<1>3. CASE BeginScan
  BY <1>3, <1>t, <1>i DEF BeginScan, Apart, WrittenInOrder, LiveLast
<1>4. CASE Prune
  <2>1. PICK drop : /\ spool' = [f \in File |-> IF f \in drop THEN <<>> ELSE spool[f]]
                    /\ present' = present \ drop
                    /\ drop \subseteq files \ {LiveFile}
    BY <1>4 DEF Prune, TooOld, TooMuch, Droppable
  <2>2. UNCHANGED <<live, mtime, overtaken>> /\ files' = {} /\ files # {}
    BY <1>4 DEF Prune, TimeInv, TypeInv, PassState
  <2>3. live \notin overtaken => live \notin drop
    <3>1. LiveFile \in files /\ \A g \in files : listed[g] <= listed[LiveFile]
      BY <1>t, <2>2, LiveFileIn
    <3>2. \A f \in files : listed[f] \in Nat
      BY <1>t, FileBound DEF TypeInv, TypeOK
    <3>3. live \in files \ overtaken => listed[live] = listed[LiveFile]
      BY <1>i, <3>1, <3>2
    <3> QED BY <1>i, <2>1, <3>1, <3>3
  <2>4. \A f \in present' : f \in present /\ (spool'[f] # <<>> => spool[f] # <<>>)
    BY <1>t, <2>1
  <2> QED BY <1>i, <1>t, <2>1, <2>2, <2>3, <2>4 DEF Apart, WrittenInOrder, LiveLast
<1>5. CASE Truncate
  <2>1. /\ cur \in present /\ files = {}
        /\ mtime' = Touched(cur)
        /\ spool' = [spool EXCEPT ![cur] = <<>>]
        /\ overtaken' = IF cur = live THEN overtaken ELSE overtaken \cup {live}
        /\ UNCHANGED <<present, live, files, listed>>
    BY <1>5, <1>t DEF Truncate
  <2>2. /\ \A g \in File \ {cur} : mtime'[g] < mtime'[cur]
        /\ \A g \in File : mtime'[g] <= mtime'[cur]
        /\ \A g, h \in File \ {cur} : mtime[g] < mtime[h] => mtime'[g] < mtime'[h]
        /\ \A g, h \in File : mtime'[g] = mtime'[h] => g = h
        /\ mtime' \in [File -> File]
    BY <1>t, <1>i, <2>1, TouchedDoes, TouchedType
  <2>n. \A f \in File : mtime'[f] \in Nat /\ f \in Nat
    BY <1>n, <2>2
  <2>3. spool'[cur] = <<>> /\ \A f \in File \ {cur} : spool'[f] = spool[f]
    BY <1>t, <2>1
  <2>4. \A f, g \in present : f < g /\ spool'[f] # <<>> => mtime'[f] < mtime'[g]
    BY <1>t, <1>i, <2>1, <2>2, <2>3
  <2>5. \A f \in present : mtime'[f] <= mtime'[cur]
    BY <1>t, <2>2, <2>n
  <2>6. /\ \A f \in overtaken' : f <= live
        /\ live \notin overtaken' => live \in present /\ \A f \in present : mtime'[f] <= mtime'[live]
    BY <1>t, <1>n, <1>i, <2>1, <2>5
  <2> QED BY <2>1, <2>2, <2>4, <2>6 DEF Apart, WrittenInOrder, LiveLast
<1>6. CASE Crash
  BY <1>6, <1>i DEF Crash, Apart, WrittenInOrder, LiveLast
<1>7. CASE UNCHANGED vars
  BY <1>0, <1>7 DEF vars
<1>8. ASSUME NEW q \in {1, 2}, Wait(q) PROVE (Apart /\ WrittenInOrder /\ LiveLast)'
  BY <1>0, <1>8 DEF Wait
<1>9. CASE BackoffExpires \/ BeginHeld \/ SkipFile \/ StatFile \/ ReadFile \/ EndScan
  BY <1>0, <1>9 DEF BackoffExpires, BeginHeld, SkipFile, StatFile, ReadFile, EndScan
<1>10. CASE Flush \/ EndFlush
  BY <1>0, <1>10 DEF Flush, KeepRunning, Discard, AppendRecord, AppendFailure,
                     Collect, Visit, EndFlush
<1>11. CASE SendAcked \/ SendFails \/ SendStops
  BY <1>0, <1>11 DEF SendAcked, SendFails, SendStops
<1>12. CASE TruncateFails \/ Restat
  BY <1>0, <1>12 DEF TruncateFails, Restat
<1> QED
  BY <1>1, <1>2, <1>3, <1>4, <1>5, <1>6, <1>7, <1>8, <1>9, <1>10, <1>11, <1>12
  DEF Next, Once, Scan, Ship, Reclaim, Gateway, Clock

(* The sweeps unlink the file New API has open only if a truncate of an     *)
(* older file made that one the newest: for any rotations, passes, restarts *)
(* and any choice of what is too old or too much.                           *)
THEOREM OpenFileKept == Spec => []LiveFileKept
<1>1. TimeInv => LiveFileKept
  BY DEF TimeInv, LiveLast, LiveFileKept
<1> QED BY <1>1, InitTimeInv, StepTimeInv, PTL DEF Spec

-----------------------------------------------------------------------------
(* No line is lost silently. It rests on no offset being past the end of    *)
(* its file, except between a truncation and the stat that follows it, and  *)
(* on what lies past the offset of a file being truncated having been       *)
(* written since it was last seen to be consumed.                           *)

OffsetBound ==
  \A f \in File : offsets[f] <= Len(spool[f]) \/ (phase = "restat" /\ f = cur)

WindowKnown ==
  /\ phase = "read" => offsets[cur] <= size
  /\ phase = "truncate" =>
       \A k \in DOMAIN spool[cur] : k > offsets[cur] => spool[cur][k] \in windowed
  /\ phase = "restat" =>
       \A k \in DOMAIN spool[cur] : spool[cur][k] \in windowed

FileInv == TypeInv /\ OffsetBound /\ WindowKnown

LEMMA InitFileInv == Init => FileInv
<1> SUFFICES ASSUME Init PROVE FileInv
  OBVIOUS
<1>1. TypeInv
  BY InitTypeInv
<1>2. OffsetBound
  BY EmptySeq DEF Init, OffsetBound
<1>3. WindowKnown
  BY DEF Init, WindowKnown
<1> QED BY <1>1, <1>2, <1>3 DEF FileInv

LEMMA StepFileInv == FileInv /\ [Next]_vars => FileInv'
<1> SUFFICES ASSUME FileInv, [Next]_vars PROVE OffsetBound' /\ WindowKnown'
  BY StepTypeInv DEF FileInv
<1>0. TypeInv /\ TypeInv' /\ TypeOK /\ PassState /\ OffsetBound /\ WindowKnown
  BY StepTypeInv DEF FileInv, TypeInv
<1>t. /\ spool \in [File -> Seq(Line)] /\ offsets \in [File -> Nat]
      /\ spool' \in [File -> Seq(Line)] /\ offsets' \in [File -> Nat]
      /\ size \in Nat /\ live \in File
      /\ \A f \in File : Len(spool[f]) \in Nat /\ DOMAIN spool[f] = 1..Len(spool[f])
  <2>1. /\ spool \in [File -> Seq(Line)] /\ offsets \in [File -> Nat]
        /\ spool' \in [File -> Seq(Line)] /\ offsets' \in [File -> Nat]
        /\ size \in Nat /\ live \in File
    BY <1>0 DEF TypeInv, TypeOK
  <2>2. \A f \in File : Len(spool[f]) \in Nat /\ DOMAIN spool[f] = 1..Len(spool[f])
    BY <2>1
  <2> QED BY <2>1, <2>2
<1>c. phase \in {"read", "truncate", "restat"} => cur \in File
  BY <1>0 DEF TypeOK, PassState
<1> USE DEF OffsetBound, WindowKnown, gateway, memory, store, listing, pass, fate, history
<1>1. ASSUME UNCHANGED <<spool, offsets, windowed>>,
             phase' \notin {"read", "truncate", "restat"}, phase # "restat"
      PROVE  OffsetBound' /\ WindowKnown'
  BY <1>0, <1>1
<1>2. ASSUME NEW c \in Call, LogLine(c) PROVE OffsetBound' /\ WindowKnown'
  <2> DEFINE l == <<c, written[c] + 1>>
  <2>1. UNCHANGED <<offsets, phase, cur, size, live>>
    BY <1>2 DEF LogLine
  <2>2. l \in Line
    BY <1>0 DEF TypeOK, Line
  <2>3. CASE UNCHANGED <<spool, windowed>>
    BY <1>0, <2>1, <2>3
  <2>4. CASE /\ spool' = [spool EXCEPT ![live] = Append(@, l)]
             /\ windowed' = IF phase \in {"truncate", "restat"} /\ cur = live
                            THEN windowed \cup {l} ELSE windowed
    <3> HIDE DEF l
    <3>1. /\ \A f \in File : f # live => spool'[f] = spool[f]
          /\ Len(spool'[live]) = Len(spool[live]) + 1
          /\ spool'[live][Len(spool[live]) + 1] = l
          /\ \A k \in 1..Len(spool[live]) : spool'[live][k] = spool[live][k]
          /\ DOMAIN spool'[live] = 1..(Len(spool[live]) + 1)
      BY <1>t, <2>2, <2>4, AddLine
    <3>2. OffsetBound'
      BY <1>0, <1>t, <2>1, <3>1
    <3>3. WindowKnown'
      BY <1>0, <1>t, <1>c, <2>1, <2>4, <3>1
    <3> QED BY <3>2, <3>3
  <2> QED BY <1>2, <2>3, <2>4 DEF LogLine
<1>3. CASE StatFile
  <2>1. NextFile \in File
    BY <1>0, <1>3, NextFileIn DEF StatFile, TypeInv, TypeOK
  <2>2. offsets[NextFile] <= Len(spool[NextFile])
    BY <1>0, <1>3, <2>1 DEF StatFile
  <2> QED BY <1>0, <1>3, <2>1, <2>2 DEF StatFile
<1>4. CASE ReadFile
  <2>1. cur \in File /\ size <= Len(spool[cur]) /\ offsets' = [offsets EXCEPT ![cur] = size]
        /\ UNCHANGED <<spool, windowed>> /\ phase' = "scan" /\ phase = "read"
    BY <1>0, <1>4, <1>c DEF ReadFile, PassState
  <2> QED BY <1>0, <1>t, <2>1
<1>5. CASE EndScan
  BY <1>0, <1>t, <1>5 DEF EndScan
<1>6. CASE Prune
  <2>1. PICK drop : /\ spool' = [f \in File |-> IF f \in drop THEN <<>> ELSE spool[f]]
                    /\ offsets' = [f \in File |-> IF f \in drop THEN 0 ELSE offsets[f]]
                    /\ IF MayTruncate(drop)
                       THEN phase' = "truncate" /\ cur' = LiveFile
                       ELSE phase' = "idle" /\ cur' = 0
                    /\ LiveFile \notin drop
    BY <1>6 DEF Prune, TooOld, TooMuch, Droppable
  <2>2. LiveFile \in File
    BY <1>0, <1>6, LiveFileIn DEF Prune, TypeInv, TypeOK, PassState
  <2>3. OffsetBound'
    BY <1>0, <1>6, <1>t, <2>1, EmptySeq DEF Prune
  <2>4. ASSUME phase' = "truncate"
        PROVE  WindowKnown'
    <3>1. cur' = LiveFile /\ offsets[LiveFile] >= Len(spool[LiveFile])
      BY <2>1, <2>4 DEF MayTruncate, Consumed
    <3>2. \A k \in DOMAIN spool'[cur'] : ~(k > offsets'[cur'])
      BY <1>t, <2>1, <2>2, <3>1
    <3> QED BY <2>4, <3>2
  <2>5. ASSUME phase' = "idle"
        PROVE  WindowKnown'
    BY <2>5
  <2> QED BY <2>1, <2>3, <2>4, <2>5
<1>7. CASE Truncate
  <2>1. /\ spool' = [spool EXCEPT ![cur] = <<>>] /\ cur \in File
        /\ phase' = "restat" /\ phase = "truncate" /\ UNCHANGED <<offsets, cur, windowed>>
    BY <1>7, <1>c DEF Truncate
  <2>2. spool'[cur] = <<>> /\ \A f \in File : f # cur => spool'[f] = spool[f]
    BY <1>t, <2>1
  <2> QED BY <1>0, <1>t, <2>1, <2>2
<1>8. CASE TruncateFails
  BY <1>0, <1>8 DEF TruncateFails
<1>9. CASE Restat
  BY <1>0, <1>9, <1>t, <1>c DEF Restat
<1>10. CASE Crash
  BY <1>0, <1>10, <1>t DEF Crash
<1>11. CASE UNCHANGED vars
  BY <1>0, <1>11 DEF vars
<1>12. CASE Rotate
  BY <1>0, <1>12 DEF Rotate
<1>13. ASSUME NEW q \in {1, 2}, Wait(q) PROVE OffsetBound' /\ WindowKnown'
  BY <1>0, <1>13 DEF Wait
<1>14. CASE BackoffExpires \/ BeginHeld \/ BeginScan \/ SkipFile
  BY <1>1, <1>14 DEF BackoffExpires, BeginHeld, BeginScan, SkipFile
<1>15. CASE EndFlush \/ SendStops
  BY <1>1, <1>15 DEF EndFlush, SendStops, AfterFlush
<1>16. CASE Flush
  BY <1>1, <1>16 DEF Flush, KeepRunning, Discard, AppendRecord, AppendFailure,
                     Collect, Visit
<1>17. CASE SendAcked \/ SendFails
  BY <1>1, <1>17 DEF SendAcked, SendFails
<1> QED
  BY <1>2, <1>3, <1>4, <1>5, <1>6, <1>7, <1>8, <1>9, <1>10, <1>11, <1>12,
     <1>13, <1>14, <1>15, <1>16, <1>17
  DEF Next, Once, Scan, Ship, Reclaim, Gateway, Clock

(* What accounts for a line before a step still does after it. *)
Keeps == \A l \in Line : Accounted(l) => Accounted(l)'

(* Versions are only added, to the index or to those lost from it. *)
StoreGrows ==
  \A c \in Call :
    /\ \A i \in DOMAIN archive[c] :
         i \in DOMAIN archive'[c] /\ archive'[c][i] = archive[c][i]
    /\ swallowed[c] \subseteq swallowed'[c]

LEMMA StoredStays ==
  ASSUME StoreGrows, NEW l \in Line
  PROVE  /\ IsStored(l) => IsStored(l)'
         /\ IsSwallowed(l) => IsSwallowed(l)'
<1>1. l[1] \in Call
  BY DEF Line
<1> QED BY <1>1, Zenon DEF StoreGrows, IsStored, IsSwallowed

LEMMA KeepsUntouched ==
  ASSUME UNCHANGED <<spool, offsets, dismissed, windowed, gone, skipped, orphaned>>,
         present \subseteq present', StoreGrows,
         \A c \in Call : rec'[c].lines = rec[c].lines /\ rec'[c].cut = rec[c].cut
  PROVE  Keeps
<1> SUFFICES ASSUME NEW l \in Line, Accounted(l) PROVE Accounted(l)'
  BY DEF Keeps
<1>1. l[1] \in Call
  BY DEF Line
<1>2. IsUnread(l) => IsUnread(l)'
  BY DEF IsUnread
<1>3. IsHeld(l) => IsHeld(l)'
  BY <1>1 DEF IsHeld
<1> QED BY <1>2, <1>3, StoredStays DEF Accounted

LEMMA KeepsUnread ==
  ASSUME TypeInv, UNCHANGED <<spool, present>>,
         \A f \in File : offsets'[f] \in Nat /\ offsets'[f] <= offsets[f]
  PROVE  \A l : IsUnread(l) => IsUnread(l)'
<1> SUFFICES ASSUME NEW l, NEW f \in present, NEW k \in DOMAIN spool[f],
                    k > offsets[f], spool[f][k] = l
             PROVE  IsUnread(l)'
  BY DEF IsUnread
<1>1. f \in File /\ offsets[f] \in Nat /\ k \in Nat
  <2>1. f \in File /\ offsets[f] \in Nat /\ spool[f] \in Seq(Line)
    BY DEF TypeInv, TypeOK
  <2> QED BY <2>1
<1>2. k > offsets'[f]
  <2>1. offsets'[f] <= offsets[f]
    BY <1>1
  <2> QED BY <1>1, <2>1
<1> QED BY <1>1, <1>2 DEF IsUnread

LEMMA StoredByAppend ==
  ASSUME NEW s \in Seq(Version), NEW v \in Version
  PROVE  /\ \A i \in DOMAIN s : i \in DOMAIN Append(s, v) /\ Append(s, v)[i] = s[i]
         /\ \E i \in DOMAIN Append(s, v) : Append(s, v)[i] = v
<1>1. /\ Len(s) \in Nat /\ DOMAIN s = 1..Len(s)
      /\ DOMAIN Append(s, v) = 1..(Len(s) + 1)
      /\ Append(s, v)[Len(s) + 1] = v
  OBVIOUS
<1>2. \A i \in 1..Len(s) : Append(s, v)[i] = s[i]
  OBVIOUS
<1>3. Len(s) + 1 \in DOMAIN Append(s, v)
  BY <1>1
<1> QED BY <1>1, <1>2, <1>3

(* What writing entries for the records of S does: the versions all stay,   *)
(* and a record of S is among those of its call, or among those lost.       *)
LEMMA EnteredDoes ==
  ASSUME rec \in [Call -> Record], archive \in [Call -> Seq(Version)],
         swallowed \in [Call -> SUBSET Version], NEW S, NEW c \in Call
  PROVE  /\ \A i \in DOMAIN archive[c] :
              i \in DOMAIN Entered(S)[c] /\ Entered(S)[c][i] = archive[c][i]
         /\ c \in S \ Glued(S) =>
              /\ Entered(S)[c] = Append(archive[c], VersionOf(Judged(c)))
              /\ Len(Entered(S)[c]) = Len(archive[c]) + 1
              /\ \E i \in DOMAIN Entered(S)[c] : Entered(S)[c][i] = VersionOf(Judged(c))
         /\ c \notin S \ Glued(S) => Entered(S)[c] = archive[c]
         /\ swallowed[c] \subseteq Lost(S)[c]
         /\ c \in S => VersionOf(Judged(c)) \in Lost(S)[c]
<1> DEFINE v == VersionOf(Judged(c))
<1>1. v \in Version /\ archive[c] \in Seq(Version)
  BY JudgedType
<1>2. Entered(S)[c] = IF c \in S \ Glued(S) THEN Append(archive[c], v) ELSE archive[c]
  BY DEF Entered
<1>3. Lost(S)[c] = IF c \in S THEN swallowed[c] \cup {v} ELSE swallowed[c]
  BY DEF Lost
<1> HIDE DEF v
<1>4. /\ \A i \in DOMAIN archive[c] :
           i \in DOMAIN Append(archive[c], v) /\ Append(archive[c], v)[i] = archive[c][i]
      /\ \E i \in DOMAIN Append(archive[c], v) : Append(archive[c], v)[i] = v
      /\ Len(Append(archive[c], v)) = Len(archive[c]) + 1
  <2>1. Len(Append(archive[c], v)) = Len(archive[c]) + 1
    BY <1>1
  <2> QED BY <1>1, <2>1, StoredByAppend
<1> QED BY <1>2, <1>3, <1>4 DEF v

(* Appends, pushes and failed ones only add versions. *)
LEMMA StoreMoves ==
  ASSUME TypeInv, NEW S, archive' = Entered(S),
         NEW T, swallowed' = Lost(T)
  PROVE  StoreGrows
BY EnteredDoes DEF StoreGrows, TypeInv, TypeOK

LEMMA StoreSame ==
  ASSUME UNCHANGED <<archive, swallowed>>
  PROVE  StoreGrows
BY DEF StoreGrows

LEMMA LogLineAccounted ==
  ASSUME FileInv, LineAccounted, NEW c \in Call, LogLine(c)
  PROVE  LineAccounted'
<1>l. PICK l : l = <<c, written[c] + 1>>
  OBVIOUS
<1>0. TypeInv /\ TypeOK /\ OffsetBound /\ WindowKnown
  BY DEF FileInv, TypeInv
<1>1. /\ written' = [written EXCEPT ![c] = @ + 1]
      /\ UNCHANGED <<offsets, rec, archive, present, gone, dismissed, skipped, swallowed>>
      /\ \/ /\ live \in present
            /\ spool' = [spool EXCEPT ![live] = Append(@, l)]
            /\ windowed' = IF phase \in {"truncate", "restat"} /\ cur = live
                           THEN windowed \cup {l} ELSE windowed
            /\ orphaned' = orphaned
         \/ /\ orphaned' = orphaned \cup {l}
            /\ UNCHANGED <<spool, windowed>>
  BY <1>l DEF LogLine, memory, store
<1>2. /\ l \in Line /\ live \in File
      /\ spool \in [File -> Seq(Line)] /\ offsets \in [File -> Nat]
      /\ written \in [Call -> Nat] /\ present \subseteq File
  BY SMTT(20), <1>0, <1>l DEF TypeOK, Line
<1>n. live \in present =>
        /\ Len(spool[live]) \in Nat /\ DOMAIN spool[live] = 1..Len(spool[live])
  BY <1>2
<1>3. \/ spool' = spool
      \/ /\ live \in present
         /\ \A f \in File : f # live => spool'[f] = spool[f]
         /\ Len(spool[live]) \in Nat
         /\ spool'[live][Len(spool[live]) + 1] = l
         /\ \A k \in 1..Len(spool[live]) : spool'[live][k] = spool[live][k]
         /\ DOMAIN spool'[live] = 1..(Len(spool[live]) + 1)
         /\ DOMAIN spool[live] = 1..Len(spool[live])
  <2>1. CASE live \in present /\ spool' = [spool EXCEPT ![live] = Append(@, l)]
    <3>1. /\ \A g \in File : g # live => spool'[g] = spool[g]
          /\ Len(spool[live]) \in Nat
          /\ spool'[live][Len(spool[live]) + 1] = l
          /\ \A k \in 1..Len(spool[live]) : spool'[live][k] = spool[live][k]
          /\ DOMAIN spool'[live] = 1..(Len(spool[live]) + 1)
      BY <1>2, <2>1, AddLine
    <3> QED BY <1>n, <2>1, <3>1
  <2> QED BY <1>1, <2>1
<1>4. ASSUME NEW m, Accounted(m) PROVE Accounted(m)'
  <2>1. IsUnread(m) => IsUnread(m)'
    <3> SUFFICES ASSUME NEW f \in present, NEW k \in DOMAIN spool[f],
                        k > offsets[f], spool[f][k] = m
                 PROVE  IsUnread(m)'
      BY DEF IsUnread
    <3>1. k \in DOMAIN spool'[f] /\ spool'[f][k] = m
      <4>1. CASE f = live /\ spool' # spool
        <5>1. k \in 1..Len(spool[live]) /\ spool[live][k] = m
          BY <1>3, <4>1
        <5>2. k \in 1..(Len(spool[live]) + 1)
          BY <1>3, <4>1, <5>1
        <5>3. spool'[live][k] = m
          BY <1>3, <4>1, <5>1
        <5> QED BY <1>3, <4>1, <5>2, <5>3
      <4>2. CASE f # live \/ spool' = spool
        BY <1>2, <1>3, <4>2
      <4> QED BY <4>1, <4>2
    <3> QED BY <1>1, <3>1 DEF IsUnread
  <2>2. IsHeld(m) => IsHeld(m)'
    BY <1>1 DEF IsHeld
  <2>3. IsStored(m) => IsStored(m)'
    BY <1>1 DEF IsStored
  <2>4. IsSwallowed(m) => IsSwallowed(m)'
    BY <1>1 DEF IsSwallowed
  <2>5. windowed \subseteq windowed' /\ orphaned \subseteq orphaned'
    BY <1>1
  <2> QED BY <1>1, <1>4, <2>1, <2>2, <2>3, <2>4, <2>5 DEF Accounted
<1>5. Accounted(l)'
  <2>1. CASE l \in orphaned'
    BY <2>1 DEF Accounted
  <2>2. CASE /\ live \in present /\ offsets[live] <= Len(spool[live])
             /\ spool' = [spool EXCEPT ![live] = Append(@, l)]
    <3>1. /\ Len(spool[live]) + 1 \in DOMAIN spool'[live]
          /\ spool'[live][Len(spool[live]) + 1] = l
      <4>1. /\ DOMAIN spool'[live] = 1..(Len(spool[live]) + 1)
            /\ spool'[live][Len(spool[live]) + 1] = l
        BY <1>2, <2>2, AddLine
      <4> QED BY <1>n, <2>2, <4>1
    <3>2. Len(spool[live]) + 1 > offsets'[live] /\ live \in present'
      <4>1. offsets' = offsets /\ present' = present
        BY <1>1
      <4>2. offsets[live] \in Nat /\ Len(spool[live]) \in Nat
        BY <1>2, <1>n, <2>2
      <4> QED BY <2>2, <4>1, <4>2
    <3>3. IsUnread(l)'
      BY <3>1, <3>2 DEF IsUnread
    <3> QED BY <3>3 DEF Accounted
  <2>3. CASE phase = "restat" /\ live = cur /\ l \notin orphaned'
    <3>1. l \in windowed'
      BY <1>1, <2>3
    <3> QED BY <3>1 DEF Accounted
  <2> QED BY <1>0, <1>1, <1>2, <2>1, <2>2, <2>3 DEF OffsetBound
<1>6. ASSUME NEW d \in Call, NEW n \in 1..written'[d], ~(d = c /\ n = written[c] + 1)
      PROVE  n \in 1..written[d]
  BY <1>1, <1>2, <1>6
<1>7. ASSUME NEW d \in Call, NEW n \in 1..written'[d]
      PROVE  Accounted(<<d, n>>)'
  <2>1. CASE d = c /\ n = written[c] + 1
    BY <1>5, <1>l, <2>1
  <2>2. CASE ~(d = c /\ n = written[c] + 1)
    <3>1. Accounted(<<d, n>>)
      BY <1>6, <2>2 DEF LineAccounted
    <3> QED BY <1>4, <3>1
  <2> QED BY <2>1, <2>2
<1> QED BY <1>7 DEF LineAccounted

LEMMA ReadFileKeeps ==
  ASSUME FileInv, ReadFile
  PROVE  Keeps
<1>0. TypeInv /\ TypeOK /\ PassState /\ OffsetBound /\ WindowKnown
  BY DEF FileInv, TypeInv
<1>1. /\ cur \in File /\ cur \in present /\ phase = "read"
      /\ offsets' = [offsets EXCEPT ![cur] = size]
      /\ UNCHANGED <<spool, present, archive, gone, windowed, dismissed, orphaned,
                     swallowed>>
  BY <1>0 DEF ReadFile, PassState, TypeOK, gateway, store, fate
<1>2. /\ spool \in [File -> Seq(Line)] /\ offsets \in [File -> Nat] /\ size \in Nat
      /\ present \subseteq File /\ rec \in [Call -> Record]
  BY <1>0 DEF TypeOK
<1>3. ResumeAt(cur) = offsets[cur] /\ size <= Len(spool[cur])
  BY <1>0, <1>1, <1>2 DEF WindowKnown, PassState, ResumeAt
<1>4. PICK r \in Reading(cur) :
        /\ rec' = Fold(cur, r)
        /\ skipped' = skipped \cup
             {spool[cur][k] : k \in ((ResumeAt(cur) + 1)..size) \ r.whole}
  BY DEF ReadFile
<1>5. /\ r \in Read(cur)
      /\ r.head \subseteq Scanned(cur) \ r.whole
  BY <1>1, <1>2, <1>4, ReadingType
<1>6. \A c \in Call : /\ rec'[c].lines = rec[c].lines \cup Fresh(cur, r, c)
                      /\ rec'[c].cut = (rec[c].cut \ Fresh(cur, r, c)) \cup Heads(cur, r, c)
  BY <1>1, <1>2, <1>4, <1>5, FoldType
<1> SUFFICES ASSUME NEW l \in Line, Accounted(l) PROVE Accounted(l)'
  BY DEF Keeps
<1>7. l[1] \in Call /\ l = <<l[1], l[2]>>
  BY DEF Line
<1>8. ASSUME NEW k \in DOMAIN spool[cur], k > offsets[cur], k \notin r.whole,
             spool[cur][k] = l
      PROVE  Accounted(l)'
  <2>1. k \in Nat /\ offsets[cur] \in Nat
    BY <1>1, <1>2
  <2>2. CASE k > size
    BY <1>1, <1>2, <1>8, <2>1, <2>2 DEF Accounted, IsUnread
  <2>3. CASE k <= size
    <3>1. k \in (ResumeAt(cur) + 1)..size
      BY <1>2, <1>3, <1>8, <2>1, <2>3
    <3> QED BY <1>4, <1>8, <3>1 DEF Accounted
  <2> QED BY <1>2, <2>1, <2>2, <2>3
<1>9. ASSUME l[2] \in Heads(cur, r, l[1]) PROVE Accounted(l)'
  <2>1. PICK k \in Mine(cur, r, l[1]) \cap r.head : spool[cur][k][2] = l[2]
    BY <1>9 DEF Heads
  <2>2. spool[cur][k] \in Line /\ spool[cur][k][1] = l[1] /\ k \in DOMAIN spool[cur]
    <3>1. spool[cur][k] \in Line /\ k \in DOMAIN spool[cur]
      BY <1>1, <1>2, <1>5, <2>1, MineType
    <3> QED BY <2>1, <3>1 DEF Mine
  <2>3. spool[cur][k] = l
    BY <1>7, <2>1, <2>2 DEF Line
  <2>4. k > offsets[cur] /\ k \notin r.whole
    BY <1>1, <1>2, <1>3, <1>5, <2>1 DEF Scanned
  <2> QED BY <1>8, <2>2, <2>3, <2>4
<1>10. ASSUME IsHeld(l) PROVE Accounted(l)'
  <2>1. CASE l[2] \in Heads(cur, r, l[1])
    BY <1>9, <2>1
  <2>2. CASE l[2] \notin Heads(cur, r, l[1])
    <3>1. IsHeld(l)'
      BY <1>6, <1>7, <1>10, <2>2 DEF IsHeld
    <3> QED BY <3>1 DEF Accounted
  <2> QED BY <2>1, <2>2
<1>11. ASSUME NEW f \in present, NEW k \in DOMAIN spool[f],
              k > offsets[f], spool[f][k] = l
       PROVE  Accounted(l)'
  <2>1. k \in Nat /\ f \in File
    BY <1>2
  <2>2. CASE f # cur
    BY <1>1, <1>2, <1>11, <2>1, <2>2 DEF Accounted, IsUnread
  <2>3. CASE f = cur /\ k \notin r.whole
    BY <1>8, <1>11, <2>3
  <2>4. CASE f = cur /\ k \in r.whole
    <3>1. l[2] \in Fresh(cur, r, l[1])
      BY <1>11, <2>4 DEF Fresh, Mine
    <3>2. CASE l[2] \in Heads(cur, r, l[1])
      BY <1>9, <3>2
    <3>3. CASE l[2] \notin Heads(cur, r, l[1])
      <4>1. IsHeld(l)'
        BY <1>6, <1>7, <3>1, <3>3 DEF IsHeld
      <4> QED BY <4>1 DEF Accounted
    <3> QED BY <3>2, <3>3
  <2> QED BY <2>2, <2>3, <2>4
<1>12. skipped \subseteq skipped'
  BY <1>4
<1>13. (IsStored(l) => IsStored(l)') /\ (IsSwallowed(l) => IsSwallowed(l)')
  BY <1>1 DEF IsStored, IsSwallowed
<1> QED BY <1>1, <1>10, <1>11, <1>12, <1>13 DEF Accounted, IsUnread

LEMMA EndScanKeeps ==
  ASSUME FileInv, EndScan
  PROVE  Keeps
<1>1. /\ UNCHANGED <<spool, present, rec, archive, gone, windowed, skipped, dismissed,
                     orphaned, swallowed>>
      /\ offsets' = [f \in File |-> IF f \in files THEN offsets[f] ELSE 0]
  BY DEF EndScan, gateway, store, fate, history
<1>2. TypeInv /\ offsets \in [File -> Nat]
  BY DEF FileInv, TypeInv, TypeOK
<1>3. \A l : IsUnread(l) => IsUnread(l)'
  BY <1>1, <1>2, KeepsUnread
<1>4. \A l : (IsHeld(l) => IsHeld(l)') /\ (IsStored(l) => IsStored(l)')
             /\ (IsSwallowed(l) => IsSwallowed(l)')
  BY <1>1 DEF IsHeld, IsStored, IsSwallowed
<1> QED BY <1>1, <1>3, <1>4 DEF Keeps, Accounted

(* Records that are written leave memory for the index, or are lost. *)
LEMMA WrittenKeeps ==
  ASSUME TypeInv, NEW B \in SUBSET Call, NEW S \in SUBSET B, NEW T, Glued(S) \subseteq T,
         UNCHANGED <<spool, offsets, present, windowed, gone, skipped, orphaned>>,
         dismissed \subseteq dismissed',
         \A c \in Call \ B : rec'[c] = rec[c],
         \A c \in B \ (S \cup T) : LinesOf(c, rec[c]) \subseteq dismissed',
         archive' = Entered(S), swallowed' = Lost(T)
  PROVE  Keeps
<1>0. /\ rec \in [Call -> Record] /\ archive \in [Call -> Seq(Version)]
      /\ swallowed \in [Call -> SUBSET Version]
  BY DEF TypeInv, TypeOK
<1>1. StoreGrows
  BY StoreMoves
<1>2. ASSUME NEW l \in Line, IsHeld(l)
      PROVE  IsHeld(l)' \/ IsStored(l)' \/ IsSwallowed(l)' \/ l \in dismissed'
  <2> DEFINE c == l[1]
  <2>0. c \in Call /\ l = <<c, l[2]>> /\ l[2] \in rec[c].lines \ rec[c].cut
    BY <1>2 DEF Line, IsHeld
  <2>1. CASE c \notin B
    BY <1>2, <2>0, <2>1 DEF IsHeld
  <2>2. CASE c \in B \ (S \cup T)
    <3>1. l \in LinesOf(c, rec[c])
      BY <2>0 DEF LinesOf
    <3> QED BY <2>2, <3>1
  <2>3. VersionOf(Judged(c)).lines = rec[c].lines \ rec[c].cut
    BY <1>0, <2>0, JudgedType
  <2>4. CASE c \in T
    <3>1. VersionOf(Judged(c)) \in swallowed'[c]
      BY <1>0, <2>0, <2>4, EnteredDoes
    <3> QED BY <2>0, <2>3, <3>1 DEF IsSwallowed
  <2>5. CASE c \in S /\ c \notin T
    <3>1. \E i \in DOMAIN archive'[c] : archive'[c][i] = VersionOf(Judged(c))
      BY <1>0, <2>0, <2>5, EnteredDoes
    <3> QED BY <2>0, <2>3, <3>1 DEF IsStored
  <2> QED BY <2>1, <2>2, <2>4, <2>5
<1>3. \A l : IsUnread(l) => IsUnread(l)'
  BY DEF IsUnread
<1> QED BY <1>1, <1>2, <1>3, StoredStays DEF Keeps, Accounted

LEMMA FlushKeeps ==
  ASSUME FileInv, Flush
  PROVE  Keeps
<1>0. /\ rec \in [Call -> Record] /\ TypeInv
  BY DEF FileInv, TypeInv, TypeOK
<1> PICK c \in Call : \/ KeepRunning(c) \/ Discard(c) \/ AppendRecord(c)
                      \/ AppendFailure(c) \/ Collect(c)
  BY DEF Flush
<1> USE DEF gateway, memory, store, fate, history
<1>1. CASE KeepRunning(c)
  BY <1>1, KeepsUntouched, StoreSame DEF KeepRunning
<1>2. CASE AppendFailure(c) \/ Collect(c)
  <2>1. rec' = [rec EXCEPT ![c] = Judged(c)]
    BY <1>2 DEF AppendFailure, Collect, Retained
  <2>2. \A d \in Call : rec'[d].lines = rec[d].lines /\ rec'[d].cut = rec[d].cut
    BY <1>0, <2>1, JudgedType
  <2>3. \/ UNCHANGED <<archive, swallowed>>
        \/ archive' = Entered({c}) /\ swallowed' = Lost(Glued({c}))
    BY <1>2 DEF AppendFailure, Collect
  <2>4. StoreGrows
    BY <1>0, <2>3, StoreSame, StoreMoves
  <2>5. UNCHANGED <<spool, present, offsets, dismissed, windowed, gone, skipped, orphaned>>
    BY <1>2 DEF AppendFailure, Collect
  <2> QED BY <2>2, <2>4, <2>5, KeepsUntouched
<1>3. CASE Discard(c)
  <2>1. /\ UNCHANGED <<spool, present, offsets, archive, gone, windowed, skipped, orphaned,
                       swallowed>>
        /\ rec' = [rec EXCEPT ![c] = Blank]
        /\ dismissed' = dismissed \cup LinesOf(c, rec[c])
    BY <1>3 DEF Discard
  <2>2. \A l \in Line : IsHeld(l) => IsHeld(l)' \/ l \in dismissed'
    BY <1>0, <2>1 DEF IsHeld, LinesOf, Line
  <2>3. \A l : /\ IsUnread(l) => IsUnread(l)'
               /\ IsStored(l) => IsStored(l)'
               /\ IsSwallowed(l) => IsSwallowed(l)'
    BY <2>1 DEF IsUnread, IsStored, IsSwallowed
  <2> SUFFICES ASSUME NEW l \in Line, Accounted(l) PROVE Accounted(l)'
    BY DEF Keeps
  <2> QED BY <2>1, <2>2, <2>3 DEF Accounted
<1>4. CASE AppendRecord(c)
  <2>1. /\ UNCHANGED <<spool, present, offsets, gone, windowed, skipped, dismissed,
                       orphaned>>
        /\ rec' = [rec EXCEPT ![c] = Blank]
        /\ archive' = Entered({c}) /\ swallowed' = Lost(Glued({c}))
    BY <1>4 DEF AppendRecord
  <2>2. \A d \in Call \ {c} : rec'[d] = rec[d]
    BY <1>0, <2>1
  <2> QED BY <1>0, <2>1, <2>2, WrittenKeeps
<1> QED BY <1>1, <1>2, <1>3, <1>4

LEMMA SendAckedKeeps ==
  ASSUME FileInv, SendAcked
  PROVE  Keeps
<1>0. TypeInv /\ Batch \in SUBSET Call
  BY DEF FileInv, TypeInv, TypeOK, Batch
<1>1. PICK S \in Appended(Batch) :
        /\ archive' = Entered(S)
        /\ swallowed' = Lost(Glued(S) \cup {c \in Batch \ S : ~Listed(c)})
  BY DEF SendAcked
<1>2. /\ UNCHANGED <<spool, present, offsets, gone, windowed, skipped, orphaned>>
      /\ \A c \in Call \ Batch : rec'[c] = rec[c]
      /\ dismissed' = dismissed \cup
           UNION {LinesOf(c, rec[c]) : c \in {d \in Batch : Listed(d)}}
  BY DEF SendAcked, gateway
<1>3. S \in SUBSET Batch
  BY DEF Appended
<1> DEFINE T == Glued(S) \cup {c \in Batch \ S : ~Listed(c)}
<1>4. \A c \in Batch \ (S \cup T) : Listed(c)
  OBVIOUS
<1>5. \A c \in Batch \ (S \cup T) : LinesOf(c, rec[c]) \subseteq dismissed'
  BY <1>2, <1>4
<1>6. Glued(S) \subseteq T /\ swallowed' = Lost(T) /\ dismissed \subseteq dismissed'
  BY <1>1, <1>2
<1> HIDE DEF T
<1> QED BY <1>0, <1>1, <1>2, <1>3, <1>5, <1>6, WrittenKeeps

LEMMA SendFailsKeeps ==
  ASSUME FileInv, SendFails
  PROVE  Keeps
<1>0. rec \in [Call -> Record] /\ TypeInv
  BY DEF FileInv, TypeInv, TypeOK
<1>1. /\ UNCHANGED <<spool, present, offsets, gone, windowed, skipped, dismissed,
                     orphaned>>
      /\ \A c \in Call : rec'[c] \in {Judged(c), rec[c]}
  BY DEF SendFails, Retained, gateway, fate, history
<1>2. StoreGrows
  BY <1>0, SendFailsDoes, StoreMoves
<1>3. \A c \in Call : rec'[c].lines = rec[c].lines /\ rec'[c].cut = rec[c].cut
  BY <1>0, <1>1, JudgedType
<1> QED BY <1>1, <1>2, <1>3, KeepsUntouched

LEMMA PruneKeeps ==
  ASSUME FileInv, Prune
  PROVE  Keeps
<1>0. /\ spool \in [File -> Seq(Line)] /\ offsets \in [File -> Nat]
      /\ present \subseteq File
  BY DEF FileInv, TypeInv, TypeOK
<1>1. PICK cutoff \in 0..MaxFile :
        LET drop == TooOld(cutoff) \cup TooMuch(TooOld(cutoff))
        IN /\ spool' = [f \in File |-> IF f \in drop THEN <<>> ELSE spool[f]]
           /\ offsets' = [f \in File |-> IF f \in drop THEN 0 ELSE offsets[f]]
           /\ present' = present \ drop
  BY DEF Prune
<1> DEFINE drop == TooOld(cutoff) \cup TooMuch(TooOld(cutoff))
<1>2. \A f \in drop : Consumed(f)
  BY DEF TooOld, TooMuch, Droppable
<1> HIDE DEF drop
<1>3. /\ spool' = [f \in File |-> IF f \in drop THEN <<>> ELSE spool[f]]
      /\ offsets' = [f \in File |-> IF f \in drop THEN 0 ELSE offsets[f]]
      /\ present' = present \ drop
  BY <1>1 DEF drop
<1>4. ASSUME NEW l, IsUnread(l) PROVE IsUnread(l)'
  <2>1. PICK f \in present : \E k \in DOMAIN spool[f] : k > offsets[f] /\ spool[f][k] = l
    BY <1>4 DEF IsUnread
  <2>2. PICK k \in DOMAIN spool[f] : k > offsets[f] /\ spool[f][k] = l
    BY <2>1
  <2>3. f \in File /\ k \in 1..Len(spool[f]) /\ Len(spool[f]) \in Nat
    BY <1>0
  <2>4. ~Consumed(f)
    BY <1>0, <2>2, <2>3 DEF Consumed
  <2>5. f \in present' /\ spool'[f] = spool[f] /\ offsets'[f] = offsets[f]
    BY <1>2, <1>3, <2>3, <2>4
  <2> QED BY <2>2, <2>5 DEF IsUnread
<1>5. UNCHANGED <<rec, archive, gone, windowed, skipped, dismissed, orphaned, swallowed>>
  BY DEF Prune, store, fate, history
<1>6. \A l : (IsHeld(l) => IsHeld(l)') /\ (IsStored(l) => IsStored(l)')
             /\ (IsSwallowed(l) => IsSwallowed(l)')
  BY <1>5 DEF IsHeld, IsStored, IsSwallowed
<1> QED BY <1>4, <1>5, <1>6 DEF Keeps, Accounted

(* What a truncation takes unread was written after the live file was seen  *)
(* to be consumed; the second stat passes over what was written since.      *)
LEMMA TruncateKeeps ==
  ASSUME FileInv, Truncate \/ Restat
  PROVE  Keeps
<1>0. /\ spool \in [File -> Seq(Line)] /\ offsets \in [File -> Nat]
      /\ present \subseteq File /\ cur \in File /\ WindowKnown
  BY DEF FileInv, TypeInv, TypeOK, PassState, Truncate, Restat
<1>1. UNCHANGED <<present, rec, archive, gone, windowed, skipped, dismissed, orphaned,
                  swallowed>>
  BY DEF Truncate, Restat, gateway, store, fate, history
<1>2. /\ \A f \in File : f # cur => spool'[f] = spool[f] /\ offsets'[f] = offsets[f]
      /\ \A k \in DOMAIN spool[cur] : k > offsets[cur] => spool[cur][k] \in windowed
  BY <1>0 DEF Truncate, Restat, WindowKnown, gateway
<1>3. ASSUME NEW l, IsUnread(l) PROVE IsUnread(l)' \/ l \in windowed
  <2>1. PICK f \in present : \E k \in DOMAIN spool[f] : k > offsets[f] /\ spool[f][k] = l
    BY <1>3 DEF IsUnread
  <2>2. CASE f = cur
    BY <1>2, <2>1, <2>2
  <2>3. CASE f # cur
    BY <1>0, <1>1, <1>2, <2>1, <2>3 DEF IsUnread
  <2> QED BY <2>2, <2>3
<1>4. \A l : (IsHeld(l) => IsHeld(l)') /\ (IsStored(l) => IsStored(l)')
             /\ (IsSwallowed(l) => IsSwallowed(l)')
  BY <1>1 DEF IsHeld, IsStored, IsSwallowed
<1> QED BY <1>1, <1>3, <1>4 DEF Keeps, Accounted

LEMMA CrashKeeps ==
  ASSUME FileInv, Crash
  PROVE  Keeps
<1>0. /\ spool \in [File -> Seq(Line)] /\ offsets \in [File -> Nat]
      /\ present \subseteq File
  BY DEF FileInv, TypeInv, TypeOK
<1>1. /\ UNCHANGED <<spool, present, archive, windowed, skipped, dismissed, orphaned,
                     swallowed>>
      /\ gone' = gone \cup (Held \ Present)
      /\ offsets' = [f \in File |-> 0]
  BY DEF Crash, gateway, store, fate
<1>2. ASSUME NEW l \in Present PROVE IsUnread(l)'
  <2>1. PICK f \in present : l \in {spool[f][k] : k \in DOMAIN spool[f]}
    BY DEF Present
  <2>2. PICK k \in DOMAIN spool[f] : spool[f][k] = l
    BY <2>1
  <2>3. f \in File /\ k \in 1..Len(spool[f])
    BY <1>0
  <2>4. k > offsets'[f]
    BY <1>1, <2>3
  <2> QED BY <1>1, <2>2, <2>4 DEF IsUnread
<1>3. \A l : IsUnread(l) => l \in Present
  BY DEF IsUnread, Present
<1>4. ASSUME NEW l \in Line, IsHeld(l) PROVE l \in Held
  <2>1. l[1] \in Call /\ l \in LinesOf(l[1], rec[l[1]])
    BY <1>4 DEF IsHeld, LinesOf, Line
  <2> QED BY <2>1 DEF Held
<1>5. \A l : (IsStored(l) => IsStored(l)') /\ (IsSwallowed(l) => IsSwallowed(l)')
  BY <1>1 DEF IsStored, IsSwallowed
<1> QED BY <1>1, <1>2, <1>3, <1>4, <1>5 DEF Keeps, Accounted

LEMMA StepKeeps ==
  ASSUME FileInv, Next \/ UNCHANGED vars, ~\E c \in Call : LogLine(c)
  PROVE  Keeps
<1> USE DEF gateway, memory, store, listing, pass, fate, history
<1>1. CASE UNCHANGED vars
  BY <1>1, KeepsUntouched, StoreSame DEF vars
<1>2. CASE Rotate \/ BackoffExpires
  BY <1>2, KeepsUntouched, StoreSame DEF Rotate, BackoffExpires
<1>3. CASE BeginHeld \/ BeginScan \/ SkipFile \/ StatFile
  BY <1>3, KeepsUntouched, StoreSame DEF BeginHeld, BeginScan, SkipFile, StatFile
<1>4. CASE EndFlush \/ SendStops \/ TruncateFails
  BY <1>4, KeepsUntouched, StoreSame DEF EndFlush, SendStops, TruncateFails
<1>5. ASSUME NEW q \in {1, 2}, Wait(q) PROVE Keeps
  <2>1. \A c \in Call : rec'[c].lines = rec[c].lines /\ rec'[c].cut = rec[c].cut
    <3>1. q \in 0..2 /\ rec \in [Call -> Record]
      BY DEF FileInv, TypeInv, TypeOK
    <3>2. rec' = [c \in Call |-> IF rec[c].lines # {} /\ rec[c].quiet < q
                                THEN [rec[c] EXCEPT !.quiet = q] ELSE rec[c]]
      BY <1>5 DEF Wait
    <3> QED BY <3>1, <3>2, QuietType
  <2> QED BY <1>5, <2>1, KeepsUntouched, StoreSame DEF Wait
<1> QED
  BY <1>1, <1>2, <1>3, <1>4, <1>5, ReadFileKeeps, EndScanKeeps, FlushKeeps,
     SendAckedKeeps, SendFailsKeeps, PruneKeeps, TruncateKeeps, CrashKeeps
  DEF Next, Once, Scan, Ship, Reclaim, Gateway, Clock

(* No schedule of reads, appends, pushes, sweeps, rotations and restarts    *)
(* loses a line but by the exceptions LineAccounted names.                  *)
THEOREM NoSilentLoss == Spec => []LineAccounted
<1>1. Init => LineAccounted
  BY DEF Init, LineAccounted
<1>2. ASSUME FileInv, LineAccounted, [Next]_vars
      PROVE  LineAccounted'
  <2>1. CASE \E c \in Call : LogLine(c)
    BY <1>2, <2>1, LogLineAccounted
  <2>2. CASE ~\E c \in Call : LogLine(c)
    <3>1. Keeps
      BY <1>2, <2>2, StepKeeps
    <3>2. written' = written
      BY <1>2, <2>2 DEF Next, Once, Scan, Flush, Ship, Reclaim, Gateway, Clock,
           BeginHeld, BeginScan, SkipFile, StatFile, ReadFile, EndScan,
           KeepRunning, Discard, AppendRecord, AppendFailure, Collect, EndFlush,
           SendAcked, SendFails, SendStops, Prune, Truncate, TruncateFails,
           Restat, Crash, Rotate, Wait, BackoffExpires, vars, gateway
    <3>3. ASSUME NEW c \in Call, NEW n \in 1..written[c]
          PROVE  <<c, n>> \in Line
      BY <1>2, <3>3 DEF Line, FileInv, TypeInv, TypeOK
    <3> QED BY <1>2, <3>1, <3>2, <3>3 DEF Keeps, LineAccounted
  <2> QED BY <2>1, <2>2
<1> QED BY <1>1, <1>2, InitFileInv, StepFileInv, PTL DEF Spec

-----------------------------------------------------------------------------
(* The versions that are stored.                                           *)

(* The set of ids already written is never thrown away for its size.        *)
IdsFit == ArchivedCap \in Nat /\ Cardinality(Call) <= ArchivedCap

-----------------------------------------------------------------------------
(* The invariant. *)

(* The lines of a call lie in the spool in the order they were logged.      *)
Ahead(f, k, g, j) == f < g \/ (f = g /\ k < j)
SpoolOrder ==
  /\ \A f, g \in File : \A k \in DOMAIN spool[f], j \in DOMAIN spool[g] :
       spool[f][k][1] = spool[g][j][1] /\ Ahead(f, k, g, j) =>
         spool[f][k][2] < spool[g][j][2]
  /\ \A f \in File : \A k \in DOMAIN spool[f] :
       spool[f][k][2] <= written[spool[f][k][1]]
  /\ \A c \in Call : \A n \in rec[c].lines : n <= written[c]
  /\ \A f \in File : f > live => spool[f] = <<>> /\ offsets[f] = 0
  /\ \A f \in File \ present : spool[f] = <<>>

(* A pass reads the files in the order of its listing, and leaves nothing   *)
(* unread but in the newest it visited and in those rotated in since.       *)
VisitOrder ==
  phase \in {"scan", "read"} =>
    /\ \A f \in files \ todo : \A g \in todo : listed[f] <= listed[g]
    /\ \A f \in present \ files : offsets[f] = 0 /\ \A g \in files : g < f
    /\ \A f \in files \ todo : \A g \in files :
         f < g => IF phase = "read" /\ f = cur THEN size = Len(spool[f]) ELSE Consumed(f)
    /\ phase = "read" => cur \in files \ todo

(* A line both held and ahead of the reader was written between a stat and  *)
(* the read that follows.                                                   *)
HeldRaced ==
  /\ \A f \in File : \A k \in DOMAIN spool[f] :
       /\ k > offsets[f]
       /\ spool[f][k][2] \in rec[spool[f][k][1]].lines
       => spool[f][k] \in raced
  /\ phase = "read" =>
       \A k \in DOMAIN spool[cur] : k > size => spool[cur][k] \in raced

(* What dates a record is before all that is in it and all that will be.    *)
Dated ==
  \A c \in Call : rec[c].lines # {} =>
    /\ \A n \in rec[c].lines : rec[c].first <= n
    /\ \A f \in File : \A k \in DOMAIN spool[f] :
         k > offsets[f] /\ spool[f][k][1] = c => rec[c].first <= spool[f][k][2]

(* A record waiting to be pushed is finished, wanted and not yet written.   *)
Wanted(c) == Expired(c) /\ WorthArchiving(c, rec[c]) /\ c \notin archived
Queue ==
  /\ phase # "flush" => due = {}
  /\ phase \notin {"flush", "send"} => ready = {}
  /\ ready \cap due = {}
  /\ \A c \in ready : PushMode /\ Wanted(c)

(* The spool is held with a record to push, and only between passes that    *)
(* read it.                                                                 *)
Hold ==
  pushFails => PushMode /\ phase \notin {"scan", "read"} /\ \E c \in Call : Wanted(c)

(* A call this process has stored is in the set of ids, or it is still      *)
(* pending because the answer to a push was lost.                           *)
Offered(c) == PushMode /\ WorthArchiving(c, rec[c]) /\ Listed(c)
OnceEach ==
  \A c \in Call :
    /\ Len(archive[c]) <= 1 + crashes + late[c]
    /\ Len(archive[c]) = 1 + crashes + late[c] => c \in archived \/ Offered(c)

(* Until it is stored, a record has all earlier lines of its call, whole,   *)
(* and those of the versions a failed append or push left behind.           *)
Excepted(c, m) == <<c, m>> \in windowed \cup dismissed \cup skipped \cup orphaned
Whole(r) == r.lines \ r.cut
NoGap ==
  crashes = 0 =>
    /\ gone = {}
    /\ \A c \in Call \ archived :
         /\ \A i \in DOMAIN archive[c] :
              WorthArchiving(c, rec[c]) /\ archive[c][i].lines \subseteq Whole(rec[c])
         /\ \A v \in swallowed[c] :
              WorthArchiving(c, rec[c]) /\ v.lines \subseteq Whole(rec[c])
         /\ \A n \in rec[c].lines : \A m \in 1..(n - 1) :
              m \in Whole(rec[c]) \/ Excepted(c, m)

-----------------------------------------------------------------------------
(* What a step does to the records, the versions and the spool. *)

(* A record as it was, perhaps quiet for longer or found to be stalled.     *)
Kept(r, s) ==
  /\ s.lines = r.lines /\ s.twice = r.twice /\ s.cut = r.cut
  /\ s.first = r.first /\ s.last = r.last /\ s.billed = r.billed
  /\ r.quiet <= s.quiet

LEMMA KeptSame ==
  ASSUME NEW r \in Record
  PROVE  Kept(r, r)
BY DEF Kept, Record

LEMMA KeptJudged ==
  ASSUME rec \in [Call -> Record], NEW c \in Call
  PROVE  Kept(rec[c], Judged(c))
<1>1. rec[c] \in Record
  OBVIOUS
<1> DEFINE b == rec[c].stalled \/ ~Completed(c, rec[c])
<1>2. Judged(c) = [rec[c] EXCEPT !.stalled = b]
  BY DEF Judged
<1> HIDE DEF b
<1> QED BY <1>1, <1>2 DEF Kept, Record

LEMMA KeptQuiet ==
  ASSUME NEW r \in Record, NEW q \in 0..2, r.quiet < q
  PROVE  Kept(r, [r EXCEPT !.quiet = q]) /\ [r EXCEPT !.quiet = q].quiet = q
BY DEF Kept, Record

LEMMA WaitKeeps ==
  ASSUME rec \in [Call -> Record], NEW q \in {1, 2}, Wait(q), NEW c \in Call
  PROVE  /\ Kept(rec[c], rec'[c])
         /\ rec[c].lines # {} => rec'[c].quiet >= 1
<1>1. rec'[c] = IF rec[c].lines # {} /\ rec[c].quiet < q
                THEN [rec[c] EXCEPT !.quiet = q] ELSE rec[c]
  BY DEF Wait
<1>2. rec[c] \in Record /\ q \in 0..2 /\ rec[c].quiet \in 0..2
  BY DEF Record
<1>3. CASE rec[c].lines # {} /\ rec[c].quiet < q
  <2>1. /\ Kept(rec[c], [rec[c] EXCEPT !.quiet = q])
        /\ [rec[c] EXCEPT !.quiet = q].quiet = q
    BY <1>2, <1>3, KeptQuiet
  <2>2. rec'[c] = [rec[c] EXCEPT !.quiet = q]
    BY <1>1, <1>3
  <2> QED BY <2>1, <2>2
<1>4. CASE ~(rec[c].lines # {} /\ rec[c].quiet < q)
  BY <1>1, <1>2, <1>4, KeptSame
<1> QED BY <1>3, <1>4

(* Only a read adds to a record; a record goes as a whole. *)
Leaves(c) == Discard(c) \/ AppendRecord(c) \/ (SendAcked /\ c \in Batch) \/ Crash

LEMMA RecMoves ==
  ASSUME TypeInv, Next, ~ReadFile, NEW c \in Call
  PROVE  Kept(rec[c], rec'[c]) \/ (rec'[c] = Blank /\ Leaves(c))
<1>1. rec \in [Call -> Record] /\ rec[c] \in Record
  BY DEF TypeInv, TypeOK
<1>2. ASSUME rec' = rec
      PROVE  Kept(rec[c], rec'[c])
  BY <1>1, <1>2, KeptSame
<1>3. ASSUME NEW d \in Call, rec' = [rec EXCEPT ![d] = Blank]
      PROVE  Kept(rec[c], rec'[c]) \/ (rec'[c] = Blank /\ c = d)
  BY <1>1, <1>3, KeptSame
<1>4. ASSUME NEW d \in Call, rec' = [rec EXCEPT ![d] = Judged(d)]
      PROVE  Kept(rec[c], rec'[c])
  BY <1>1, <1>4, KeptSame, KeptJudged
<1>5. ASSUME NEW q \in {1, 2}, Wait(q)
      PROVE  Kept(rec[c], rec'[c])
  BY <1>1, <1>5, WaitKeeps
<1>6. CASE SendAcked
  <2>1. rec'[c] = IF c \in Batch THEN Blank ELSE rec[c]
    BY <1>6 DEF SendAcked
  <2> QED BY <1>1, <1>6, <2>1, KeptSame DEF Leaves
<1>7. CASE SendFails
  BY <1>1, <1>7, KeptSame, KeptJudged DEF SendFails, Retained
<1>8. CASE Crash
  BY <1>8 DEF Crash, Leaves
<1>9. ASSUME NEW d \in Call, Discard(d) \/ AppendRecord(d)
      PROVE  Kept(rec[c], rec'[c]) \/ (rec'[c] = Blank /\ Leaves(c))
  <2>1. rec' = [rec EXCEPT ![d] = Blank]
    BY <1>9 DEF Discard, AppendRecord
  <2> QED BY <1>3, <1>9, <2>1 DEF Leaves
<1>10. ASSUME NEW d \in Call, AppendFailure(d) \/ Collect(d)
       PROVE  Kept(rec[c], rec'[c])
  BY <1>4, <1>10 DEF AppendFailure, Collect, Retained
<1>11. ASSUME NEW d \in Call, KeepRunning(d) \/ LogLine(d)
       PROVE  rec' = rec
  BY <1>11 DEF KeepRunning, LogLine, memory, store
<1>12. CASE \/ BeginHeld \/ BeginScan \/ SkipFile \/ StatFile \/ EndScan \/ EndFlush
            \/ SendStops \/ Reclaim \/ Rotate \/ BackoffExpires
  BY <1>2, <1>12 DEF BeginHeld, BeginScan, SkipFile, StatFile, EndScan, EndFlush, SendStops,
     Reclaim, Prune, Truncate, TruncateFails, Restat, Rotate, BackoffExpires, memory, store
<1> QED BY <1>2, <1>5, <1>6, <1>7, <1>8, <1>9, <1>10, <1>11, <1>12
        DEF Next, Once, Scan, Flush, Ship, Gateway, Clock

(* A version stored is the record as it is. *)
Copied(r, v) == v.lines = Whole(r) /\ v.twice = r.twice /\ v.first = r.first

LEMMA CopiedVersion ==
  ASSUME NEW r \in Record, NEW s, Kept(r, s)
  PROVE  Copied(r, VersionOf(s))
BY DEF Copied, Kept, VersionOf, Record, Whole

(* The steps that write an entry for a record, and what they write. *)
Enters(c) ==
  \/ AppendRecord(c)
  \/ AppendFailure(c) /\ late'[c] = late[c] + 1
  \/ (SendAcked \/ SendFails) /\ c \in Batch /\ ~Listed(c)
Entry(c) == VersionOf(Judged(c))

LEMMA EntryCopies ==
  ASSUME TypeInv, NEW c \in Call
  PROVE  Entry(c) \in Version /\ Copied(rec[c], Entry(c))
<1>1. rec \in [Call -> Record] /\ rec[c] \in Record
  BY DEF TypeInv, TypeOK
<1> QED BY <1>1, JudgedType, KeptJudged, CopiedVersion DEF Entry

LEMMA EntriesOf ==
  ASSUME TypeInv, NEW S, NEW T, archive' = Entered(S), swallowed' = Lost(T), NEW c \in Call
  PROVE  /\ archive'[c] = archive[c] \/ (c \in S /\ archive'[c] = Append(archive[c], Entry(c)))
         /\ \A v \in swallowed'[c] : v \in swallowed[c] \/ (c \in T /\ v = Entry(c))
<1> DEFINE e == Entry(c)
<1>1. archive'[c] = IF c \in S \ Glued(S) THEN Append(archive[c], e) ELSE archive[c]
  BY DEF Entered, Entry
<1>2. swallowed'[c] = IF c \in T THEN swallowed[c] \cup {e} ELSE swallowed[c]
  BY DEF Lost, Entry
<1> HIDE DEF e
<1> QED BY <1>1, <1>2 DEF e

(* Only those steps change what is stored of a call, or lost. *)
LEMMA StoreChanges ==
  ASSUME TypeInv, Next, NEW c \in Call
  PROVE  /\ \/ archive'[c] = archive[c]
            \/ Enters(c) /\ archive'[c] = Append(archive[c], Entry(c))
         /\ \A v \in swallowed'[c] : v \in swallowed[c] \/ (Enters(c) /\ v = Entry(c))
<1> DEFINE Goal ==
      /\ \/ archive'[c] = archive[c]
         \/ Enters(c) /\ archive'[c] = Append(archive[c], Entry(c))
      /\ \A v \in swallowed'[c] : v \in swallowed[c] \/ (Enters(c) /\ v = Entry(c))
<1>0. late \in [Call -> 0..MaxLate]
  BY DEF TypeInv, TypeOK
<1>1. ASSUME NEW S, NEW T, archive' = Entered(S), swallowed' = Lost(T),
             c \in S \cup T => Enters(c)
      PROVE  Goal
  BY <1>1, EntriesOf
<1>2. ASSUME UNCHANGED <<archive, swallowed>>
      PROVE  Goal
  BY <1>2
<1>3. ASSUME NEW d \in Call, AppendRecord(d)
      PROVE  Goal
  <2>1. archive' = Entered({d}) /\ swallowed' = Lost(Glued({d}))
    BY <1>3 DEF AppendRecord
  <2>2. c \in {d} \cup Glued({d}) => Enters(c)
    BY <1>3 DEF Glued, Enters
  <2> QED BY <1>1, <2>1, <2>2
<1>4. ASSUME NEW d \in Call, AppendFailure(d)
      PROVE  Goal
  <2>1. \/ UNCHANGED <<archive, swallowed>>
        \/ /\ late' = [late EXCEPT ![d] = @ + 1]
           /\ archive' = Entered({d}) /\ swallowed' = Lost(Glued({d}))
    BY <1>4 DEF AppendFailure, store
  <2>2. CASE /\ late' = [late EXCEPT ![d] = @ + 1]
             /\ archive' = Entered({d}) /\ swallowed' = Lost(Glued({d}))
    <3>1. c \in {d} \cup Glued({d}) => Enters(c)
      BY <1>0, <1>4, <2>2 DEF Glued, Enters
    <3> QED BY <1>1, <2>2, <3>1
  <2> QED BY <1>2, <2>1, <2>2
<1>5. CASE SendAcked
  <2>1. PICK S \in Appended(Batch) :
          /\ archive' = Entered(S)
          /\ swallowed' = Lost(Glued(S) \cup {d \in Batch \ S : ~Listed(d)})
    BY <1>5 DEF SendAcked
  <2> DEFINE T == Glued(S) \cup {d \in Batch \ S : ~Listed(d)}
  <2>2. \A d \in S \cup T : d \in Batch /\ ~Listed(d)
    BY DEF Appended, Glued
  <2>3. swallowed' = Lost(T)
    BY <2>1
  <2> HIDE DEF T
  <2>4. c \in S \cup T => Enters(c)
    BY <1>5, <2>2 DEF Enters
  <2> QED BY <1>1, <2>1, <2>3, <2>4
<1>6. CASE SendFails
  <2>1. PICK done \in SUBSET Batch :
          \E S \in Appended(done) : archive' = Entered(S) /\ swallowed' = Lost(Glued(S))
    BY <1>6, SendFailsDoes
  <2>2. PICK S \in Appended(done) : archive' = Entered(S) /\ swallowed' = Lost(Glued(S))
    BY <2>1
  <2>3. c \in S \cup Glued(S) => Enters(c)
    BY <1>6, <2>1, <2>2 DEF Appended, Glued, Enters
  <2> QED BY <1>1, <2>2, <2>3
<1>7. ASSUME NEW d \in Call, KeepRunning(d) \/ LogLine(d) \/ Discard(d) \/ Collect(d)
      PROVE  UNCHANGED <<archive, swallowed>>
  BY <1>7 DEF KeepRunning, LogLine, Discard, Collect, store, fate, history
<1>8. CASE \/ Scan \/ EndFlush \/ SendStops \/ Reclaim \/ Rotate \/ Clock \/ Crash
  <2>1. UNCHANGED <<archive, swallowed>>
    BY <1>8 DEF Scan, BeginHeld, BeginScan, SkipFile, StatFile, ReadFile, EndScan, EndFlush,
       SendStops, Reclaim, Prune, Truncate, TruncateFails, Restat, Rotate, Clock,
       BackoffExpires, Wait, Crash, store, fate, history
  <2> QED BY <1>2, <2>1
<1> QED BY <1>2, <1>3, <1>4, <1>5, <1>6, <1>7, <1>8 DEF Next, Once, Flush, Ship, Gateway

(* An entry is written for a record that is wanted. *)
LEMMA EntersWanted ==
  ASSUME TypeInv, Queue, NEW c \in Call, Enters(c)
  PROVE  c \notin archived /\ WorthArchiving(c, rec[c])
BY DEF Enters, AppendRecord, AppendFailure, Unwanted, Queue, Wanted, Batch

LEMMA NewVersion ==
  ASSUME TypeInv, Next, NEW c \in Call, NEW i \in DOMAIN archive'[c]
  PROVE  \/ i \in DOMAIN archive[c] /\ archive'[c][i] = archive[c][i]
         \/ Enters(c) /\ archive'[c][i] = Entry(c) /\ Copied(rec[c], archive'[c][i])
<1>1. archive[c] \in Seq(Version) /\ Entry(c) \in Version /\ Copied(rec[c], Entry(c))
  BY EntryCopies DEF TypeInv, TypeOK
<1>2. CASE archive'[c] = archive[c]
  BY <1>2
<1>3. CASE Enters(c) /\ archive'[c] = Append(archive[c], Entry(c))
  BY <1>1, <1>3
<1> QED BY <1>2, <1>3, StoreChanges

(* New API adds one line, at the end of the live file, unless it is gone.   *)
Logged(c) == <<c, written[c] + 1>>

LEMMA LogLineDoes ==
  ASSUME TypeInv, NEW c \in Call, LogLine(c)
  PROVE  /\ written' = [written EXCEPT ![c] = @ + 1] /\ written[c] \in Nat
         /\ UNCHANGED <<rec, offsets, archive, archived, present, live, phase, files, listed,
                        todo, cur, size, crashes, gone, skipped, dismissed, swallowed, late>>
         /\ windowed \subseteq windowed' /\ orphaned \subseteq orphaned'
         /\ raced \subseteq raced'
         /\ phase = "read" /\ cur = live => Logged(c) \in raced'
         /\ \A f \in File : f # live => spool'[f] = spool[f]
         /\ Len(spool[live]) \in Nat /\ DOMAIN spool[live] = 1..Len(spool[live])
         /\ \A k \in 1..Len(spool[live]) :
              k \in DOMAIN spool'[live] /\ spool'[live][k] = spool[live][k]
         /\ \A k \in DOMAIN spool'[live] :
              \/ k \in 1..Len(spool[live])
              \/ k = Len(spool[live]) + 1 /\ spool'[live][k] = Logged(c)
         /\ spool'[live] # spool[live] => live \in present
<1>1. /\ written \in [Call -> Nat] /\ live \in File /\ spool \in [File -> Seq(Line)]
  BY DEF TypeInv, TypeOK
<1>2. Logged(c) \in Line
  BY <1>1 DEF Logged, Line
<1>3. \/ /\ live \in present
         /\ spool' = [spool EXCEPT ![live] = Append(@, Logged(c))]
         /\ raced' = IF phase = "read" /\ cur = live THEN raced \cup {Logged(c)} ELSE raced
      \/ /\ live \notin present
         /\ UNCHANGED <<spool, raced>>
  BY DEF LogLine, Logged
<1>4. Len(spool[live]) \in Nat /\ DOMAIN spool[live] = 1..Len(spool[live])
  BY <1>1
<1>5. /\ \A f \in File : f # live => spool'[f] = spool[f]
      /\ \A k \in 1..Len(spool[live]) :
           k \in DOMAIN spool'[live] /\ spool'[live][k] = spool[live][k]
      /\ \A k \in DOMAIN spool'[live] :
           \/ k \in 1..Len(spool[live])
           \/ k = Len(spool[live]) + 1 /\ spool'[live][k] = Logged(c)
  <2>1. CASE spool' = spool
    BY <1>4, <2>1
  <2>2. CASE spool' = [spool EXCEPT ![live] = Append(@, Logged(c))]
    <3>1. /\ \A g \in File : g # live => spool'[g] = spool[g]
          /\ spool'[live][Len(spool[live]) + 1] = Logged(c)
          /\ \A k \in 1..Len(spool[live]) : spool'[live][k] = spool[live][k]
          /\ DOMAIN spool'[live] = 1..(Len(spool[live]) + 1)
      BY <1>1, <1>2, <2>2, AddLine
    <3> QED BY <1>4, <3>1
  <2> QED BY <1>3, <2>1, <2>2
<1>6. /\ written' = [written EXCEPT ![c] = @ + 1]
      /\ UNCHANGED <<rec, offsets, archive, archived, present, live, phase, files, listed,
                     todo, cur, size, crashes, gone, skipped, dismissed, swallowed, late>>
      /\ windowed \subseteq windowed' /\ orphaned \subseteq orphaned'
  BY DEF LogLine, memory, store, listing, pass
<1>7. phase = "read" /\ cur = live => live \in present
  BY DEF TypeInv, PassState
<1> QED BY <1>1, <1>3, <1>4, <1>5, <1>6, <1>7

(* Every other step leaves a file as it is or empties it, and puts no line  *)
(* back ahead of the reader, but for a restart.                             *)
LEMMA SpoolMoves ==
  ASSUME FileInv, SpoolOrder, VisitOrder, Next, ~\E c \in Call : LogLine(c)
  PROVE  /\ written' = written
         /\ \A f \in File : spool'[f] = spool[f] \/ spool'[f] = <<>>
         /\ ~Crash => \A f \in File : \A k \in DOMAIN spool'[f] :
              k > offsets'[f] => spool'[f] = spool[f] /\ k > offsets[f]
<1>0. /\ TypeInv /\ spool \in [File -> Seq(Line)] /\ offsets \in [File -> Nat]
      /\ PassState /\ WindowKnown /\ size \in Nat /\ files \subseteq File
      /\ present \subseteq File /\ cur \in File \cup {0}
  BY DEF FileInv, TypeInv, TypeOK
<1>t. \A f \in File : Len(spool[f]) \in Nat /\ DOMAIN spool[f] = 1..Len(spool[f])
  BY <1>0
<1>e. DOMAIN (<<>>) = {}
  OBVIOUS
<1> DEFINE Goal == /\ written' = written
                   /\ \A f \in File : spool'[f] = spool[f] \/ spool'[f] = <<>>
                   /\ ~Crash => \A f \in File : \A k \in DOMAIN spool'[f] :
                        k > offsets'[f] => spool'[f] = spool[f] /\ k > offsets[f]
<1>1. ASSUME written' = written, spool' = spool, offsets' = offsets
      PROVE  Goal
  BY <1>1
<1>2. CASE ReadFile
  <2>1. /\ written' = written /\ spool' = spool /\ offsets' = [offsets EXCEPT ![cur] = size]
        /\ phase = "read"
    BY <1>2 DEF ReadFile, gateway
  <2>2. offsets[cur] <= size
    BY <1>0, <2>1 DEF WindowKnown
  <2>3. cur \in File
    BY <1>0, <2>1 DEF PassState
  <2>4. ASSUME NEW f \in File, NEW k \in DOMAIN spool[f], k > offsets'[f]
        PROVE  k > offsets[f]
    BY <1>0, <1>t, <2>1, <2>2, <2>3, <2>4
  <2> QED BY <2>1, <2>4
<1>3. CASE EndScan
  <2>1. /\ written' = written /\ spool' = spool /\ phase = "scan"
        /\ offsets' = [f \in File |-> IF f \in files THEN offsets[f] ELSE 0]
    BY <1>3 DEF EndScan, gateway
  <2>2. ASSUME NEW f \in File, NEW k \in DOMAIN spool[f], k > offsets'[f]
        PROVE  k > offsets[f]
    <3>1. CASE f \in files
      BY <2>1, <2>2, <3>1
    <3>2. CASE f \in present \ files
      BY <2>1, <2>2, <3>2 DEF VisitOrder
    <3>3. CASE f \notin present
      BY <1>e, <2>2, <3>3 DEF SpoolOrder
    <3> QED BY <3>1, <3>2, <3>3
  <2> QED BY <2>1, <2>2
<1>4. CASE Prune
  <2>1. PICK drop : /\ spool' = [f \in File |-> IF f \in drop THEN <<>> ELSE spool[f]]
                    /\ offsets' = [f \in File |-> IF f \in drop THEN 0 ELSE offsets[f]]
    BY <1>4 DEF Prune
  <2>2. written' = written
    BY <1>4 DEF Prune
  <2> QED BY <1>e, <2>1, <2>2
<1>5. CASE Truncate
  <2>1. spool' = [spool EXCEPT ![cur] = <<>>] /\ UNCHANGED <<written, offsets>> /\ cur \in File
    BY <1>0, <1>5 DEF Truncate, PassState
  <2> QED BY <1>0, <1>e, <2>1
<1>6. CASE Restat
  <2>1. /\ offsets' = [offsets EXCEPT ![cur] = Len(spool[cur])] /\ UNCHANGED <<written, spool>>
        /\ cur \in File
    BY <1>0, <1>6 DEF Restat, gateway, PassState
  <2>2. ASSUME NEW f \in File, NEW k \in DOMAIN spool[f], k > offsets'[f]
        PROVE  k > offsets[f]
    BY <1>0, <1>t, <2>1, <2>2
  <2> QED BY <2>1, <2>2
<1>7. CASE Crash
  BY <1>7 DEF Crash, gateway
<1>8. CASE Rotate \/ Clock
  BY <1>8 DEF Rotate, Clock, BackoffExpires, Wait, gateway, memory, fate, history
<1>9. CASE BeginHeld \/ BeginScan \/ SkipFile \/ StatFile \/ EndFlush \/ Ship \/ TruncateFails
  BY <1>1, <1>9 DEF BeginHeld, BeginScan, SkipFile, StatFile, EndFlush, Ship, SendAcked,
     SendFails, SendStops, TruncateFails, gateway, memory
<1>10. CASE Flush
  BY <1>1, <1>10 DEF Flush, KeepRunning, Discard, AppendRecord, AppendFailure, Collect,
     gateway, memory
<1> QED BY <1>2, <1>3, <1>4, <1>5, <1>6, <1>7, <1>8, <1>9, <1>10
        DEF Next, Once, Scan, Reclaim, Gateway

LEMMA LinesAfterLog ==
  ASSUME TypeInv, NEW c \in Call, LogLine(c), NEW f \in File, NEW k \in DOMAIN spool'[f]
  PROVE  \/ k \in DOMAIN spool[f] /\ spool'[f][k] = spool[f][k]
         \/ /\ f = live /\ live \in present
            /\ k = Len(spool[live]) + 1 /\ spool'[f][k] = Logged(c)
<1>1. CASE f # live
  BY <1>1, LogLineDoes
<1>2. CASE f = live
  <2>1. CASE k \in 1..Len(spool[live])
    BY <1>2, <2>1, LogLineDoes
  <2>2. CASE k = Len(spool[live]) + 1 /\ spool'[live][k] = Logged(c)
    <3>1. k \notin DOMAIN spool[live]
      BY <2>2, LogLineDoes
    <3>2. spool'[live] # spool[live]
      BY <1>2, <3>1
    <3> QED BY <1>2, <2>2, <3>2, LogLineDoes
  <2> QED BY <1>2, <2>1, <2>2, LogLineDoes
<1> QED BY <1>1, <1>2

(* What a read covers: lines of its file past the offset, without a gap, of *)
(* the last one perhaps the head.                                           *)
Covered(r) == r.whole \cup r.head

LEMMA ReadFileDoes ==
  ASSUME FileInv, ReadFile
  PROVE  /\ cur \in File /\ cur \in present /\ phase = "read" /\ phase' = "scan"
         /\ offsets' = [offsets EXCEPT ![cur] = size] /\ offsets[cur] <= size
         /\ size \in Nat /\ offsets[cur] \in Nat /\ size <= Len(spool[cur])
         /\ UNCHANGED <<written, spool, present, live, aged, files, listed, todo, archived,
                        archive, windowed, raced, gone, dismissed, crashes, orphaned,
                        swallowed, late>>
         /\ \E r \in Read(cur) :
              /\ rec' = Fold(cur, r)
              /\ skipped' = skipped \cup
                   {spool[cur][k] : k \in ((offsets[cur] + 1)..size) \ r.whole}
              /\ \A k \in Covered(r) : k > offsets[cur]
              /\ \A k \in Covered(r), j \in DOMAIN spool[cur] :
                   offsets[cur] < j /\ j < k => j \in r.whole
              /\ \A k \in r.head : k = Len(spool[cur]) /\ HalfWritten(cur)
<1>0. /\ spool \in [File -> Seq(Line)] /\ offsets \in [File -> Nat] /\ size \in Nat
      /\ present \subseteq File
  BY DEF FileInv, TypeInv, TypeOK
<1>1. /\ phase = "read" /\ phase' = "scan" /\ offsets' = [offsets EXCEPT ![cur] = size]
      /\ UNCHANGED <<written, spool, present, live, aged, files, listed, todo, archived,
                     archive, windowed, raced, gone, dismissed, crashes, orphaned,
                     swallowed, late>>
  BY DEF ReadFile, gateway, store, listing, fate
<1>2. cur \in File /\ cur \in present /\ size <= Len(spool[cur])
  BY <1>0, <1>1 DEF FileInv, TypeInv, PassState
<1>3. offsets[cur] <= size
  BY <1>1 DEF FileInv, WindowKnown
<1>4. ResumeAt(cur) = offsets[cur] /\ offsets[cur] \in Nat
  BY <1>0, <1>2, <1>3 DEF ResumeAt
<1>5. PICK r \in Reading(cur) :
        /\ rec' = Fold(cur, r)
        /\ skipped' = skipped \cup
             {spool[cur][k] : k \in ((ResumeAt(cur) + 1)..size) \ r.whole}
  BY DEF ReadFile
<1>r. /\ r \in Read(cur)
      /\ r.whole \subseteq Scanned(cur) /\ r.head \subseteq Scanned(cur) \ r.whole
      /\ \A k \in r.head : k = Len(spool[cur]) /\ HalfWritten(cur)
  BY <1>0, <1>2, ReadingType
<1> DEFINE n == Len(spool[cur])
           S == Scanned(cur)
<1>6. n \in Nat /\ DOMAIN spool[cur] = 1..n
  BY <1>0, <1>2
<1>7. S \subseteq (offsets[cur] + 1)..n
  BY <1>4 DEF Scanned
<1>8. ASSUME NEW k \in S, NEW j \in 1..n, offsets[cur] < j, j < k
      PROVE  j \in S
  BY <1>4, <1>6, <1>7, <1>8 DEF Scanned
<1>9. r.whole = S \/ (r.whole = {} /\ r.head = {}) \/ r.whole = S \ {n}
  BY <1>5 DEF Reading, Plain, Headed
<1> HIDE DEF S, n
<1>10. \A k \in Covered(r) : k \in S /\ k \in 1..n /\ k > offsets[cur]
  <2>1. \A k \in Covered(r) : k \in S
    BY <1>r DEF S, Covered
  <2>2. \A k \in S : k \in 1..n /\ k > offsets[cur]
    BY <1>4, <1>6, <1>7
  <2> QED BY <2>1, <2>2
<1>11. ASSUME NEW k \in Covered(r), NEW j \in DOMAIN spool[cur], offsets[cur] < j, j < k
       PROVE  j \in r.whole
  <2>1. k \in S /\ j \in 1..n /\ k \in 1..n
    BY <1>6, <1>10, <1>11
  <2>2. j \in S /\ j # n
    BY <1>6, <1>8, <1>11, <2>1
  <2> QED BY <1>9, <1>11, <2>2 DEF Covered
<1> QED BY <1>0, <1>1, <1>2, <1>3, <1>4, <1>5, <1>r, <1>10, <1>11

LEMMA ReadLines ==
  ASSUME TypeInv, NEW f \in File, NEW r \in Read(f), rec' = Fold(f, r),
         NEW c \in Call
  PROVE  \A n \in rec'[c].lines :
           n \in rec[c].lines \/ \E k \in Covered(r) : spool[f][k] = <<c, n>>
<1>1. /\ rec \in [Call -> Record] /\ spool \in [File -> Seq(Line)]
  BY DEF TypeInv, TypeOK
<1>2. rec'[c].lines = rec[c].lines \cup Fresh(f, r, c)
  BY <1>1, FoldType
<1>3. \A k \in Mine(f, r, c) : spool[f][k] \in Line /\ k \in Covered(r) /\ spool[f][k][1] = c
  BY <1>1, MineType DEF Mine, Covered
<1>4. \A l \in Line : l = <<l[1], l[2]>>
  BY DEF Line
<1> QED BY <1>2, <1>3, <1>4 DEF Fresh

LEMMA SpoolOrderNext ==
  ASSUME FileInv, SpoolOrder, VisitOrder, Next
  PROVE  SpoolOrder'
<1>0. /\ TypeInv /\ spool \in [File -> Seq(Line)] /\ written \in [Call -> Nat] /\ live \in File
      /\ rec \in [Call -> Record] /\ present \subseteq File
      /\ NewestLive /\ offsets \in [File -> Nat] /\ PassState /\ File \subseteq Nat
  BY DEF FileInv, TypeInv, TypeOK, File
<1>l. \A f \in File : \A k \in DOMAIN spool[f] :
        k \in Nat /\ spool[f][k][1] \in Call /\ spool[f][k][2] \in Nat
  BY <1>0 DEF Line
<1>1. ASSUME NEW c \in Call, LogLine(c)
      PROVE  SpoolOrder'
  <2> DEFINE m == Len(spool[live]) + 1
  <2>1. /\ written' = [written EXCEPT ![c] = @ + 1] /\ written[c] \in Nat
        /\ UNCHANGED <<rec, offsets, present, live>>
        /\ \A f \in File : f # live => spool'[f] = spool[f]
        /\ Len(spool[live]) \in Nat /\ DOMAIN spool[live] = 1..Len(spool[live])
        /\ Logged(c)[1] = c /\ Logged(c)[2] = written[c] + 1
    BY <1>0, <1>1, LogLineDoes DEF Logged
  <2>2. \A d \in Call : written'[d] \in Nat /\ written[d] <= written'[d]
    BY <1>0, <2>1
  <2>3. ASSUME NEW f \in File, NEW g \in File, NEW k \in DOMAIN spool'[f],
               NEW j \in DOMAIN spool'[g], spool'[f][k][1] = spool'[g][j][1],
               Ahead(f, k, g, j)
        PROVE  spool'[f][k][2] < spool'[g][j][2]
    <3>1. \/ k \in DOMAIN spool[f] /\ spool'[f][k] = spool[f][k]
          \/ f = live /\ k = m /\ spool'[f][k] = Logged(c)
      BY <1>0, <1>1, LinesAfterLog
    <3>2. \/ j \in DOMAIN spool[g] /\ spool'[g][j] = spool[g][j]
          \/ g = live /\ j = m /\ spool'[g][j] = Logged(c)
      BY <1>0, <1>1, LinesAfterLog
    <3>3. CASE j \in DOMAIN spool[g] /\ spool'[g][j] = spool[g][j]
      <4>1. ~(f = live /\ k = m)
        <5>1. ASSUME f = live, k = m
              PROVE  FALSE
          <6>1. CASE live < g
            <7>1. spool[g] = <<>>
              BY <1>0, <6>1 DEF SpoolOrder
            <7> QED BY <3>3, <7>1
          <6>2. CASE live = g /\ m < j
            BY <2>1, <3>3, <6>2
          <6> QED BY <2>3, <5>1, <6>1, <6>2 DEF Ahead
        <5> QED BY <5>1
      <4> QED BY <2>3, <3>1, <3>3, <4>1 DEF SpoolOrder
    <3>4. CASE g = live /\ j = m /\ spool'[g][j] = Logged(c)
      <4>1. k \in DOMAIN spool[f] /\ spool'[f][k] = spool[f][k]
        BY <1>0, <2>1, <2>3, <3>1, <3>4 DEF Ahead
      <4>2. spool[f][k][2] <= written[c] /\ spool[f][k][2] \in Nat
        BY <1>l, <2>1, <2>3, <3>4, <4>1 DEF SpoolOrder
      <4> QED BY <2>1, <3>4, <4>1, <4>2
    <3> QED BY <3>2, <3>3, <3>4
  <2>4. ASSUME NEW f \in File, NEW k \in DOMAIN spool'[f]
        PROVE  spool'[f][k][2] <= written'[spool'[f][k][1]]
    <3>1. CASE k \in DOMAIN spool[f] /\ spool'[f][k] = spool[f][k]
      <4>1. spool[f][k][2] <= written[spool[f][k][1]]
        BY <3>1 DEF SpoolOrder
      <4> QED BY <1>0, <1>l, <2>2, <3>1, <4>1
    <3>2. CASE spool'[f][k] = Logged(c)
      BY <1>0, <2>1, <3>2
    <3> QED BY <1>0, <1>1, <3>1, <3>2, LinesAfterLog
  <2>5. \A d \in Call : \A n \in rec'[d].lines : n <= written'[d]
    <3> SUFFICES ASSUME NEW d \in Call, NEW n \in rec[d].lines
                 PROVE  n <= written'[d]
      BY <2>1
    <3>1. n <= written[d] /\ n \in Nat
      BY <1>0 DEF SpoolOrder, Record
    <3> QED BY <1>0, <2>2, <3>1
  <2>6. /\ \A f \in File : f > live' => spool'[f] = <<>> /\ offsets'[f] = 0
        /\ \A f \in File \ present' : spool'[f] = <<>>
    <3>1. \A f \in File : f > live => f # live
      BY <1>0
    <3>2. \A f \in File \ present : spool'[f] = spool[f]
      BY <1>1, <1>0, <2>1, LogLineDoes
    <3> QED BY <1>0, <2>1, <3>1, <3>2 DEF SpoolOrder
  <2> QED BY <2>3, <2>4, <2>5, <2>6 DEF SpoolOrder
<1>2. ASSUME ~\E c \in Call : LogLine(c)
      PROVE  SpoolOrder'
  <2>1. /\ written' = written
        /\ \A f \in File : spool'[f] = spool[f] \/ spool'[f] = <<>>
    BY <1>2, SpoolMoves
  <2>2. \A f \in File : \A k \in DOMAIN spool'[f] :
          k \in DOMAIN spool[f] /\ spool'[f][k] = spool[f][k]
    BY <2>1
  <2>3. \A c \in Call : \A n \in rec'[c].lines : n <= written[c]
    <3> SUFFICES ASSUME NEW c \in Call, NEW n \in rec'[c].lines
                 PROVE  n <= written[c]
      OBVIOUS
    <3>1. CASE ReadFile
      <4>1. cur \in File
        BY <3>1, ReadFileDoes
      <4>2. PICK r \in Read(cur) : rec' = Fold(cur, r)
        BY <3>1, ReadFileDoes
      <4>3. n \in rec[c].lines \/ \E k \in Covered(r) : spool[cur][k] = <<c, n>>
        <5>1. TypeInv
          BY <1>0
        <5>2. \A m \in rec'[c].lines :
                m \in rec[c].lines \/ \E k \in Covered(r) : spool[cur][k] = <<c, m>>
          BY <4>1, <4>2, <5>1, ReadLines
        <5> QED BY <5>2
      <4>4. Covered(r) \subseteq DOMAIN spool[cur]
        BY <4>2 DEF Read, Covered
      <4> QED BY <4>1, <4>3, <4>4 DEF SpoolOrder
    <3>2. CASE ~ReadFile
      <4>1. Kept(rec[c], rec'[c]) \/ rec'[c] = Blank
        BY <1>0, <3>2, RecMoves
      <4> QED BY <4>1, BlankType DEF Kept, SpoolOrder
    <3> QED BY <3>1, <3>2
  <2>4. live' \in Nat /\ live <= live'
    <3>1. CASE Rotate
      BY <1>0, <3>1 DEF Rotate
    <3>2. CASE ~Rotate
      <4>1. live' = live
        BY <1>2, <3>2 DEF Next, Once, Scan, Flush, Ship, Reclaim, Gateway, Clock,
           BeginHeld, BeginScan, SkipFile, StatFile, ReadFile, EndScan,
           KeepRunning, Discard, AppendRecord, AppendFailure, Collect, EndFlush,
           SendAcked, SendFails, SendStops, Prune, Truncate, TruncateFails,
           Restat, Crash, Wait, BackoffExpires, gateway, fate, history
      <4> QED BY <1>0, <4>1
    <3> QED BY <3>1, <3>2
  <2>5. ASSUME NEW f \in File, f > live
        PROVE  spool'[f] = <<>> /\ offsets'[f] = 0
    <3>1. spool[f] = <<>> /\ offsets[f] = 0 /\ f \notin present
      BY <1>0, <2>5 DEF SpoolOrder, NewestLive
    <3>2. spool'[f] = <<>>
      BY <2>1, <3>1
    <3>3. offsets'[f] = 0
      <4>1. CASE ReadFile
        BY <1>0, <3>1, <4>1, ReadFileDoes
      <4>2. CASE Restat
        BY <1>0, <3>1, <4>2 DEF Restat, PassState
      <4>3. CASE EndScan \/ Prune \/ Crash
        BY <1>0, <3>1, <4>3 DEF EndScan, Prune, Crash
      <4>4. CASE ~(ReadFile \/ Restat \/ EndScan \/ Prune \/ Crash)
        <5>1. offsets' = offsets
          BY <1>2, <4>4 DEF Next, Once, Scan, Flush, Ship, Reclaim, Gateway, Clock,
             BeginHeld, BeginScan, SkipFile, StatFile, KeepRunning, Discard, AppendRecord,
             AppendFailure, Collect, EndFlush, SendAcked, SendFails, SendStops, Truncate,
             TruncateFails, Rotate, Wait, BackoffExpires, memory
        <5> QED BY <3>1, <5>1
      <4> QED BY <4>1, <4>2, <4>3, <4>4
    <3> QED BY <3>2, <3>3
  <2>6. ASSUME NEW f \in File \ present'
        PROVE  spool'[f] = <<>>
    <3>1. CASE f \notin present
      BY <2>1, <3>1 DEF SpoolOrder
    <3>2. CASE f \in present
      <4>1. CASE Prune
        BY <2>6, <3>2, <4>1 DEF Prune
      <4>2. CASE ~Prune
        <5>1. present \subseteq present'
          BY <1>2, <4>2 DEF Next, Once, Scan, Flush, Ship, Reclaim, Gateway, Clock,
             BeginHeld, BeginScan, SkipFile, StatFile, ReadFile, EndScan,
             KeepRunning, Discard, AppendRecord, AppendFailure, Collect, EndFlush,
             SendAcked, SendFails, SendStops, Truncate, TruncateFails,
             Restat, Crash, Rotate, Wait, BackoffExpires, gateway
        <5> QED BY <2>6, <3>2, <5>1
      <4> QED BY <4>1, <4>2
    <3> QED BY <3>1, <3>2
  <2>7. ASSUME NEW f \in File, f > live'
        PROVE  f > live
    BY <1>0, <2>4, <2>7
  <2>8. \A f, g \in File : \A k \in DOMAIN spool'[f], j \in DOMAIN spool'[g] :
          spool'[f][k][1] = spool'[g][j][1] /\ Ahead(f, k, g, j) =>
            spool'[f][k][2] < spool'[g][j][2]
    BY <2>2 DEF SpoolOrder
  <2>9. \A f \in File : \A k \in DOMAIN spool'[f] :
          spool'[f][k][2] <= written'[spool'[f][k][1]]
    BY <2>1, <2>2 DEF SpoolOrder
  <2> QED BY <2>1, <2>3, <2>5, <2>6, <2>7, <2>8, <2>9 DEF SpoolOrder
<1> QED BY <1>1, <1>2

LEMMA VisitOrderNext ==
  ASSUME FileInv, SpoolOrder, VisitOrder, Next
  PROVE  VisitOrder'
<1>0. /\ TypeInv /\ spool \in [File -> Seq(Line)] /\ live \in File
      /\ present \subseteq File /\ NewestLive /\ offsets \in [File -> Nat] /\ PassState
      /\ File \subseteq Nat /\ files \subseteq present /\ todo \subseteq files
  BY DEF FileInv, TypeInv, TypeOK, File
<1>1. CASE BeginScan
  <2>1. /\ phase' = "scan" /\ files' = present /\ todo' = present /\ present' = present
    BY <1>1 DEF BeginScan, gateway
  <2> QED BY <2>1 DEF VisitOrder
<1>2. CASE SkipFile
  <2>1. /\ phase = "scan" /\ todo # {} /\ offsets[NextFile] = Len(spool[NextFile])
        /\ todo' = todo \ {NextFile} /\ UNCHANGED <<phase, files, listed, present, offsets, spool, cur, size>>
    BY <1>2 DEF SkipFile, Unchanged, gateway, memory, listing
  <2>2. NextFile \in todo /\ \A g \in todo : listed[NextFile] <= listed[g]
    BY <1>0, <2>1, NextFileIn
  <2>3. offsets[NextFile] >= Len(spool[NextFile])
    BY <1>0, <2>1, <2>2
  <2> QED BY <1>0, <2>1, <2>2, <2>3 DEF VisitOrder, Consumed
<1>3. CASE StatFile
  <2>1. /\ phase = "scan" /\ todo # {} /\ phase' = "read" /\ cur' = NextFile
        /\ size' = Len(spool[NextFile])
        /\ todo' = todo \ {NextFile} /\ UNCHANGED <<files, listed, present, offsets, spool>>
    BY <1>3 DEF StatFile, gateway, memory, listing
  <2>2. NextFile \in todo /\ \A g \in todo : listed[NextFile] <= listed[g]
    BY <1>0, <2>1, NextFileIn
  <2> QED BY <1>0, <2>1, <2>2 DEF VisitOrder, Consumed
<1>4. CASE ReadFile
  <2>1. /\ phase = "read" /\ phase' = "scan" /\ offsets' = [offsets EXCEPT ![cur] = size]
        /\ UNCHANGED <<files, listed, todo, present, spool>> /\ size \in Nat /\ cur \in File
    BY <1>4, ReadFileDoes
  <2>2. cur \in files \ todo
    BY <2>1 DEF VisitOrder
  <2>3. ASSUME NEW f \in files \ todo, NEW g \in files, f < g
        PROVE  offsets'[f] >= Len(spool[f])
    <3>1. CASE f = cur
      <4>1. size = Len(spool[f])
        BY <2>1, <2>3, <3>1 DEF VisitOrder
      <4> QED BY <1>0, <2>1, <3>1, <4>1
    <3>2. CASE f # cur
      <4>1. offsets[f] >= Len(spool[f])
        BY <2>1, <2>3, <3>2 DEF VisitOrder, Consumed
      <4> QED BY <1>0, <2>1, <3>2, <4>1
    <3> QED BY <3>1, <3>2
  <2>4. ASSUME NEW f \in present \ files
        PROVE  offsets'[f] = 0 /\ \A g \in files : g < f
    BY <1>0, <2>1, <2>2, <2>4 DEF VisitOrder
  <2>5. \A f \in files \ todo : \A g \in todo : listed[f] <= listed[g]
    BY <2>1 DEF VisitOrder
  <2> QED BY <2>1, <2>3, <2>4, <2>5 DEF VisitOrder, Consumed
<1>5. ASSUME NEW c \in Call, LogLine(c)
      PROVE  VisitOrder'
  <2>1. /\ UNCHANGED <<phase, files, listed, todo, present, offsets, cur, size>>
        /\ \A f \in File : f # live => spool'[f] = spool[f]
    BY <1>0, <1>5, LogLineDoes
  <2>2. ASSUME NEW f \in files, NEW g \in files, f < g
        PROVE  spool'[f] = spool[f]
    <3>1. g <= live /\ g \in Nat /\ f \in Nat /\ live \in Nat
      BY <1>0 DEF NewestLive
    <3> QED BY <1>0, <2>1, <2>2, <3>1
  <2> QED BY <1>0, <2>1, <2>2 DEF VisitOrder, Consumed
<1>6. CASE Rotate
  <2>1. /\ live < MaxFile /\ present' = present \cup {live + 1}
        /\ UNCHANGED <<phase, files, listed, todo, offsets, spool, cur, size>>
    BY <1>6 DEF Rotate, memory, pass, listing
  <2>2. live + 1 \in File /\ live + 1 > live
    <3>1. live \in 1..MaxFile /\ MaxFile \in Nat
      BY <1>0, BoundAssumption DEF File
    <3> QED BY <2>1, <3>1 DEF File
  <2>3. offsets[live + 1] = 0
    BY <2>2 DEF SpoolOrder
  <2>4. \A g \in files : g < live + 1
    BY <1>0 DEF NewestLive
  <2> QED BY <2>1, <2>3, <2>4 DEF VisitOrder, Consumed
<1>7. CASE BackoffExpires \/ Wait(1) \/ Wait(2)
  <2>1. UNCHANGED <<phase, files, listed, todo, present, offsets, spool, cur, size>>
    BY <1>7 DEF BackoffExpires, Wait, gateway, pass, listing
  <2> QED BY <2>1 DEF VisitOrder, Consumed
<1>8. CASE \/ BeginHeld \/ EndScan \/ Flush \/ EndFlush \/ Ship \/ Reclaim \/ Crash
  <2>1. phase' \notin {"scan", "read"}
    BY <1>8 DEF BeginHeld, EndScan, Flush, KeepRunning, Discard, AppendRecord, AppendFailure,
       Collect, Visit, EndFlush, AfterFlush, Ship, SendAcked, SendFails, SendStops, Reclaim,
       Prune, Truncate, TruncateFails, Restat, Crash, pass
  <2> QED BY <2>1 DEF VisitOrder
<1> QED BY <1>1, <1>2, <1>3, <1>4, <1>5, <1>6, <1>7, <1>8
        DEF Next, Once, Scan, Gateway, Clock

-----------------------------------------------------------------------------
(* What a record holds and what is still ahead of the reader. *)

(* Other than by LogLine, a file is in read phase as it was or as of a stat. *)
LEMMA ReadPhase ==
  ASSUME Next, ~\E c \in Call : LogLine(c), phase' = "read"
  PROVE  \/ StatFile
         \/ phase = "read" /\ UNCHANGED <<spool, cur, size, offsets>>
<1>1. CASE Wait(1) \/ Wait(2)
  BY <1>1 DEF Wait, gateway, pass
<1>2. CASE ~(Wait(1) \/ Wait(2) \/ StatFile)
  BY <1>2 DEF Next, Once, Scan, Flush, Ship, Reclaim, Gateway, Clock,
     BeginHeld, BeginScan, SkipFile, ReadFile, EndScan, KeepRunning, Discard, AppendRecord,
     AppendFailure, Collect, EndFlush, AfterFlush, SendAcked, SendFails, SendStops, Prune,
     Truncate, TruncateFails, Restat, Crash, Rotate, BackoffExpires, Visit, gateway, pass,
     memory, fate, history
<1> QED BY <1>1, <1>2

LEMMA RacedSame ==
  ASSUME Next, ~\E c \in Call : LogLine(c)
  PROVE  raced' = raced
BY DEF Next, Once, Scan, Flush, Ship, Reclaim, Gateway, Clock,
   BeginHeld, BeginScan, SkipFile, StatFile, ReadFile, EndScan,
   KeepRunning, Discard, AppendRecord, AppendFailure, Collect, EndFlush,
   SendAcked, SendFails, SendStops, Prune, Truncate, TruncateFails,
   Restat, Crash, Rotate, Wait, BackoffExpires, history, fate

LEMMA HeldRacedNext ==
  ASSUME FileInv, SpoolOrder, VisitOrder, HeldRaced, Next
  PROVE  HeldRaced'
<1>0. /\ TypeInv /\ spool \in [File -> Seq(Line)] /\ rec \in [Call -> Record]
      /\ offsets \in [File -> Nat] /\ written \in [Call -> Nat] /\ cur \in File \cup {0}
      /\ PassState /\ present \subseteq File /\ live \in File
  BY DEF FileInv, TypeInv, TypeOK
<1>l. \A f \in File : \A k \in DOMAIN spool[f] :
        /\ k \in Nat /\ spool[f][k] \in Line /\ spool[f][k][1] \in Call
        /\ spool[f][k] = <<spool[f][k][1], spool[f][k][2]>>
  BY SMTT(20), <1>0 DEF Line
<1>1. ASSUME NEW c \in Call, LogLine(c)
      PROVE  HeldRaced'
  <2>1. /\ UNCHANGED <<rec, offsets, phase, cur, size, live>>
        /\ raced \subseteq raced' /\ (phase = "read" /\ cur = live => Logged(c) \in raced')
        /\ written[c] \in Nat
    BY <1>0, <1>1, LogLineDoes
  <2>2. ASSUME NEW f \in File, NEW k \in DOMAIN spool'[f], k > offsets[f],
               spool'[f][k][2] \in rec[spool'[f][k][1]].lines
        PROVE  spool'[f][k] \in raced'
    <3>1. CASE k \in DOMAIN spool[f] /\ spool'[f][k] = spool[f][k]
      BY <2>1, <2>2, <3>1 DEF HeldRaced
    <3>2. CASE spool'[f][k] = Logged(c)
      <4>1. written[c] + 1 \in rec[c].lines
        BY <2>2, <3>2 DEF Logged
      <4>2. written[c] + 1 <= written[c]
        BY <4>1 DEF SpoolOrder
      <4> QED BY <2>1, <4>2
    <3> QED BY <1>0, <1>1, <3>1, <3>2, LinesAfterLog
  <2>3. ASSUME phase = "read", NEW k \in DOMAIN spool'[cur], k > size
        PROVE  spool'[cur][k] \in raced'
    <3>1. cur \in File
      BY <1>0, <2>3 DEF PassState
    <3>2. CASE k \in DOMAIN spool[cur] /\ spool'[cur][k] = spool[cur][k]
      BY <2>1, <2>3, <3>2 DEF HeldRaced
    <3>3. CASE cur = live /\ spool'[cur][k] = Logged(c)
      BY <2>1, <2>3, <3>3
    <3> QED BY <1>0, <1>1, <3>1, <3>2, <3>3, LinesAfterLog
  <2> QED BY <2>1, <2>2, <2>3 DEF HeldRaced
<1>2. ASSUME ~\E c \in Call : LogLine(c)
      PROVE  HeldRaced'
  <2>1. /\ \A f \in File : spool'[f] = spool[f] \/ spool'[f] = <<>>
        /\ ~Crash => \A f \in File : \A k \in DOMAIN spool'[f] :
             k > offsets'[f] => spool'[f] = spool[f] /\ k > offsets[f]
        /\ raced' = raced
    BY <1>2, SpoolMoves, RacedSame
  <2>2. ASSUME NEW f \in File, NEW k \in DOMAIN spool'[f], k > offsets'[f],
               spool'[f][k][2] \in rec'[spool'[f][k][1]].lines
        PROVE  spool'[f][k] \in raced
    <3> DEFINE c == spool[f][k][1]
               n == spool[f][k][2]
    <3>1. CASE Crash
      <4>1. spool'[f] = spool[f]
        BY <3>1 DEF Crash, gateway
      <4>2. rec'[c] = Blank
        BY <1>l, <3>1, <4>1 DEF Crash
      <4> QED BY <2>2, <4>1, <4>2, BlankType
    <3>2. CASE ~Crash
      <4>1. /\ spool'[f] = spool[f] /\ k \in DOMAIN spool[f] /\ k > offsets[f]
            /\ c \in Call /\ spool[f][k] = <<c, n>> /\ n \in rec'[c].lines
        BY <1>l, <2>1, <2>2, <3>2
      <4>2. CASE n \in rec[c].lines
        BY <4>1, <4>2 DEF HeldRaced
      <4>3. CASE n \notin rec[c].lines
        <5>1. ReadFile
          <6>1. ~(Kept(rec[c], rec'[c]) \/ rec'[c] = Blank)
            BY <4>1, <4>3, BlankType DEF Kept
          <6> QED BY <1>0, <4>1, <6>1, RecMoves
        <5>2. /\ cur \in File /\ phase = "read" /\ offsets' = [offsets EXCEPT ![cur] = size]
          BY <5>1, ReadFileDoes
        <5>3. PICK r \in Read(cur) : rec' = Fold(cur, r)
          BY <5>1, ReadFileDoes
        <5>4. \A m \in rec'[c].lines :
                m \in rec[c].lines \/ \E j \in Covered(r) : spool[cur][j] = <<c, m>>
          BY ZenonT(40), <1>0, <4>1, <5>2, <5>3, ReadLines
        <5>5. PICK j \in Covered(r) : spool[cur][j] = <<c, n>>
          BY <4>1, <4>3, <5>4
        <5>c. Covered(r) \subseteq DOMAIN spool[cur]
          BY <5>3 DEF Covered, Read
        <5> HIDE DEF c, n
        <5>6. /\ j \in DOMAIN spool[cur] /\ j \in Nat /\ k \in Nat
              /\ f \in Nat /\ cur \in Nat /\ n \in Nat
          BY <1>l, <4>1, <5>2, <5>5, <5>c DEF File, Line
        <5>7. f = cur /\ k = j
          <6>1. ~Ahead(f, k, cur, j) /\ ~Ahead(cur, j, f, k)
            <7>1. /\ spool[f][k][1] = c /\ spool[cur][j][1] = c
                  /\ spool[f][k][2] = n /\ spool[cur][j][2] = n
              BY <4>1, <5>5
            <7>2. ~(n < n)
              BY <5>6
            <7> QED BY <4>1, <5>2, <5>6, <7>1, <7>2 DEF SpoolOrder
          <6> QED BY <5>6, <6>1 DEF Ahead
        <5>8. k > size
          BY <1>0, <2>2, <5>2, <5>7
        <5> QED BY <4>1, <5>2, <5>7, <5>8 DEF HeldRaced
      <4> QED BY <4>2, <4>3
    <3> QED BY <3>1, <3>2
  <2>3. ASSUME phase' = "read", NEW k \in DOMAIN spool'[cur'], k > size'
        PROVE  spool'[cur'][k] \in raced
    <3>1. CASE StatFile
      <4>1. /\ todo # {} /\ cur' = NextFile /\ size' = Len(spool[NextFile]) /\ spool' = spool
        BY <3>1 DEF StatFile, gateway
      <4>2. NextFile \in File
        BY <1>0, <4>1, NextFileIn DEF TypeInv, TypeOK
      <4>3. DOMAIN spool[NextFile] = 1..Len(spool[NextFile]) /\ Len(spool[NextFile]) \in Nat
        BY <1>0, <4>2
      <4> QED BY <2>3, <4>1, <4>3
    <3>2. CASE phase = "read" /\ UNCHANGED <<spool, cur, size>>
      BY <2>3, <3>2 DEF HeldRaced
    <3> QED BY <1>2, <2>3, <3>1, <3>2, ReadPhase
  <2> QED BY <2>1, <2>2, <2>3 DEF HeldRaced
<1> QED BY <1>1, <1>2
(* A read dates a record it begins by the first line of the call it covers, *)
(* leaves the date of one it adds to, and makes no whole line a cut one.    *)
LEMMA FoldOf ==
  ASSUME TypeInv, NEW f \in File, NEW r \in Read(f), rec' = Fold(f, r),
         NEW c \in Call
  PROVE  /\ rec[c].lines \subseteq rec'[c].lines
         /\ \A n \in rec'[c].twice :
              \/ n \in rec[c].twice
              \/ n \in rec[c].lines /\ \E k \in Covered(r) : spool[f][k] = <<c, n>>
         /\ rec[c].lines # {} => rec'[c].first = rec[c].first
         /\ rec[c].lines = {} /\ rec'[c].lines # {} =>
              \E k \in Covered(r) :
                /\ spool[f][k] = <<c, rec'[c].first>>
                /\ \A j \in Covered(r) : spool[f][j][1] = c => k <= j
<1> DEFINE mine == Mine(f, r, c)
           new == Fresh(f, r, c)
<1>0. /\ rec \in [Call -> Record] /\ spool \in [File -> Seq(Line)]
  BY DEF TypeInv, TypeOK
<1>1. /\ rec'[c].lines = rec[c].lines \cup new
      /\ mine = {} => rec'[c] = rec[c]
      /\ mine # {} =>
           /\ rec'[c].twice = rec[c].twice \cup (rec[c].lines \cap new)
           /\ rec'[c].first = IF rec[c].lines = {} THEN spool[f][Oldest(mine)][2]
                              ELSE rec[c].first
  BY <1>0, FoldType
<1>2. /\ \A k \in mine : spool[f][k] \in Line
      /\ mine # {} => Oldest(mine) \in mine /\ \A k \in mine : Oldest(mine) <= k
  BY <1>0, MineType
<1>3. \A k \in mine : spool[f][k] = <<c, spool[f][k][2]>> /\ k \in Covered(r)
  BY <1>2 DEF Line, Mine, Covered
<1>4. \A j \in Covered(r) : spool[f][j][1] = c => j \in mine
  BY DEF Mine, Covered
<1>5. \A n \in new : \E k \in Covered(r) : spool[f][k] = <<c, n>>
  BY <1>3 DEF Fresh
<1> HIDE DEF mine, new
<1>6. CASE mine = {}
  BY <1>1, <1>6
<1>7. CASE mine # {}
  <2>1. \A n \in rec'[c].twice : n \in rec[c].twice \/ (n \in rec[c].lines /\ n \in new)
    BY <1>1, <1>7
  <2>2. ASSUME rec[c].lines = {}
        PROVE  \E k \in Covered(r) :
                 /\ spool[f][k] = <<c, rec'[c].first>>
                 /\ \A j \in Covered(r) : spool[f][j][1] = c => k <= j
    BY <1>1, <1>2, <1>3, <1>4, <1>7, <2>2
  <2>3. rec[c].lines # {} => rec'[c].first = rec[c].first
    BY <1>1, <1>7
  <2> QED BY <1>1, <1>5, <2>1, <2>2, <2>3
<1> QED BY <1>6, <1>7

LEMMA RefoldNext ==
  ASSUME FileInv, HeldRaced, RefoldOnlyRaced, Next
  PROVE  RefoldOnlyRaced'
<1>0. /\ TypeInv /\ spool \in [File -> Seq(Line)] /\ rec \in [Call -> Record]
      /\ archive \in [Call -> Seq(Version)]
  BY DEF FileInv, TypeInv, TypeOK
<1>1. raced \subseteq raced'
  <2>1. ASSUME NEW c \in Call, LogLine(c)
        PROVE  raced \subseteq raced'
    BY <1>0, <2>1, LogLineDoes
  <2> QED BY <2>1, RacedSame
<1>2. ASSUME NEW c \in Call
      PROVE  {c} \X rec'[c].twice \subseteq raced
  <2>1. {c} \X rec[c].twice \subseteq raced
    BY DEF RefoldOnlyRaced
  <2>2. CASE ReadFile
    <3>1. cur \in File
      BY <2>2, ReadFileDoes
    <3>2. PICK r \in Read(cur) : rec' = Fold(cur, r) /\ \A k \in Covered(r) : k > offsets[cur]
      BY <2>2, ReadFileDoes
    <3>3. \A n \in rec'[c].twice :
            \/ n \in rec[c].twice
            \/ n \in rec[c].lines /\ \E k \in Covered(r) : spool[cur][k] = <<c, n>>
      <4>1. TypeInv
        BY <1>0
      <4>2. rec' = Fold(cur, r)
        BY <3>2
      <4> QED BY <3>1, <4>1, <4>2, FoldOf
    <3>4. ASSUME NEW n \in rec[c].lines, NEW k \in Covered(r), spool[cur][k] = <<c, n>>
          PROVE  <<c, n>> \in raced
      <4>1. k \in DOMAIN spool[cur]
        BY <3>2 DEF Read, Covered
      <4> QED BY <3>1, <3>2, <3>4, <4>1 DEF HeldRaced
    <3> QED BY <2>1, <3>3, <3>4
  <2>3. CASE ~ReadFile
    <3>1. Kept(rec[c], rec'[c]) \/ rec'[c] = Blank
      BY <1>0, <2>3, RecMoves
    <3>2. rec'[c].twice = rec[c].twice \/ rec'[c].twice = {}
      BY <3>1 DEF Kept, Blank
    <3> QED BY <2>1, <3>2
  <2> QED BY <2>2, <2>3
<1>3. ASSUME NEW c \in Call, NEW i \in DOMAIN archive'[c]
      PROVE  {c} \X archive'[c][i].twice \subseteq raced
  <2>1. CASE i \in DOMAIN archive[c] /\ archive'[c][i] = archive[c][i]
    BY <1>3, <2>1 DEF RefoldOnlyRaced
  <2>2. CASE Copied(rec[c], archive'[c][i])
    BY <2>2 DEF Copied, RefoldOnlyRaced
  <2> QED BY <1>0, <1>3, <2>1, <2>2, NewVersion
<1> QED BY <1>1, <1>2, <1>3 DEF RefoldOnlyRaced

(* While a file is read, the older ones have nothing ahead of the reader.   *)
LEMMA OlderRead ==
  ASSUME FileInv, TimeInv, SpoolOrder, VisitOrder, phase = "read", NEW f \in File, f < cur,
         NEW k \in DOMAIN spool[f]
  PROVE  ~(k > offsets[f])
<1>0. spool \in [File -> Seq(Line)] /\ offsets \in [File -> Nat] /\ cur \in File
  BY DEF FileInv, TypeInv, TypeOK, PassState
<1>1. cur \in files \ todo /\ f \in Nat /\ cur \in Nat
  BY <1>0 DEF VisitOrder, File
<1>2. f \in present
  <2>1. f \notin present => spool[f] = <<>>
    BY DEF SpoolOrder
  <2> QED BY <2>1
<1>3. f \in files
  BY <1>1, <1>2 DEF VisitOrder
<1>4. f \notin todo
  <2>1. f \in todo => listed[cur] <= listed[f]
    BY <1>1 DEF VisitOrder
  <2>2. spool[f] # <<>>
    OBVIOUS
  <2>3. listed[f] < listed[cur]
    BY <1>1, <1>3, <2>2 DEF TimeInv, WrittenInOrder
  <2>4. listed[f] \in Nat /\ listed[cur] \in Nat
    BY <1>0, FileBound DEF FileInv, TypeInv, TypeOK
  <2> QED BY <2>1, <2>3, <2>4
<1>5. offsets[f] >= Len(spool[f])
  BY <1>1, <1>3, <1>4 DEF VisitOrder, Consumed
<1>6. k <= Len(spool[f]) /\ Len(spool[f]) \in Nat /\ k \in Nat
  BY <1>0
<1> QED BY <1>0, <1>5, <1>6

LEMMA ReadFileDates ==
  ASSUME FileInv, TimeInv, SpoolOrder, VisitOrder, Dated, ReadFile, NEW c \in Call, rec'[c].lines # {}
  PROVE  /\ \A n \in rec'[c].lines : rec'[c].first <= n
         /\ \A f \in File : \A k \in DOMAIN spool[f] :
              k > offsets'[f] /\ spool[f][k][1] = c => rec'[c].first <= spool[f][k][2]
<1>0. /\ TypeInv /\ spool \in [File -> Seq(Line)] /\ rec \in [Call -> Record]
      /\ offsets \in [File -> Nat]
  BY DEF FileInv, TypeInv, TypeOK
<1>l. \A f \in File : f \in Nat /\ \A k \in DOMAIN spool[f] :
        k \in Nat /\ spool[f][k] \in Line /\ spool[f][k][2] \in Nat
  BY <1>0 DEF Line, File
<1>1. /\ cur \in File /\ phase = "read" /\ offsets' = [offsets EXCEPT ![cur] = size]
      /\ offsets[cur] <= size /\ size \in Nat /\ offsets[cur] \in Nat
  BY ReadFileDoes
<1>p. PICK r \in Read(cur) :
        /\ rec' = Fold(cur, r)
        /\ \A k \in Covered(r) : k > offsets[cur]
        /\ \A k \in Covered(r), j \in DOMAIN spool[cur] :
             offsets[cur] < j /\ j < k => j \in r.whole
  BY ReadFileDoes
<1> DEFINE P == Covered(r)
<1>2. /\ rec' = Fold(cur, r)
      /\ P \in SUBSET DOMAIN spool[cur]
      /\ \A k \in P : k > offsets[cur]
      /\ \A k \in P, j \in DOMAIN spool[cur] : offsets[cur] < j /\ j < k => j \in P
  BY <1>p DEF Read, Covered
<1>3. \A n \in rec'[c].lines : n \in rec[c].lines \/ \E k \in P : spool[cur][k] = <<c, n>>
  <2>1. TypeInv
    BY <1>0
  <2>2. rec' = Fold(cur, r)
    BY <1>2
  <2> QED BY <1>1, <2>1, <2>2, ReadLines
<1>4. /\ rec[c].lines # {} => rec'[c].first = rec[c].first
      /\ rec[c].lines = {} =>
           \E k \in P : /\ spool[cur][k] = <<c, rec'[c].first>>
                        /\ \A j \in P : spool[cur][j][1] = c => k <= j
  <2>1. TypeInv
    BY <1>0
  <2>2. rec' = Fold(cur, r)
    BY <1>2
  <2> QED BY <1>1, <2>1, <2>2, FoldOf
<1> HIDE DEF P
<1>5. ASSUME NEW f \in File, NEW k \in DOMAIN spool[f], k > offsets'[f]
      PROVE  k > offsets[f] /\ (f = cur => k > size)
  BY <1>0, <1>1, <1>l, <1>5
<1>6. CASE rec[c].lines # {}
  <2>1. /\ \A n \in rec[c].lines : rec[c].first <= n
        /\ \A f \in File : \A k \in DOMAIN spool[f] :
             k > offsets[f] /\ spool[f][k][1] = c => rec[c].first <= spool[f][k][2]
    BY <1>6 DEF Dated
  <2>2. ASSUME NEW n \in rec'[c].lines
        PROVE  rec'[c].first <= n
    <3>1. CASE n \in rec[c].lines
      BY <1>4, <1>6, <2>1, <3>1
    <3>2. ASSUME NEW k \in P, spool[cur][k] = <<c, n>>
          PROVE  rec'[c].first <= n
      BY <1>1, <1>2, <1>4, <1>6, <2>1, <3>2
    <3> QED BY <1>3, <3>1, <3>2
  <2> QED BY <1>4, <1>5, <1>6, <2>1, <2>2
<1>7. CASE rec[c].lines = {}
  <2>1. PICK m \in P : /\ spool[cur][m] = <<c, rec'[c].first>>
                       /\ \A j \in P : spool[cur][j][1] = c => m <= j
    BY <1>4, <1>7
  <2>2. /\ m \in Nat /\ m \in DOMAIN spool[cur] /\ spool[cur][m][1] = c
        /\ spool[cur][m][2] = rec'[c].first /\ rec'[c].first \in Nat
    BY <1>1, <1>2, <1>l, <2>1
  <2>3. ASSUME NEW j \in P, spool[cur][j][1] = c
        PROVE  rec'[c].first <= spool[cur][j][2]
    <3>1. m <= j /\ j \in Nat /\ j \in DOMAIN spool[cur]
      BY <1>1, <1>2, <1>l, <2>1, <2>3
    <3>2. CASE j = m
      BY <2>2, <3>2
    <3>3. CASE m < j
      <4>1. spool[cur][m][2] < spool[cur][j][2]
        BY <1>1, <2>2, <2>3, <3>1, <3>3 DEF SpoolOrder, Ahead
      <4>2. spool[cur][j][2] \in Nat
        BY <1>1, <1>l, <3>1
      <4> QED BY <2>2, <4>1, <4>2
    <3> QED BY <2>2, <3>1, <3>2, <3>3
  <2>4. \A n \in rec'[c].lines : rec'[c].first <= n
    <3> SUFFICES ASSUME NEW n \in rec'[c].lines
                 PROVE  rec'[c].first <= n
      OBVIOUS
    <3>1. PICK j \in P : spool[cur][j] = <<c, n>>
      BY <1>3, <1>7
    <3> QED BY <2>3, <3>1
  <2>5. ASSUME NEW f \in File, NEW k \in DOMAIN spool[f], k > offsets'[f], spool[f][k][1] = c
        PROVE  rec'[c].first <= spool[f][k][2]
    <3>1. k > offsets[f] /\ k \in Nat /\ f \in Nat /\ cur \in Nat
          /\ spool[f][k][2] \in Nat
      BY <1>1, <1>5, <1>l, <2>5
    <3>2. CASE f = cur
      <4>1. CASE k < m
        <5>1. k \in P
          BY <1>2, <2>1, <2>5, <3>1, <3>2, <4>1
        <5> QED BY <2>3, <2>5, <3>2, <5>1
      <4>2. CASE k = m
        BY <2>2, <3>2, <4>2
      <4>3. CASE m < k
        <5>1. spool[cur][m][2] < spool[f][k][2]
          BY <1>1, <2>2, <2>5, <3>2, <4>3 DEF SpoolOrder, Ahead
        <5> QED BY <2>2, <3>1, <5>1
      <4> QED BY <2>2, <3>1, <4>1, <4>2, <4>3
    <3>3. CASE cur < f
      <4>1. spool[cur][m][2] < spool[f][k][2]
        BY <1>1, <2>2, <2>5, <3>3 DEF SpoolOrder, Ahead
      <4> QED BY <2>2, <3>1, <4>1
    <3>4. CASE f < cur
      BY <1>1, <2>5, <3>1, <3>4, OlderRead
    <3> QED BY <3>1, <3>2, <3>3, <3>4
  <2> QED BY <2>4, <2>5
<1> QED BY <1>6, <1>7

LEMMA DatedNext ==
  ASSUME FileInv, TimeInv, SpoolOrder, VisitOrder, Dated, Next
  PROVE  Dated'
<1>0. /\ TypeInv /\ spool \in [File -> Seq(Line)] /\ rec \in [Call -> Record]
      /\ written \in [Call -> Nat] /\ live \in File
  BY DEF FileInv, TypeInv, TypeOK
<1> SUFFICES ASSUME NEW c \in Call, rec'[c].lines # {}
             PROVE  /\ \A n \in rec'[c].lines : rec'[c].first <= n
                    /\ \A f \in File : \A k \in DOMAIN spool'[f] :
                         k > offsets'[f] /\ spool'[f][k][1] = c =>
                           rec'[c].first <= spool'[f][k][2]
  BY DEF Dated
<1>1. ASSUME NEW d \in Call, LogLine(d)
      PROVE  /\ \A n \in rec'[c].lines : rec'[c].first <= n
             /\ \A f \in File : \A k \in DOMAIN spool'[f] :
                  k > offsets'[f] /\ spool'[f][k][1] = c => rec'[c].first <= spool'[f][k][2]
  <2>1. rec' = rec /\ offsets' = offsets /\ written[d] \in Nat
    BY <1>0, <1>1, LogLineDoes
  <2>2. \A n \in rec[c].lines : rec[c].first <= n
    BY <2>1 DEF Dated
  <2>3. ASSUME NEW f \in File, NEW k \in DOMAIN spool'[f], k > offsets[f], spool'[f][k][1] = c
        PROVE  rec[c].first <= spool'[f][k][2]
    <3>1. CASE k \in DOMAIN spool[f] /\ spool'[f][k] = spool[f][k]
      BY <2>1, <2>3, <3>1 DEF Dated
    <3>2. CASE spool'[f][k] = Logged(d)
      <4>1. d = c /\ spool'[f][k][2] = written[c] + 1
        BY <2>3, <3>2 DEF Logged
      <4>2. PICK n \in rec[c].lines : TRUE
        BY <2>1
      <4>3. n <= written[c] /\ rec[c].first <= n
        BY <2>2, <4>2 DEF SpoolOrder
      <4>4. n \in Nat /\ rec[c].first \in Nat
        <5>1. rec[c] \in Record
          BY <1>0
        <5> QED BY <4>2, <5>1 DEF Record
      <4> QED BY <2>1, <4>1, <4>3, <4>4
    <3> QED BY <1>0, <1>1, <3>1, <3>2, LinesAfterLog
  <2> QED BY <2>1, <2>2, <2>3
<1>2. CASE ReadFile
  <2>1. spool' = spool
    BY <1>2, ReadFileDoes
  <2> QED BY <1>2, <2>1, ReadFileDates
<1>3. CASE ~ReadFile /\ ~\E d \in Call : LogLine(d)
  <2>1. Kept(rec[c], rec'[c]) \/ rec'[c] = Blank
    BY <1>0, <1>3, RecMoves
  <2>2. rec'[c].lines = rec[c].lines /\ rec'[c].first = rec[c].first
    BY <2>1, BlankType DEF Kept
  <2>3. ~Crash
    <3>1. Crash => rec'[c] = Blank
      BY DEF Crash
    <3> QED BY <3>1, BlankType
  <2>4. \A f \in File : \A k \in DOMAIN spool'[f] :
          k > offsets'[f] => spool'[f] = spool[f] /\ k > offsets[f]
    BY <1>3, <2>3, SpoolMoves
  <2> QED BY <2>2, <2>4 DEF Dated
<1> QED BY <1>1, <1>2, <1>3

LEMMA HeadsNext ==
  ASSUME FileInv, Dated, Dated', DatedByHead, Next
  PROVE  DatedByHead'
<1>0. TypeInv /\ archive \in [Call -> Seq(Version)]
  BY DEF FileInv, TypeInv, TypeOK
<1>1. ASSUME NEW c \in Call, NEW i \in DOMAIN archive'[c], NEW n \in archive'[c][i].lines
      PROVE  archive'[c][i].first <= n
  <2>1. CASE i \in DOMAIN archive[c] /\ archive'[c][i] = archive[c][i]
    BY <1>1, <2>1 DEF DatedByHead
  <2>2. CASE Copied(rec[c], archive'[c][i])
    BY <1>1, <2>2 DEF Copied, Dated, Whole
  <2> QED BY <1>0, <1>1, <2>1, <2>2, NewVersion
<1>2. ASSUME NEW c \in Call, NEW n \in rec'[c].lines
      PROVE  rec'[c].first <= n
  BY <1>2 DEF Dated
<1> QED BY <1>1, <1>2 DEF DatedByHead

-----------------------------------------------------------------------------
(* The push queue and the hold. *)

(* Only time passing ages a line. *)
LEMMA AgedSame ==
  ASSUME Next, ~\E q \in {1, 2} : Wait(q)
  PROVE  aged' = aged
BY DEF Next, Once, Scan, Flush, Ship, Reclaim, Gateway, Clock,
   BeginHeld, BeginScan, SkipFile, StatFile, ReadFile, EndScan,
   KeepRunning, Discard, AppendRecord, AppendFailure, Collect, EndFlush,
   SendAcked, SendFails, SendStops, Prune, Truncate, TruncateFails,
   Restat, Crash, Rotate, LogLine, BackoffExpires

(* A wanted record has lines, and is still wanted as long as it is pending  *)
(* and not written.                                                         *)
LEMMA WantedHasLines ==
  ASSUME NEW c \in Call, WorthArchiving(c, rec[c])
  PROVE  rec[c].lines # {}
BY DEF WorthArchiving, Has

LEMMA WantedStays ==
  ASSUME TypeInv, TypeInv', Next, NEW c \in Call, Kept(rec[c], rec'[c]),
         c \notin archived', Wanted(c)
  PROVE  Wanted(c)'
<1>1. /\ rec[c] \in Record /\ rec'[c] \in Record
      /\ rec'[c].lines = rec[c].lines /\ rec'[c].last = rec[c].last
      /\ rec'[c].cut = rec[c].cut /\ rec'[c].billed = rec[c].billed
      /\ rec[c].quiet <= rec'[c].quiet
  BY DEF TypeInv, TypeOK, Kept
<1>2. rec[c].quiet \in 0..2 /\ rec'[c].quiet \in 0..2
  BY <1>1 DEF Record
<1>3. \A kinds : Has(c, rec'[c], kinds) <=> Has(c, rec[c], kinds)
  BY <1>1 DEF Has
<1>4. WorthArchiving(c, rec'[c])
  BY <1>1, <1>3 DEF Wanted, WorthArchiving
<1>5. Settled(c, rec[c]) => (Settled(c, rec[c]))'
  <2>1. ASSUME NEW q \in {1, 2}, Wait(q)
        PROVE  rec'[c].quiet >= 1
    BY <2>1, <1>1, WaitKeeps, WantedHasLines DEF Wanted, TypeInv, TypeOK
  <2> QED BY <1>1, <1>2, <2>1, AgedSame DEF Settled
<1>6. Completed(c, rec[c]) => (Completed(c, rec[c]))'
  BY <1>1, <1>3, <1>5 DEF Completed
<1>7. Expired(c)'
  BY <1>1, <1>2, <1>6 DEF Wanted, Expired
<1> QED BY <1>4, <1>7 DEF Wanted

(* A step that starts a flush finds no queue, and one that does not touch   *)
(* the queue keeps every record in it wanted.                               *)
LEMMA QueueNext ==
  ASSUME TypeInv, TypeInv', Queue, Next
  PROVE  Queue'
<1>r. rec \in [Call -> Record] /\ rec' \in [Call -> Record] /\ archive \in [Call -> Seq(Version)]
  BY DEF TypeInv, TypeOK
<1>1. ASSUME due' = {}, ready' = {}
      PROVE  Queue'
  BY <1>1 DEF Queue
<1>2. ASSUME phase' = "flush", ready' = {}
      PROVE  Queue'
  BY <1>2 DEF Queue
<1>3. ASSUME phase' \in {"flush", "send"}, phase' = "send" => due' = {},
             ready' \subseteq ready, due' \subseteq due, archived' = archived,
             \A c \in ready' : Kept(rec[c], rec'[c])
      PROVE  Queue'
  <2>1. \A c \in ready' : c \in Call /\ c \notin archived /\ Wanted(c) /\ PushMode
    BY <1>3 DEF Queue, Wanted, TypeInv, TypeOK
  <2>2. \A c \in ready' : Wanted(c)'
    BY <1>3, <2>1, WantedStays
  <2> QED BY <1>3, <2>1, <2>2 DEF Queue
<1>4. CASE Scan \/ Reclaim \/ Rotate \/ Clock \/ Crash \/ \E c \in Call : LogLine(c)
  <2>1. CASE phase = "send"
    BY <2>1, <1>4, <1>1 DEF Scan, BeginHeld, BeginScan, SkipFile, StatFile, ReadFile, EndScan,
       Reclaim, Prune, Truncate, TruncateFails, Restat, Rotate, Clock, BackoffExpires, Wait,
       Crash, LogLine
  <2>2. CASE phase = "flush"
    BY <2>2, <1>4, <1>1 DEF Scan, BeginHeld, BeginScan, SkipFile, StatFile, ReadFile, EndScan,
       Reclaim, Prune, Truncate, TruncateFails, Restat, Rotate, Clock, BackoffExpires, Wait,
       Crash, LogLine
  <2>3. CASE phase \notin {"flush", "send"}
    <3>1. due = {} /\ ready = {}
      BY <2>3 DEF Queue
    <3>2. CASE BeginHeld \/ EndScan
      BY <3>1, <3>2, <1>2 DEF BeginHeld, EndScan
    <3>3. CASE ~(BeginHeld \/ EndScan)
      <4>1. due' = {} /\ ready' = {}
        BY <3>1, <3>3, <1>4 DEF Scan, BeginScan, SkipFile, StatFile, ReadFile,
           Reclaim, Prune, Truncate, TruncateFails, Restat, Rotate, Clock, BackoffExpires,
           Wait, Crash, LogLine, pass
      <4> QED BY <4>1, <1>1
    <3> QED BY <3>2, <3>3
  <2> QED BY <2>1, <2>2, <2>3
<1>5. ASSUME NEW c \in Call, KeepRunning(c) \/ Discard(c) \/ AppendFailure(c)
      PROVE  Queue'
  <2>1. /\ phase' = "flush" /\ ready' = ready /\ due' \subseteq due /\ archived' = archived
        /\ c \notin ready
    BY <1>5 DEF KeepRunning, Discard, AppendFailure, Visit, memory, Queue
  <2>2. \A d \in ready : rec'[d] = rec[d] /\ rec[d] \in Record
    BY <1>r, <1>5, <2>1 DEF KeepRunning, Discard, AppendFailure, memory, TypeInv, TypeOK
  <2> QED BY <1>3, <2>1, <2>2, KeptSame
<1>6. ASSUME NEW c \in Call, AppendRecord(c)
      PROVE  Queue'
  <2>1. phase' = "flush" /\ ready' = {}
    BY <1>6 DEF AppendRecord, Visit, Queue
  <2> QED BY <2>1, <1>2
<1>7. ASSUME NEW c \in Call, Collect(c)
      PROVE  Queue'
  <2>1. /\ PushMode /\ phase' = "flush" /\ ready' = ready \cup {c} /\ due' = due \ {c}
        /\ archived' = archived /\ rec' = [rec EXCEPT ![c] = Judged(c)]
        /\ Wanted(c) /\ c \in due
    BY <1>7 DEF Collect, Visit, Wanted, Unwanted
  <2>2. ASSUME NEW d \in ready'
        PROVE  Wanted(d)'
    <3>1. d \in Call /\ Wanted(d) /\ d \notin archived'
      BY <2>1, <2>2 DEF Queue, Wanted, TypeInv, TypeOK
    <3>2. Kept(rec[d], rec'[d])
      BY <1>r, <2>1, <3>1, KeptSame, KeptJudged
    <3> QED BY <3>1, <3>2, WantedStays
  <2> QED BY <2>1, <2>2 DEF Queue
<1>8. CASE EndFlush
  <2>1. CASE ready = {}
    BY <1>8, <2>1, <1>1 DEF EndFlush
  <2>2. CASE ready # {}
    <3>1. /\ phase' = "send" /\ archived' = archived /\ rec' = rec /\ due' = {} /\ ready' = ready
          /\ due' \subseteq due
      BY <1>8, <2>2 DEF EndFlush
    <3>2. \A d \in ready : rec[d] \in Record
      BY <1>r DEF TypeInv, TypeOK
    <3> QED BY <1>3, <3>1, <3>2, KeptSame
  <2> QED BY <2>1, <2>2
<1>9. CASE SendAcked
  <2>1. /\ phase' = "send" /\ ready' = ready \ Batch /\ archived' = archived \cup Batch
        /\ due' = due /\ due = {}
        /\ \A d \in Call : rec'[d] = IF d \in Batch THEN Blank ELSE rec[d]
    BY <1>9 DEF SendAcked, Queue, Remember
  <2>2. ASSUME NEW d \in ready'
        PROVE  PushMode /\ Wanted(d)'
    <3>1. PushMode /\ d \in Call /\ Wanted(d) /\ d \notin archived' /\ rec'[d] = rec[d]
          /\ rec[d] \in Record
      BY <1>r, <2>1, <2>2 DEF Queue, Wanted, TypeInv, TypeOK
    <3> QED BY <3>1, KeptSame, WantedStays
  <2> QED BY <2>1, <2>2 DEF Queue
<1>10. CASE SendFails
  <2>1. /\ phase' = "send" /\ ready' = ready /\ archived' = archived /\ due' = {} /\ due = {}
        /\ \A d \in Call : rec'[d] = IF d \in Batch THEN Judged(d) ELSE rec[d]
    BY <1>10 DEF SendFails, Queue, Retained, pass
  <2>2. \A d \in ready : Kept(rec[d], rec'[d])
    BY <1>r, <2>1, KeptSame, KeptJudged DEF TypeInv, TypeOK
  <2> QED BY <1>3, <2>1, <2>2
<1>11. CASE SendStops
  <2>1. ready' = {} /\ due' = {}
    BY <1>11 DEF SendStops, Queue
  <2> QED BY <2>1, <1>1
<1> QED BY <1>4, <1>5, <1>6, <1>7, <1>8, <1>9, <1>10, <1>11
        DEF Next, Once, Flush, Ship, Gateway

(* Only a write, or an acknowledged push, adds to the ids. *)
LEMMA IdsMove ==
  ASSUME Next, ~SendAcked, ~\E c \in Call : AppendRecord(c)
  PROVE  archived' \subseteq archived
BY DEF Next, Once, Scan, Flush, Ship, Reclaim, Gateway, Clock,
   BeginHeld, BeginScan, SkipFile, StatFile, ReadFile, EndScan, Trim,
   KeepRunning, Discard, AppendFailure, Collect, EndFlush,
   SendFails, SendStops, Prune, Truncate, TruncateFails,
   Restat, Crash, Rotate, LogLine, Wait, BackoffExpires, memory

LEMMA HoldNext ==
  ASSUME TypeInv, TypeInv', Queue, Hold, Next
  PROVE  Hold'
<1>r. rec \in [Call -> Record]
  BY DEF TypeInv, TypeOK
<1>1. CASE SendFails
  <2>1. PICK c \in ready : TRUE
    BY <1>1 DEF SendFails
  <2>2. c \in Call /\ PushMode /\ Wanted(c) /\ archived' = archived /\ c \notin archived
    BY <1>1, <2>1 DEF SendFails, Queue, Wanted, TypeInv, TypeOK
  <2>3. Kept(rec[c], rec'[c])
    BY <1>r, <1>1, <2>2, KeptSame, KeptJudged DEF SendFails, Retained
  <2>4. Wanted(c)' /\ phase' = "send"
    BY <1>1, <2>2, <2>3, WantedStays DEF SendFails, pass
  <2> QED BY <2>2, <2>4 DEF Hold
<1>2. CASE SendAcked \/ Crash
  BY <1>2 DEF SendAcked, Crash, Hold
<1>3. CASE ~SendFails /\ ~SendAcked /\ ~Crash
  <2>1. pushFails' = pushFails
    BY <1>3 DEF Next, Once, Scan, Flush, Ship, Reclaim, Gateway, Clock,
       BeginHeld, BeginScan, SkipFile, StatFile, ReadFile, EndScan,
       KeepRunning, Discard, AppendRecord, AppendFailure, Collect, EndFlush,
       SendStops, Prune, Truncate, TruncateFails,
       Restat, Rotate, LogLine, Wait, BackoffExpires, memory
  <2> SUFFICES ASSUME pushFails
               PROVE  PushMode /\ phase' \notin {"scan", "read"} /\ \E c \in Call : Wanted(c)'
    BY <2>1 DEF Hold
  <2>2. PushMode /\ phase \notin {"scan", "read"}
    BY DEF Hold
  <2>3. PICK c \in Call : Wanted(c)
    BY DEF Hold
  <2>4. phase' \notin {"scan", "read"}
    BY <1>3, <2>2 DEF Holding, Next, Once, Scan, Flush, Ship, Reclaim, Gateway, Clock,
       BeginHeld, BeginScan, SkipFile, StatFile, ReadFile, EndScan, AfterFlush,
       KeepRunning, Discard, AppendRecord, AppendFailure, Collect, EndFlush,
       SendStops, Prune, Truncate, TruncateFails, Visit,
       Restat, Rotate, LogLine, Wait, BackoffExpires, pass
  <2>5. ~ReadFile /\ ~\E d \in Call : AppendRecord(d)
    BY <2>2 DEF ReadFile, AppendRecord
  <2>6. c \notin archived'
    BY <1>3, <2>3, <2>5, IdsMove DEF Wanted
  <2>7. ~Leaves(c)
    BY <1>3, <2>3, <2>5 DEF Leaves, Discard, Unwanted, Wanted
  <2>8. Kept(rec[c], rec'[c])
    BY <2>5, <2>7, RecMoves
  <2>9. Wanted(c)'
    BY <2>3, <2>6, <2>8, WantedStays
  <2> QED BY <2>2, <2>4, <2>9
<1> QED BY <1>1, <1>2, <1>3

-----------------------------------------------------------------------------
(* How many versions. *)


(* An id written stays written until the process is killed. *)
LEMMA IdsStay ==
  ASSUME IdsFit, TypeInv, Next, ~Crash
  PROVE  archived \subseteq archived' /\ crashes' = crashes
<1>1. Trim(archived) = archived
  <2>1. archived \subseteq Call
    BY DEF TypeInv, TypeOK
  <2>2. Cardinality(archived) <= Cardinality(Call)
    BY <2>1, CallAssumption, FS_Subset
  <2>3. Cardinality(Call) \in Nat /\ Cardinality(archived) \in Nat
    BY <2>1, CallAssumption, FS_Subset, FS_CardinalityType
  <2>4. ~(Cardinality(archived) > ArchivedCap)
    BY <2>2, <2>3 DEF IdsFit
  <2> QED BY <2>4 DEF Trim
<1>2. archived \subseteq archived'
  BY <1>1 DEF Next, Once, Scan, Flush, Ship, Reclaim, Gateway, Clock,
     BeginHeld, BeginScan, SkipFile, StatFile, ReadFile, EndScan, Remember,
     KeepRunning, Discard, AppendRecord, AppendFailure, Collect, EndFlush,
     SendAcked, SendFails, SendStops, Prune, Truncate, TruncateFails,
     Restat, Rotate, LogLine, Wait, BackoffExpires, memory
<1>3. crashes' = crashes
  BY DEF Next, Once, Scan, Flush, Ship, Reclaim, Gateway, Clock,
     BeginHeld, BeginScan, SkipFile, StatFile, ReadFile, EndScan,
     KeepRunning, Discard, AppendRecord, AppendFailure, Collect, EndFlush,
     SendAcked, SendFails, SendStops, Prune, Truncate, TruncateFails,
     Restat, Rotate, LogLine, Wait, BackoffExpires, history, fate
<1> QED BY <1>2, <1>3


(* A failed append is counted when it may have left an entry behind. *)
LEMMA LateMoves ==
  ASSUME TypeInv, Next, NEW c \in Call
  PROVE  \/ late'[c] = late[c]
         \/ AppendFailure(c) /\ late'[c] = late[c] + 1
<1>0. late \in [Call -> 0..MaxLate]
  BY DEF TypeInv, TypeOK
<1>1. ASSUME NEW d \in Call, AppendFailure(d)
      PROVE  \/ late'[c] = late[c]
             \/ AppendFailure(c) /\ late'[c] = late[c] + 1
  <2>1. late' = late \/ late' = [late EXCEPT ![d] = @ + 1]
    BY <1>1 DEF AppendFailure
  <2> QED BY <1>0, <1>1, <2>1
<1>2. CASE ~\E d \in Call : AppendFailure(d)
  <2>1. late' = late
    BY <1>2 DEF Next, Once, Scan, Flush, Ship, Reclaim, Gateway, Clock,
     BeginHeld, BeginScan, SkipFile, StatFile, ReadFile, EndScan,
     KeepRunning, Discard, AppendRecord, Collect, EndFlush,
     SendAcked, SendFails, SendStops, Prune, Truncate, TruncateFails, Crash,
     Restat, Rotate, LogLine, Wait, BackoffExpires, history, fate
  <2> QED BY <2>1
<1> QED BY <1>1, <1>2

(* A version is dated as the record it was made from. *)
LEMMA DayOfRecord ==
  ASSUME NEW c \in Call, NEW r, NEW s, r.first = s.first
  PROVE  DayOf(c, r) = DayOf(c, s)
BY DEF DayOf

(* A record offered stays offered while its lines stay whole and its date   *)
(* stays.                                                                   *)
LEMMA WorthStays ==
  ASSUME NEW c \in Call, WorthArchiving(c, rec[c]), rec[c].lines \subseteq rec'[c].lines,
         Whole(rec[c]) \subseteq Whole(rec'[c])
  PROVE  WorthArchiving(c, rec'[c])
BY DEF WorthArchiving, Has, Whole

LEMMA OfferedStays ==
  ASSUME TypeInv, NEW c \in Call, Offered(c), archive'[c] = archive[c],
         rec[c].lines \subseteq rec'[c].lines, Whole(rec[c]) \subseteq Whole(rec'[c]),
         rec'[c].first = rec[c].first
  PROVE  Offered(c)'
<1>1. WorthArchiving(c, rec'[c])
  BY WorthStays DEF Offered
<1>2. DayOf(c, rec'[c]) = DayOf(c, rec[c])
  BY DayOfRecord
<1> QED BY <1>1, <1>2 DEF Offered, Listed

(* A read makes no whole line a cut one: the head it may take is of a line  *)
(* that was not yet read whole.                                             *)
LEMMA ReadKeepsWhole ==
  ASSUME TypeInv, NEW f \in File, NEW r \in Read(f), rec' = Fold(f, r),
         \A k \in r.head : k = Len(spool[f]) /\ HalfWritten(f), NEW c \in Call
  PROVE  Whole(rec[c]) \subseteq Whole(rec'[c])
<1>0. rec \in [Call -> Record] /\ spool \in [File -> Seq(Line)]
  BY DEF TypeInv, TypeOK
<1>1. /\ rec'[c].lines = rec[c].lines \cup Fresh(f, r, c)
      /\ rec'[c].cut = (rec[c].cut \ Fresh(f, r, c)) \cup Heads(f, r, c)
  BY <1>0, FoldType
<1>2. ASSUME NEW n \in Whole(rec[c]), n \in Heads(f, r, c)
      PROVE  FALSE
  <2>1. PICK k \in Mine(f, r, c) \cap r.head : n = spool[f][k][2]
    BY <1>2 DEF Heads
  <2>2. k = Len(spool[f]) /\ HalfWritten(f) /\ spool[f][k][1] = c
    BY <2>1 DEF Mine
  <2> QED BY <1>2, <2>1, <2>2 DEF HalfWritten, IsHeld, Whole
<1> QED BY <1>1, <1>2 DEF Whole

LEMMA ReadFileKeepsWhole ==
  ASSUME FileInv, ReadFile, NEW c \in Call
  PROVE  /\ rec[c].lines \subseteq rec'[c].lines
         /\ Whole(rec[c]) \subseteq Whole(rec'[c])
         /\ rec[c].lines # {} => rec'[c].first = rec[c].first
<1>1. cur \in File /\ TypeInv
  BY ReadFileDoes DEF FileInv
<1>2. PICK r \in Read(cur) :
        /\ rec' = Fold(cur, r)
        /\ \A k \in r.head : k = Len(spool[cur]) /\ HalfWritten(cur)
  BY ReadFileDoes
<1>3. rec[c].lines \subseteq rec'[c].lines /\ (rec[c].lines # {} => rec'[c].first = rec[c].first)
  BY <1>1, <1>2, FoldOf
<1>4. Whole(rec[c]) \subseteq Whole(rec'[c])
  BY <1>1, <1>2, ReadKeepsWhole
<1> QED BY <1>3, <1>4

LEMMA OnceEachNext ==
  ASSUME IdsFit, FileInv, Queue, OnceEach, Next
  PROVE  OnceEach'
<1> SUFFICES ASSUME NEW c \in Call
             PROVE  /\ Len(archive'[c]) <= 1 + crashes' + late'[c]
                    /\ Len(archive'[c]) = 1 + crashes' + late'[c] =>
                         c \in archived' \/ Offered(c)'
  BY DEF OnceEach
<1>0. /\ TypeInv /\ rec \in [Call -> Record] /\ rec[c] \in Record
      /\ archive[c] \in Seq(Version) /\ Len(archive[c]) \in Nat
      /\ crashes \in Nat /\ late[c] \in Nat
  BY BoundAssumption DEF FileInv, TypeInv, TypeOK
<1>i. /\ Len(archive[c]) <= 1 + crashes + late[c]
      /\ Len(archive[c]) = 1 + crashes + late[c] => c \in archived \/ Offered(c)
  BY DEF OnceEach
<1>e. archive'[c] # archive[c] =>
        /\ Enters(c) /\ archive'[c] = Append(archive[c], Entry(c))
        /\ Len(archive'[c]) = Len(archive[c]) + 1
        /\ Len(archive[c]) + 1 \in DOMAIN archive'[c]
        /\ archive'[c][Len(archive[c]) + 1] = Entry(c)
  <2>1. Entry(c) \in Version
    BY <1>0, EntryCopies
  <2> QED BY <1>0, <2>1, StoreChanges
<1>1. CASE Crash
  <2>1. archive' = archive /\ crashes' = crashes + 1 /\ late' = late
    BY <1>1 DEF Crash, store, fate
  <2> QED BY <1>0, <1>i, <2>1
<1>2. CASE AppendFailure(c) /\ late'[c] = late[c] + 1
  <2>1. ~PushMode /\ c \notin archived /\ ~Crash
    BY <1>2 DEF AppendFailure, Unwanted, Visit, Crash
  <2>2. Len(archive[c]) <= crashes + late[c] /\ crashes' = crashes
    BY <1>0, <1>i, <2>1, IdsStay DEF Offered
  <2>3. Len(archive'[c]) <= Len(archive[c]) + 1 /\ Len(archive'[c]) \in Nat
    BY <1>0, <1>e
  <2> QED BY <1>0, <1>2, <2>2, <2>3
<1>3. CASE archive'[c] # archive[c] /\ late'[c] # late[c] + 1
  <2>1. late'[c] = late[c]
    BY <1>0, <1>3, LateMoves
  <2>2. AppendRecord(c) \/ ((SendAcked \/ SendFails) /\ c \in Batch /\ ~Listed(c))
    BY <1>e, <1>3 DEF Enters
  <2>3. ~Crash /\ late'[c] = late[c]
    BY <2>1, <2>2 DEF AppendRecord, SendAcked, SendFails, Visit, Crash
  <2>4. c \notin archived /\ ~Offered(c)
    BY <2>2 DEF AppendRecord, Unwanted, Offered, Batch, Queue, Wanted
  <2>5. Len(archive[c]) <= crashes + late[c] /\ crashes' = crashes
    BY <1>0, <1>i, <2>3, <2>4, IdsStay
  <2>6. c \in archived' \/ Offered(c)'
    <3>1. CASE AppendRecord(c) \/ SendAcked
      BY <2>2, <3>1 DEF AppendRecord, SendAcked, SendFails, Visit, Remember
    <3>2. CASE SendFails /\ c \in Batch
      <4>1. rec'[c] = Judged(c) /\ PushMode /\ WorthArchiving(c, rec[c])
        BY <3>2 DEF SendFails, Retained, Batch, Queue, Wanted
      <4>2. Kept(rec[c], rec'[c])
        BY <1>0, <4>1, KeptJudged
      <4>3. /\ rec'[c].lines = rec[c].lines /\ rec'[c].first = rec[c].first
            /\ Whole(rec'[c]) = Whole(rec[c])
        BY <4>2 DEF Kept, Whole
      <4>4. WorthArchiving(c, rec'[c])
        BY <4>1, <4>3, WorthStays
      <4>5. DayOf(c, rec'[c]) = DayOf(c, Entry(c))
        <5>1. Entry(c).first = rec[c].first
          BY <1>0, EntryCopies DEF Copied
        <5> QED BY <4>3, <5>1, DayOfRecord
      <4> QED BY <1>3, <1>e, <4>1, <4>4, <4>5 DEF Offered, Listed
    <3> QED BY <2>2, <3>1, <3>2
  <2> QED BY <1>0, <1>3, <1>e, <2>3, <2>5, <2>6
<1>4. CASE ~Crash /\ archive'[c] = archive[c] /\ late'[c] # late[c] + 1
  <2>1. archived \subseteq archived' /\ crashes' = crashes /\ late'[c] = late[c]
    BY <1>0, <1>4, IdsStay, LateMoves
  <2>2. ASSUME Offered(c), c \notin archived
        PROVE  c \in archived' \/ Offered(c)'
    <3>1. CASE ReadFile
      <4>1. rec[c].lines # {}
        BY <2>2, WantedHasLines DEF Offered
      <4> QED BY <1>0, <1>4, <2>2, <3>1, <4>1, ReadFileKeepsWhole, OfferedStays
    <3>2. CASE ~ReadFile /\ Kept(rec[c], rec'[c])
      BY <1>0, <1>4, <2>2, <3>2, OfferedStays DEF Kept, Whole
    <3>3. CASE Leaves(c)
      <4>1. ~Discard(c)
        BY <2>2 DEF Discard, Unwanted, Offered
      <4>2. AppendRecord(c) => c \in archived'
        BY DEF AppendRecord, Remember
      <4>3. SendAcked /\ c \in Batch => c \in archived'
        BY DEF SendAcked, Remember
      <4> QED BY <1>4, <3>3, <4>1, <4>2, <4>3 DEF Leaves
    <3> QED BY <1>0, <3>1, <3>2, <3>3, RecMoves
  <2> QED BY <1>4, <1>i, <2>1, <2>2
<1> QED BY <1>0, <1>1, <1>2, <1>3, <1>4, LateMoves

-----------------------------------------------------------------------------
(* What is in a version. *)

(* The exceptions to completeness only grow. *)
LEMMA ExceptionsGrow ==
  ASSUME Next
  PROVE  /\ \A c, m : Excepted(c, m) => Excepted(c, m)'
         /\ ~Crash => gone' = gone
<1>1. windowed \subseteq windowed' /\ dismissed \subseteq dismissed' /\ skipped \subseteq skipped'
      /\ orphaned \subseteq orphaned'
  BY DEF Next, Once, Scan, Flush, Ship, Reclaim, Gateway, Clock,
     BeginHeld, BeginScan, SkipFile, StatFile, ReadFile, EndScan,
     KeepRunning, Discard, AppendRecord, AppendFailure, Collect, EndFlush,
     SendAcked, SendFails, SendStops, Prune, Truncate, TruncateFails,
     Restat, Crash, Rotate, LogLine, Wait, BackoffExpires, history, fate
<1>2. ~Crash => gone' = gone
  BY DEF Next, Once, Scan, Flush, Ship, Reclaim, Gateway, Clock,
     BeginHeld, BeginScan, SkipFile, StatFile, ReadFile, EndScan,
     KeepRunning, Discard, AppendRecord, AppendFailure, Collect, EndFlush,
     SendAcked, SendFails, SendStops, Prune, Truncate, TruncateFails,
     Restat, Rotate, LogLine, Wait, BackoffExpires, history
<1> QED BY <1>1, <1>2 DEF Excepted

(* A line read brings with it the earlier lines of its call: none is ahead  *)
(* in an older file, and those ahead in this one are read too.              *)
LEMMA ReadFileFills ==
  ASSUME FileInv, TimeInv, SpoolOrder, VisitOrder, LineAccounted, NoGap, crashes = 0, ReadFile,
         NEW c \in Call \ archived, NEW n \in rec'[c].lines, NEW m \in 1..(n - 1)
  PROVE  m \in Whole(rec'[c]) \/ Excepted(c, m)
<1>0. /\ TypeInv /\ spool \in [File -> Seq(Line)] /\ rec \in [Call -> Record]
      /\ offsets \in [File -> Nat] /\ written \in [Call -> Nat] /\ present \subseteq File
  BY DEF FileInv, TypeInv, TypeOK
<1>l. \A f \in File : f \in Nat /\ \A k \in DOMAIN spool[f] :
        k \in Nat /\ spool[f][k] \in Line /\ spool[f][k][2] \in Nat
  BY <1>0 DEF Line, File
<1>1. cur \in File /\ phase = "read" /\ offsets[cur] \in Nat
  BY ReadFileDoes
<1>2. PICK r \in Read(cur) :
        /\ rec' = Fold(cur, r)
        /\ \A k \in Covered(r), j \in DOMAIN spool[cur] :
             offsets[cur] < j /\ j < k => j \in r.whole
        /\ \A k \in r.head : k = Len(spool[cur])
  BY ReadFileDoes
<1>3. /\ rec'[c].lines = rec[c].lines \cup Fresh(cur, r, c)
      /\ rec'[c].cut = (rec[c].cut \ Fresh(cur, r, c)) \cup Heads(cur, r, c)
  BY <1>0, <1>1, <1>2, FoldType
<1>w. Whole(rec[c]) \subseteq Whole(rec'[c])
  BY ReadFileKeepsWhole
<1>4. CASE n \in rec[c].lines
  BY <1>4, <1>w DEF NoGap
<1>5. ASSUME NEW k \in Covered(r), spool[cur][k] = <<c, n>>
      PROVE  m \in Whole(rec'[c]) \/ Excepted(c, m)
  <2>c. k \in DOMAIN spool[cur]
    BY DEF Covered, Read
  <2>1. /\ k \in Nat /\ n \in Nat /\ m \in Nat /\ m < n /\ m >= 1
        /\ n <= written[c] /\ spool[cur][k][1] = c /\ spool[cur][k][2] = n
        /\ written[c] \in Nat
    <3>1. k \in Nat /\ spool[cur][k][1] = c /\ spool[cur][k][2] = n /\ n \in Nat
      BY <1>1, <1>5, <1>l, <2>c
    <3>2. n <= written[c] /\ written[c] \in Nat
      BY <1>0, <1>1, <2>c, <3>1 DEF SpoolOrder
    <3> QED BY <3>1, <3>2
  <2>2. Accounted(<<c, m>>)
    <3>1. m \in 1..written[c]
      BY <2>1
    <3> QED BY <3>1 DEF LineAccounted
  <2>3. CASE IsUnread(<<c, m>>)
    <3>1. PICK f \in present : \E j \in DOMAIN spool[f] : j > offsets[f] /\ spool[f][j] = <<c, m>>
      BY <2>3 DEF IsUnread
    <3>p. PICK j \in DOMAIN spool[f] : j > offsets[f] /\ spool[f][j] = <<c, m>>
      BY <3>1
    <3>2. /\ f \in File /\ f \in Nat /\ cur \in Nat /\ j \in Nat
          /\ spool[f][j][1] = c /\ spool[f][j][2] = m
      BY <1>0, <1>1, <1>l, <3>1, <3>p
    <3>3. ~(f < cur)
      BY <1>1, <3>p, <3>2, OlderRead
    <3>4. ~Ahead(cur, k, f, j)
      <4>1. Ahead(cur, k, f, j) => n < m
        BY <1>1, <2>1, <2>c, <3>p, <3>2 DEF SpoolOrder
      <4> QED BY <2>1, <4>1
    <3>5. f = cur /\ j < k
      <4>1. j # k
        BY <2>1, <3>2, <3>3, <3>4 DEF Ahead
      <4> QED BY <2>1, <3>2, <3>3, <3>4, <4>1 DEF Ahead
    <3>6. j \in r.whole /\ j \in Mine(cur, r, c)
      BY <1>1, <1>2, <3>p, <3>2, <3>5 DEF Mine
    <3>7. m \in Fresh(cur, r, c)
      BY <3>2, <3>5, <3>6 DEF Fresh
    <3>8. m \notin Heads(cur, r, c)
      <4>1. ASSUME NEW i \in Mine(cur, r, c) \cap r.head, m = spool[cur][i][2]
            PROVE  FALSE
        <5>1. i = Len(spool[cur]) /\ i \in DOMAIN spool[cur] /\ spool[cur][i][1] = c
          BY <1>2, <4>1 DEF Mine, Read
        <5>2. j < i
          <6>1. k <= Len(spool[cur]) /\ Len(spool[cur]) \in Nat
            BY <1>0, <1>1, <2>c
          <6> QED BY <2>1, <3>2, <3>5, <5>1, <6>1
        <5>3. m < m
          BY <1>1, <3>p, <3>2, <3>5, <4>1, <5>1, <5>2 DEF SpoolOrder, Ahead
        <5> QED BY <2>1, <5>3
      <4> QED BY <4>1 DEF Heads
    <3> QED BY <1>3, <3>7, <3>8 DEF Whole
  <2>4. CASE IsHeld(<<c, m>>)
    BY <1>w, <2>4 DEF IsHeld, Whole
  <2>5. CASE IsStored(<<c, m>>) \/ IsSwallowed(<<c, m>>)
    <3>1. m \in Whole(rec[c])
      BY <2>5 DEF IsStored, IsSwallowed, NoGap
    <3> QED BY <1>w, <3>1
  <2>6. CASE <<c, m>> \in windowed \cup dismissed \cup skipped \cup orphaned
    BY <2>6 DEF Excepted
  <2>7. <<c, m>> \notin gone
    BY DEF NoGap
  <2> QED BY <2>2, <2>3, <2>4, <2>5, <2>6, <2>7 DEF Accounted
<1>6. n \in rec[c].lines \/ \E k \in Covered(r) : spool[cur][k] = <<c, n>>
  <2>1. TypeInv
    BY <1>0
  <2>2. rec' = Fold(cur, r)
    BY <1>2
  <2> QED BY <1>1, <2>1, <2>2, ReadLines
<1> QED BY <1>4, <1>5, <1>6

LEMMA NoGapNext ==
  ASSUME IdsFit, FileInv, TimeInv, SpoolOrder, VisitOrder, Queue, LineAccounted, NoGap, Next
  PROVE  NoGap'
<1>0. /\ TypeInv /\ rec \in [Call -> Record] /\ archive \in [Call -> Seq(Version)]
      /\ crashes \in Nat
  BY DEF FileInv, TypeInv, TypeOK
<1>c. Crash => crashes' = crashes + 1
  BY DEF Crash
<1> DEFINE Fits(v, r, c) == WorthArchiving(c, r) /\ v.lines \subseteq Whole(r)
<1> SUFFICES ASSUME crashes' = 0
             PROVE  /\ gone' = {}
                    /\ \A c \in Call \ archived' :
                         /\ \A i \in DOMAIN archive'[c] : Fits(archive'[c][i], rec'[c], c)
                         /\ \A v \in swallowed'[c] : Fits(v, rec'[c], c)
                         /\ \A n \in rec'[c].lines : \A m \in 1..(n - 1) :
                              m \in Whole(rec'[c]) \/ Excepted(c, m)'
  BY DEF NoGap
<1>1. ~Crash /\ crashes = 0
  BY <1>0, <1>c, IdsStay
<1>2. gone' = {} /\ archived \subseteq archived'
  BY <1>0, <1>1, ExceptionsGrow, IdsStay DEF NoGap
<1> SUFFICES ASSUME NEW c \in Call \ archived'
             PROVE  /\ \A i \in DOMAIN archive'[c] : Fits(archive'[c][i], rec'[c], c)
                    /\ \A v \in swallowed'[c] : Fits(v, rec'[c], c)
                    /\ \A n \in rec'[c].lines : \A m \in 1..(n - 1) :
                         m \in Whole(rec'[c]) \/ Excepted(c, m)'
  BY <1>2
<1>3. /\ c \in Call /\ c \notin archived
      /\ \A i \in DOMAIN archive[c] : Fits(archive[c][i], rec[c], c)
      /\ \A v \in swallowed[c] : Fits(v, rec[c], c)
      /\ \A n \in rec[c].lines : \A m \in 1..(n - 1) : m \in Whole(rec[c]) \/ Excepted(c, m)
      /\ archive[c] \in Seq(Version) /\ rec[c] \in Record
  BY <1>0, <1>1, <1>2 DEF NoGap
<1>f. Enters(c) => \A v : Copied(rec[c], v) => Fits(v, rec[c], c)
  BY <1>0, EntersWanted DEF Copied
<1>s. /\ \A i \in DOMAIN archive'[c] : Fits(archive'[c][i], rec[c], c)
      /\ \A v \in swallowed'[c] : Fits(v, rec[c], c)
  <2> HIDE DEF Fits
  <2>1. \A i \in DOMAIN archive'[c] : Fits(archive'[c][i], rec[c], c)
    BY <1>0, <1>3, <1>f, NewVersion
  <2>2. \A v \in swallowed'[c] : Fits(v, rec[c], c)
    BY <1>0, <1>3, <1>f, StoreChanges, EntryCopies
  <2> QED BY <2>1, <2>2
<1>g. ASSUME rec[c].lines \subseteq rec'[c].lines, Whole(rec[c]) \subseteq Whole(rec'[c])
      PROVE  /\ \A i \in DOMAIN archive'[c] : Fits(archive'[c][i], rec'[c], c)
             /\ \A v \in swallowed'[c] : Fits(v, rec'[c], c)
  <2>1. WorthArchiving(c, rec[c]) => WorthArchiving(c, rec'[c])
    BY <1>3, <1>g, WorthStays
  <2> QED BY <1>g, <1>s, <2>1
<1>4. CASE ReadFile
  <2>1. rec[c].lines \subseteq rec'[c].lines /\ Whole(rec[c]) \subseteq Whole(rec'[c])
    BY <1>3, <1>4, ReadFileKeepsWhole
  <2>2. \A n \in rec'[c].lines : \A m \in 1..(n - 1) :
          m \in Whole(rec'[c]) \/ Excepted(c, m)
    BY <1>1, <1>3, <1>4, ReadFileFills
  <2> QED BY <1>g, <2>1, <2>2, ExceptionsGrow
<1>5. CASE ~ReadFile /\ Kept(rec[c], rec'[c])
  <2>1. rec'[c].lines = rec[c].lines /\ Whole(rec'[c]) = Whole(rec[c])
    BY <1>5 DEF Kept, Whole
  <2> QED BY <1>3, <1>g, <2>1, ExceptionsGrow
<1>6. CASE rec'[c] = Blank /\ Leaves(c)
  <2>1. Discard(c)
    <3>1. ~AppendRecord(c) /\ ~(SendAcked /\ c \in Batch)
      BY DEF AppendRecord, SendAcked, Remember
    <3> QED BY <1>1, <1>6, <3>1 DEF Leaves
  <2>2. ~WorthArchiving(c, rec[c])
    BY <1>3, <2>1 DEF Discard, Unwanted
  <2>3. DOMAIN archive'[c] = {} /\ swallowed'[c] = {}
    BY <1>s, <2>2
  <2> QED BY <1>6, <2>3, BlankType
<1> QED BY <1>0, <1>3, <1>4, <1>5, <1>6, RecMoves

LEMMA CompleteNext ==
  ASSUME IdsFit, FileInv, Queue, NoGap, CompleteOnGin, Next
  PROVE  CompleteOnGin'
<1>0. /\ TypeInv /\ archive \in [Call -> Seq(Version)] /\ crashes \in Nat
  BY DEF FileInv, TypeInv, TypeOK
<1>c. Crash => crashes' = crashes + 1
  BY DEF Crash
<1> SUFFICES ASSUME crashes' = 0, NEW c \in Call, NEW i \in DOMAIN archive'[c],
                    NEW n \in archive'[c][i].lines,
                    Script[c][n] \in {"gin", "ginFail"}, NEW m \in 1..n
             PROVE  m \in archive'[c][i].lines \/ Excepted(c, m)'
  BY DEF CompleteOnGin, Excepted
<1>1. ~Crash /\ crashes = 0
  BY <1>0, <1>c, IdsStay
<1>2. CASE i \in DOMAIN archive[c] /\ archive'[c][i] = archive[c][i]
  BY <1>1, <1>2, ExceptionsGrow DEF CompleteOnGin, Excepted
<1>3. CASE Enters(c) /\ Copied(rec[c], archive'[c][i])
  <2>1. c \notin archived
    BY <1>0, <1>3, EntersWanted
  <2>2. archive'[c][i].lines = Whole(rec[c]) /\ n \in rec[c].lines
    BY <1>3 DEF Copied, Whole
  <2>3. m = n \/ m \in 1..(n - 1)
    <3>1. n \in Nat
      <4>1. rec[c] \in Record
        BY <1>0 DEF TypeInv, TypeOK
      <4> QED BY <2>2, <4>1 DEF Record
    <3> QED BY <3>1
  <2>4. m = n \/ m \in Whole(rec[c]) \/ Excepted(c, m)
    BY <1>1, <2>1, <2>2, <2>3 DEF NoGap
  <2> QED BY <2>2, <2>4, ExceptionsGrow
<1> QED BY <1>0, <1>2, <1>3, NewVersion

-----------------------------------------------------------------------------
(* The theorems. *)

VersionInv ==
  /\ FileInv /\ TimeInv
  /\ SpoolOrder /\ VisitOrder /\ HeldRaced /\ Dated
  /\ Queue /\ Hold

LEMMA InitVersionInv == Init => VersionInv
<1> SUFFICES ASSUME Init
             PROVE  SpoolOrder /\ VisitOrder /\ HeldRaced /\ Dated /\ Queue /\ Hold
  BY InitFileInv, InitTimeInv DEF VersionInv
<1>1. /\ \A f \in File : spool[f] = <<>> /\ DOMAIN spool[f] = {} /\ offsets[f] = 0
      /\ \A c \in Call : rec[c].lines = {}
      /\ phase = "idle" /\ due = {} /\ ready = {} /\ pushFails = FALSE
  BY BlankType DEF Init
<1> QED BY <1>1 DEF SpoolOrder, VisitOrder, HeldRaced, Dated, Queue, Hold

LEMMA StepVersionInv == VersionInv /\ [Next]_vars => VersionInv'
<1> SUFFICES ASSUME VersionInv, [Next]_vars
             PROVE  VersionInv'
  OBVIOUS
<1>1. FileInv /\ FileInv' /\ TypeInv /\ TypeInv' /\ TimeInv'
  BY StepFileInv, StepTimeInv DEF VersionInv, FileInv
<1>2. CASE Next
  BY <1>1, <1>2, SpoolOrderNext, VisitOrderNext, HeldRacedNext, DatedNext, QueueNext, HoldNext
  DEF VersionInv
<1>3. CASE UNCHANGED vars
  <2> USE <1>3 DEF vars, gateway, memory, store, listing, pass, fate, history, VersionInv
  <2>1. SpoolOrder'
    BY DEF SpoolOrder
  <2>2. VisitOrder'
    BY DEF VisitOrder, Consumed
  <2>3. HeldRaced' /\ Dated'
    BY DEF HeldRaced, Dated
  <2>4. \A c \in Call : Wanted(c)' <=> Wanted(c)
    BY DEF Wanted, Expired, Completed, Settled
  <2>5. Queue'
    <3>1. ready \subseteq Call
      BY <1>1 DEF TypeInv, TypeOK
    <3> QED BY <2>4, <3>1 DEF Queue
  <2>6. Hold'
    BY <2>4 DEF Hold
  <2> QED BY <1>1, <2>1, <2>2, <2>3, <2>5, <2>6
<1> QED BY <1>2, <1>3

(* A line is folded twice into a record only if New API wrote it between    *)
(* the stat of its file and the read that follows (readNew reads to the end *)
(* of the file and stores the size it had before).                          *)
THEOREM TwiceOnlyRaced == Spec => []RefoldOnlyRaced
<1>1. Init => RefoldOnlyRaced
  BY DEF Init, RefoldOnlyRaced, Blank
<1>2. VersionInv /\ RefoldOnlyRaced /\ [Next]_vars => RefoldOnlyRaced'
  <2>1. VersionInv /\ RefoldOnlyRaced /\ Next => RefoldOnlyRaced'
    BY RefoldNext DEF VersionInv
  <2>2. RefoldOnlyRaced /\ UNCHANGED vars => RefoldOnlyRaced'
    BY DEF RefoldOnlyRaced, vars, memory, store, history
  <2> QED BY <2>1, <2>2
<1> QED BY <1>1, <1>2, InitVersionInv, StepVersionInv, PTL DEF Spec

(* The line that dates a record, and so picks the day file it is archived   *)
(* in, is the earliest of those it was folded from: finalize takes TS from  *)
(* the first line read, and lines are read in the order they were logged.   *)
THEOREM HeadDates == Spec => []DatedByHead
<1>1. Init => DatedByHead
  BY DEF Init, DatedByHead, Blank
<1>2. VersionInv /\ VersionInv' /\ DatedByHead /\ [Next]_vars => DatedByHead'
  <2>1. VersionInv /\ VersionInv' /\ DatedByHead /\ Next => DatedByHead'
    BY HeadsNext DEF VersionInv
  <2>2. DatedByHead /\ UNCHANGED vars => DatedByHead'
    BY DEF DatedByHead, vars, memory, store
  <2> QED BY <2>1, <2>2
<1> QED BY <1>1, <1>2, InitVersionInv, StepVersionInv, PTL DEF Spec

(* A pod that holds its spool because a push failed still has a record to   *)
(* push, so once() reads the spool again when that push is acknowledged.    *)
THEOREM HoldNeverEmpty == Spec => []HoldHasWork
<1>1. VersionInv => HoldHasWork
  <2> SUFFICES ASSUME VersionInv, pushFails
               PROVE  \E c \in Pending : Expired(c) /\ ~Unwanted(c)
    BY DEF HoldHasWork
  <2>1. PICK c \in Call : Wanted(c)
    BY DEF VersionInv, Hold
  <2> QED BY <2>1, WantedHasLines DEF Wanted, Unwanted, Pending
<1> QED BY <1>1, InitVersionInv, StepVersionInv, PTL DEF Spec

(* A call is written once between two restarts, but for the appends that    *)
(* fail after their entry: by flushFinished, which remembers its id, or by  *)
(* the receiver of its pushes, which drops those sent again.                *)
LEMMA OnceEachStep == IdsFit /\ VersionInv /\ OnceEach /\ [Next]_vars => OnceEach'
<1>1. IdsFit /\ VersionInv /\ OnceEach /\ Next => OnceEach'
  BY OnceEachNext DEF VersionInv
<1>2. OnceEach /\ UNCHANGED vars => OnceEach'
  BY DEF OnceEach, Offered, Listed, vars, memory, store, history, fate, DayOf
<1> QED BY <1>1, <1>2

LEMMA OnceEachInit == Init => OnceEach
BY DEF Init, OnceEach

(* Within one run of the process a call is stored at most once, and once    *)
(* more for each append that failed after its entry was written, whatever   *)
(* else fails, is retried, comes late or is read twice; each restart may    *)
(* add one version.  It holds as long as the ids written fit under          *)
(* archivedCap.                                                             *)
THEOREM OncePerLife ==
  ASSUME IdsFit
  PROVE  Spec => []OneVersionPerLife
<1>1. VersionInv /\ OnceEach /\ [Next]_vars => OnceEach'
  BY OnceEachStep
<1>2. OnceEach => OneVersionPerLife
  BY DEF OnceEach, OneVersionPerLife
<1> QED BY <1>1, <1>2, OnceEachInit, InitVersionInv, StepVersionInv, PTL DEF Spec

(* A version closed by its GIN line has every earlier line of the call, but *)
(* for those a reclaim, a discarded record, an unfinished read or an        *)
(* unlinked file took, as long as the process is not restarted and the ids  *)
(* written fit under archivedCap: no read passes over a line of an older    *)
(* file, and a record leaves memory as a whole.                             *)
THEOREM GinCompletes ==
  ASSUME IdsFit
  PROVE  Spec => []CompleteOnGin
<1>1. Init => NoGap /\ CompleteOnGin
  BY BlankType DEF Init, NoGap, CompleteOnGin
<1>2. /\ VersionInv /\ OnceEach /\ LineAccounted /\ NoGap /\ CompleteOnGin
      /\ [Next]_vars
      => NoGap' /\ CompleteOnGin'
  <2>1. /\ VersionInv /\ OnceEach /\ LineAccounted /\ NoGap /\ CompleteOnGin /\ Next
        => NoGap' /\ CompleteOnGin'
    BY NoGapNext, CompleteNext DEF VersionInv
  <2>2. NoGap /\ UNCHANGED vars => NoGap'
    BY DEF NoGap, Excepted, vars, memory, store, history, fate
  <2>3. CompleteOnGin /\ UNCHANGED vars => CompleteOnGin'
    BY DEF CompleteOnGin, vars, store, history, fate
  <2> QED BY <2>1, <2>2, <2>3
<1>3. VersionInv /\ OnceEach /\ [Next]_vars => OnceEach'
  BY OnceEachStep
<1> QED BY <1>1, <1>2, <1>3, OnceEachInit, InitVersionInv, StepVersionInv, NoSilentLoss, PTL
        DEF Spec

=============================================================================
