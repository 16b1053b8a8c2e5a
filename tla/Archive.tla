------------------------------ MODULE Archive ------------------------------
(***************************************************************************)
(* The permanent store (archive.go, blob.go).  A day is four append-only   *)
(* files: the records, an index of them, a pool of the request parts they  *)
(* share, and an index of that.  Appending a record is a sequence of       *)
(* writes and syncs, any of which may fail or be the last before the       *)
(* process is killed or the power is cut; a process keeps the offsets it   *)
(* writes at, the pool's dedup map and the ids of the open day in memory.  *)
(*                                                                         *)
(* A member of a file takes two cells, so that a short write can leave the *)
(* first; sizes and offsets count cells.  A record lifts at most one value *)
(* into the pool.  Bounds: MaxTries calls of Append, MaxCrash crashes.     *)
(***************************************************************************)
EXTENDS Integers, Sequences, FiniteSets

CONSTANTS
  Writer,    \* processes appending to the archive; the viewer is the only one
  Record,    \* versions of calls
  Day,
  Rid,
  Content,   \* values of requests worth lifting
  None,
  DayOf,     \* the day of a record's timestamp
  RidOf,     \* its request id
  BlobOf,    \* the value it lifts, or None
  How,       \* "append": Append, "new": AppendNew
  Faults,    \* the calls that may fail
  MaxTries,
  MaxCrash

ASSUME RecordAssumption ==
  /\ DayOf \in [Record -> Day] /\ RidOf \in [Record -> Rid]
  /\ BlobOf \in [Record -> Content \cup {None}]
  /\ None \notin Record \cup Content \cup Day
ASSUME FaultAssumption ==
  /\ How \subseteq {"append", "new"}
  /\ Faults \subseteq {"open", "poolWrite", "poolSync", "poolIndex",
                       "dataWrite", "dataSync", "indexWrite", "indexSync", "kill",
                       "power", "tear"}
  /\ MaxTries \in Nat /\ MaxCrash \in Nat

VARIABLES
  data,      \* arc-DAY.jsonl.gz: the cells of the record members
  index,     \* arc-DAY.idx: its lines
  pool,      \* arc-DAY.blob.gz: the cells of the pool members
  poolIndex, \* arc-DAY.blob.idx: its lines
  synced,    \* how much of each of the four a power cut leaves
  open,      \* each process: the open day and what it keeps about it
  job,       \* each process: the Append under way
  tries,     \* calls of Append so far
  crashes,
  acked,     \* history: <<day, id>> an append stored and returned nil for
  spoiled,   \* history: days with a value in the pool written at a stale offset
  kept       \* history: those of acked whose entry is clean and not torn

files == <<data, index, pool, poolIndex, synced>>
history == <<acked, spoiled, kept>>
vars == <<files, open, job, tries, crashes, history>>

-----------------------------------------------------------------------------
(* A line file.  A line cut short has no newline, so the next one written   *)
(* becomes part of it, and neither can be parsed.                           *)
Lines(Entry) == [lines : Seq(Entry), torn : BOOLEAN]
NoLines == [lines |-> <<>>, torn |-> FALSE]

PutLine(file, e) ==
  IF file.torn THEN [file EXCEPT !.torn = FALSE]
  ELSE [file EXCEPT !.lines = Append(@, e)]

PutPart(file, garbage) ==
  IF file.torn THEN file
  ELSE [lines |-> Append(file.lines, garbage), torn |-> TRUE]

(* A member file: a member at an offset reads back if both cells are there. *)
Cells(m) == <<<<m, 1>>, <<m, 2>>>>
IsAt(file, off, m) ==
  /\ off + 2 <= Len(file)
  /\ file[off + 1] = <<m, 1>> /\ file[off + 2] = <<m, 2>>

(* `clean' is history: the offsets were right when the entry was written. *)
Entry == [rec : Record \cup {None}, off : Nat, how : {"append", "new"},
          clean : BOOLEAN]
Garbage == [rec |-> None, off |-> 0, how |-> "append", clean |-> FALSE]
Pointer == [content : Content \cup {None}, off : Nat]
PoolGarbage == [content |-> None, off |-> 0]

Member == [rec : Record, ptr : Nat]

(* index(): the lines that parse. *)
Entries(d) == {i \in DOMAIN index[d].lines : index[d].lines[i].rec # None}

(* loadBlobMap: the offset of each value, the last line naming it wins;     *)
(* -1 for a value the pool does not have.                                   *)
LoadBlobMap(d) ==
  [c \in Content |->
     LET at == {i \in DOMAIN poolIndex[d].lines :
                  poolIndex[d].lines[i].content = c}
     IN IF at = {} THEN -1
        ELSE LET last == CHOOSE i \in at : \A j \in at : j <= i
             IN poolIndex[d].lines[last].off]

(* ridsOf *)
RidsOf(d) == {RidOf[index[d].lines[i].rec] : i \in Entries(d)}

(* fetch(): the record at an index entry, its lifted value read back from   *)
(* the pool, if all of it can be read.                                      *)
Fetched(d, e) ==
  {r \in Record :
     \E p \in 0..Len(pool[d]) :
        /\ IsAt(data[d], e.off, [rec |-> r, ptr |-> p])
        /\ BlobOf[r] # None => IsAt(pool[d], p, BlobOf[r])}

-----------------------------------------------------------------------------
(* What a process keeps about its open day.  `behind' is history: the files *)
(* it wrote to without advancing its offset.                                *)
Closed == [behind |-> {}, day |-> None, off |-> 0, blobOff |-> 0,
           blobs |-> [c \in Content |-> -1], loaded |-> FALSE, rids |-> {}]
(* `sound' is history: the entry written is clean and can be parsed. *)
Idle == [pc |-> "idle", rec |-> None, how |-> "append", ptr |-> 0,
         sound |-> FALSE]
Nothing == [data |-> 0, index |-> 0, pool |-> 0, poolIndex |-> 0]

Init ==
  /\ data = [d \in Day |-> <<>>] /\ index = [d \in Day |-> NoLines]
  /\ pool = [d \in Day |-> <<>>] /\ poolIndex = [d \in Day |-> NoLines]
  /\ synced = [d \in Day |-> Nothing]
  /\ open = [w \in Writer |-> Closed] /\ job = [w \in Writer |-> Idle]
  /\ tries = 0 /\ crashes = 0
  /\ acked = {} /\ spoiled = {} /\ kept = {}

(* openDay: a day that is open already keeps its offsets; another one is    *)
(* opened at the size of its files.                                         *)
OpenDay(w, d) ==
  IF open[w].day = d THEN open[w]
  ELSE [Closed EXCEPT !.day = d, !.off = Len(data[d]),
                      !.blobOff = Len(pool[d]), !.blobs = LoadBlobMap(d)]

(* AppendNew reads the ids of the day on first use. *)
LoadRids(o) ==
  IF o.loaded THEN o ELSE [o EXCEPT !.loaded = TRUE, !.rids = RidsOf(o.day)]

Key(r) == <<DayOf[r], RidOf[r]>>

(* Where an append goes once its day is open: to the pool if it lifts a     *)
(* value the dedup map does not have, else straight to the record file.     *)
Started(r, how, o) ==
  LET c == BlobOf[r]
  IN IF c # None /\ o.blobs[c] = -1
     THEN [Idle EXCEPT !.pc = "blob", !.rec = r, !.how = how]
     ELSE [Idle EXCEPT !.pc = "member", !.rec = r, !.how = how,
                       !.ptr = IF c = None THEN 0 ELSE o.blobs[c]]

Begin(w, r, how) ==
  /\ job[w].pc = "idle" /\ tries < MaxTries
  /\ tries' = tries + 1
  /\ LET o == IF how = "new" THEN LoadRids(OpenDay(w, DayOf[r]))
              ELSE OpenDay(w, DayOf[r])
     IN /\ open' = [open EXCEPT ![w] = o]
        /\ IF how = "new" /\ RidOf[r] \in o.rids
           THEN job' = job
           ELSE job' = [job EXCEPT ![w] = Started(r, how, o)]
  /\ UNCHANGED <<files, crashes, history>>

(* openDay fails, with the previous day already closed, or the ids of the   *)
(* day cannot be read.                                                      *)
BeginFails(w, r, how) ==
  /\ "open" \in Faults
  /\ job[w].pc = "idle" /\ tries < MaxTries
  /\ tries' = tries + 1
  /\ \/ /\ open[w].day # DayOf[r]
        /\ open' = [open EXCEPT ![w] = Closed]
     \/ /\ how = "new" /\ ~OpenDay(w, DayOf[r]).loaded
        /\ open' = [open EXCEPT ![w] = OpenDay(w, DayOf[r])]
  /\ UNCHANGED <<files, job, crashes, history>>

D(w) == open[w].day
Return(w) == job' = [job EXCEPT ![w] = Idle]
Goto(w, pc) == job' = [job EXCEPT ![w].pc = pc]

AdvanceBy(off, file) == off + 2  \* variant: trust the length asked for

(* After a short write the offset is taken from the file again. *)
Resync(off, file) == Len(file)

-----------------------------------------------------------------------------
(* putBlobLocked *)

WriteBlob(w) ==
  /\ job[w].pc = "blob"
  /\ pool' = [pool EXCEPT ![D(w)] = @ \o Cells(BlobOf[job[w].rec])]
  /\ Goto(w, "blobSync")
  /\ UNCHANGED <<data, index, poolIndex, synced, open, tries, crashes, history>>

WriteBlobFails(w) ==
  /\ job[w].pc = "blob" /\ "poolWrite" \in Faults
  /\ \E n \in 0..1 :
       pool' = [pool EXCEPT ![D(w)] = @ \o SubSeq(Cells(BlobOf[job[w].rec]), 1, n)]
  /\ open' = [open EXCEPT ![w].blobOff = Resync(@, pool'[D(w)]),
                          ![w].behind = @ \ {"pool"}]
  /\ Return(w)
  /\ UNCHANGED <<data, index, poolIndex, synced, tries, crashes, history>>

(* The value is durable; that its index line is written does not matter. *)
SyncBlob(w) ==
  /\ job[w].pc = "blobSync"
  /\ LET d == D(w)
         c == BlobOf[job[w].rec]
         at == open[w].blobOff
     IN /\ open' = [open EXCEPT ![w].blobs[c] = at, ![w].blobOff = @ + 2]
        /\ job' = [job EXCEPT ![w].pc = "member", ![w].ptr = at]
        /\ \/ poolIndex' = [poolIndex EXCEPT ![d] = PutLine(@, [content |-> c, off |-> at])]
           \/ /\ "poolIndex" \in Faults
              /\ poolIndex' \in {poolIndex, [poolIndex EXCEPT ![d] = PutPart(@, PoolGarbage)]}
        /\ synced' = [synced EXCEPT ![d].pool = Len(pool[d]),
                                    ![d].poolIndex = Len(poolIndex'[d].lines)]
        /\ spoiled' = IF "pool" \in open[w].behind THEN spoiled \cup {d} ELSE spoiled
  /\ UNCHANGED <<data, index, pool, tries, crashes, acked, kept>>

SyncBlobFails(w) ==
  /\ job[w].pc = "blobSync" /\ "poolSync" \in Faults
  /\ open' = [open EXCEPT ![w].behind = @ \cup {"pool"}]
  /\ Return(w)
  /\ UNCHANGED <<files, tries, crashes, history>>

-----------------------------------------------------------------------------
(* appendLocked *)

WriteMember(w) ==
  /\ job[w].pc = "member"
  /\ data' = [data EXCEPT ![D(w)] =
       @ \o Cells([rec |-> job[w].rec, ptr |-> job[w].ptr])]
  /\ Goto(w, "memberSync")
  /\ UNCHANGED <<index, pool, poolIndex, synced, open, tries, crashes, history>>

WriteMemberFails(w) ==
  /\ job[w].pc = "member" /\ "dataWrite" \in Faults
  /\ \E n \in 0..1 :
       data' = [data EXCEPT ![D(w)] =
         @ \o SubSeq(Cells([rec |-> job[w].rec, ptr |-> job[w].ptr]), 1, n)]
  /\ open' = [open EXCEPT ![w].off = Resync(@, data'[D(w)]),
                          ![w].behind = @ \ {"data"}]
  /\ Return(w)
  /\ UNCHANGED <<index, pool, poolIndex, synced, tries, crashes, history>>

NotFlushed(d) == synced[d].data  \* variant: the record file is not synced

Flushed(d) == Len(data[d])

SyncMember(w) ==
  /\ job[w].pc = "memberSync"
  /\ synced' = [synced EXCEPT ![D(w)].data = Flushed(D(w))]
  /\ Goto(w, "entry")
  /\ UNCHANGED <<data, index, pool, poolIndex, open, tries, crashes, history>>

SyncMemberFails(w) ==
  /\ job[w].pc = "memberSync" /\ "dataSync" \in Faults
  /\ open' = [open EXCEPT ![w].behind = @ \cup {"data"}]
  /\ Return(w)
  /\ UNCHANGED <<files, tries, crashes, history>>

ForgetId(o, r) == o.rids  \* variant: the ids are not kept up to date

(* The id is remembered by both paths, once the set is in use. *)
RememberId(o, r) == IF o.loaded THEN o.rids \cup {RidOf[r]} ELSE o.rids

(* history: no file the entry depends on was left at a stale offset. *)
Clean(w) ==
  /\ "data" \notin open[w].behind
  /\ BlobOf[job[w].rec] # None => D(w) \notin spoiled

WriteEntry(w) ==
  /\ job[w].pc = "entry"
  /\ index' = [index EXCEPT ![D(w)] =
       PutLine(@, [rec |-> job[w].rec, off |-> open[w].off, how |-> job[w].how,
                   clean |-> Clean(w)])]
  /\ open' = [open EXCEPT ![w].off = @ + 2,
                          ![w].rids = RememberId(open[w], job[w].rec)]
  /\ job' = [job EXCEPT ![w].pc = "entrySync",
                        ![w].sound = Clean(w) /\ ~index[D(w)].torn]
  /\ UNCHANGED <<data, pool, poolIndex, synced, tries, crashes, history>>

(* The member stays behind and the offset is not advanced past it. *)
WriteEntryFails(w) ==
  /\ job[w].pc = "entry" /\ "indexWrite" \in Faults
  /\ index' \in {index, [index EXCEPT ![D(w)] = PutPart(@, Garbage)]}
  /\ open' = [open EXCEPT ![w].behind = @ \cup {"data"}]
  /\ Return(w)
  /\ UNCHANGED <<data, pool, poolIndex, synced, tries, crashes, history>>

NotListed(d) == synced[d].index  \* variant: the index is not synced

Listed(d) == Len(index[d].lines)

SyncEntry(w) ==
  /\ job[w].pc = "entrySync"
  /\ synced' = [synced EXCEPT ![D(w)].index = Listed(D(w))]
  /\ acked' = acked \cup {Key(job[w].rec)}
  /\ kept' = IF job[w].sound THEN kept \cup {Key(job[w].rec)} ELSE kept
  /\ Return(w)
  /\ UNCHANGED <<data, index, pool, poolIndex, open, tries, crashes, spoiled>>

(* Reported as failed, though the record can be read. *)
SyncEntryFails(w) ==
  /\ job[w].pc = "entrySync" /\ "indexSync" \in Faults
  /\ Return(w)
  /\ UNCHANGED <<files, open, tries, crashes, history>>

-----------------------------------------------------------------------------
(* The process dies; what it wrote is in the files. *)
Kill(w) ==
  /\ "kill" \in Faults /\ crashes < MaxCrash
  /\ crashes' = crashes + 1
  /\ open' = [open EXCEPT ![w] = Closed] /\ job' = [job EXCEPT ![w] = Idle]
  /\ UNCHANGED <<files, tries, history>>

(* What a power cut may leave of a member file and of a line file synced up *)
(* to n.                                                                    *)
LeftCells(file, n) == {SubSeq(file, 1, k) : k \in n..Len(file)}
LeftLines(file, n, garbage) ==
  {file} \cup
  {[lines |-> SubSeq(file.lines, 1, k), torn |-> FALSE] :
     k \in n..(Len(file.lines) - 1)} \cup
  (IF "tear" \in Faults
   THEN {[lines |-> Append(SubSeq(file.lines, 1, k), garbage), torn |-> TRUE] :
           k \in n..(Len(file.lines) - 1)}
   ELSE {})

(* The files of one day lose what was not synced; the days are independent, *)
(* so losing from several at once adds nothing.                             *)
PowerCut ==
  /\ "power" \in Faults /\ crashes < MaxCrash
  /\ crashes' = crashes + 1
  /\ \E d \in Day :
       /\ \E f \in LeftCells(data[d], synced[d].data) : data' = [data EXCEPT ![d] = f]
       /\ \E f \in LeftCells(pool[d], synced[d].pool) : pool' = [pool EXCEPT ![d] = f]
       /\ \E f \in LeftLines(index[d], synced[d].index, Garbage) :
            index' = [index EXCEPT ![d] = f]
       /\ \E f \in LeftLines(poolIndex[d], synced[d].poolIndex, PoolGarbage) :
            poolIndex' = [poolIndex EXCEPT ![d] = f]
       /\ synced' = [synced EXCEPT ![d] =
            [data |-> Len(data'[d]), index |-> Len(index'[d].lines),
             pool |-> Len(pool'[d]), poolIndex |-> Len(poolIndex'[d].lines)]]
  /\ open' = [w \in Writer |-> Closed] /\ job' = [w \in Writer |-> Idle]
  /\ UNCHANGED <<tries, history>>

-----------------------------------------------------------------------------
Put(w) == \/ WriteBlob(w) \/ WriteBlobFails(w)
          \/ SyncBlob(w) \/ SyncBlobFails(w)
          \/ WriteMember(w) \/ WriteMemberFails(w)
          \/ SyncMember(w) \/ SyncMemberFails(w)
          \/ WriteEntry(w) \/ WriteEntryFails(w)
          \/ SyncEntry(w) \/ SyncEntryFails(w)

Call(w) == \E r \in Record, how \in How : Begin(w, r, how) \/ BeginFails(w, r, how)

Next == PowerCut \/ \E w \in Writer : Call(w) \/ Put(w) \/ Kill(w)

Spec == Init /\ [][Next]_vars

-----------------------------------------------------------------------------
(* Types, and the offsets a process keeps lie within its files. *)
TypeOK ==
  /\ \A d \in Day :
       /\ \A k \in DOMAIN data[d] : data[d][k] \in Member \X {1, 2}
       /\ \A k \in DOMAIN pool[d] : pool[d][k] \in Content \X {1, 2}
       /\ index[d] \in Lines(Entry) /\ poolIndex[d] \in Lines(Pointer)
       /\ synced[d] \in [data : 0..Len(data[d]), pool : 0..Len(pool[d]),
                         index : 0..Len(index[d].lines),
                         poolIndex : 0..Len(poolIndex[d].lines)]
  /\ open \in [Writer -> [behind : SUBSET {"data", "pool"}, day : Day \cup {None}, off : Nat, blobOff : Nat,
                          blobs : [Content -> Nat \cup {-1}],
                          loaded : BOOLEAN, rids : SUBSET Rid]]
  /\ \A w \in Writer : open[w].day # None =>
       open[w].off <= Len(data[D(w)]) /\ open[w].blobOff <= Len(pool[D(w)])
  /\ job \in [Writer -> [pc : {"idle", "blob", "blobSync", "member", "memberSync",
                               "entry", "entrySync"},
                         rec : Record \cup {None}, how : {"append", "new"},
                         ptr : Nat, sound : BOOLEAN]]
  /\ tries \in 0..MaxTries /\ crashes \in 0..MaxCrash
  /\ acked \subseteq Day \X Rid /\ kept \subseteq acked
  /\ spoiled \subseteq Day

Resolves(d, e) == Fetched(d, e) = {e.rec}

(* An index entry reads back the record it was written for, with the value  *)
(* it lifted, whatever short writes, kills and power cuts came before: not  *)
(* an error, and not the body of another call.  Excepted are entries        *)
(* written after the process left an offset behind, by a failed sync or     *)
(* index write, and before it took the offset from the file again.          *)
CleanEntriesResolve ==
  \A d \in Day : \A i \in Entries(d) :
    index[d].lines[i].clean => Resolves(d, index[d].lines[i])

(* A record whose append returned nil is listed from then on, also after a  *)
(* power cut, unless its line was written behind a torn one or at a stale   *)
(* offset.                                                                  *)
AckedVisible ==
  \A key \in kept : \E i \in Entries(key[1]) :
    RidOf[index[key[1]].lines[i].rec] = key[2]

(* AppendNew does not add an entry for an id its day has, whichever path    *)
(* stored that one, and whether the retry comes from this process or the    *)
(* next.                                                                    *)
NewNeverDuplicates ==
  \A d \in Day : \A i, j \in Entries(d) :
    /\ i < j
    /\ RidOf[index[d].lines[i].rec] = RidOf[index[d].lines[j].rec]
    => index[d].lines[j].how # "new"

(* The archive a reader sees. *)
Shown ==
  [d \in Day |-> UNION {{<<i, r>> : r \in Fetched(d, index[d].lines[i])} :
                          i \in Entries(d)}]

Promise == INSTANCE RecordStore WITH
  shown <- Shown, acked <- kept, Position <- 1..MaxTries

(* The files implement the promise of RecordStore. *)
ImplementsStore == Promise!Spec

-----------------------------------------------------------------------------
(* A statement of the repository that does not hold.                        *)

(* "bytes written to data, i.e. offset of the next member" (the off field), *)
(* and "it only appends, so it is safe to run against a live archive"       *)
(* (README, -import): every entry reads back its own record.                *)
EntriesResolve ==
  \A d \in Day : \A i \in Entries(d) : Resolves(d, index[d].lines[i])
============================================================================
