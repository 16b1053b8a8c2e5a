------------------------------ MODULE Ingester ------------------------------
(***************************************************************************)
(* The spool ingester (ingest.go): one goroutine polls a directory of log  *)
(* files another process appends to, folds the lines of each call into one *)
(* pending record, moves finished records to permanent storage and         *)
(* reclaims the spool.  Reading positions, pending records and the set of  *)
(* ids already written live in memory only; the spool and the archive      *)
(* survive a restart.                                                      *)
(*                                                                         *)
(* A pass (once) is split where another process can interleave: between    *)
(* the stat of a file and its read, between two files, between two         *)
(* appends, and between the stat, the truncate and the second stat of      *)
(* truncateLive.  New API (external) writes log lines at any of these      *)
(* points, time passes, and the process may be killed.                     *)
(*                                                                         *)
(* Bounds: the lines of Script, MaxFile, MaxCrash and MaxLate.             *)
(***************************************************************************)
EXTENDS Naturals, Sequences, FiniteSets

CONSTANTS
  Call,         \* request ids, numbered in the order the calls began
  Script,       \* Script[c]: the kinds of the lines New API logs for c, in order
  NextDay,      \* the lines New API stamps after midnight
  MaxFile,      \* how many spool files New API opens, one after the other
  HighWater,    \* SPOOL_MAX_MB, in lines
  ArchivedCap,  \* size past which the dedup set is thrown away (50000)
  BatchMax,     \* records in one push (pushMaxRecords, pushMaxBytes)
  PushMode,     \* PUSH_URL is set: records go to another pod
  MaxCrash,     \* how many times the viewer is killed
  MaxLate,      \* how many appends of a call fail after the entry is written
  Faults        \* which calls of the environment may fail

(* A GIN line with a status below 400 or above, an [ERR] line, and a line   *)
(* longer than maxEntry are told apart; the other kinds are bodies.         *)
Kind == {"request", "chunk", "billing", "gin", "ginFail", "error", "huge"}
Line == Call \X (Nat \ {0})
File == 1..MaxFile

ASSUME CallAssumption == Call \subseteq Nat /\ IsFiniteSet(Call)
ASSUME ScriptAssumption == Script \in [Call -> Seq(Kind)]
ASSUME BoundAssumption ==
  /\ MaxFile \in Nat \ {0}
  /\ MaxCrash \in Nat /\ MaxLate \in Nat
  /\ BatchMax \in Nat \ {0}
ASSUME ModeAssumption ==
  /\ PushMode \in BOOLEAN
  /\ NextDay \subseteq Line
  /\ Faults \subseteq {"open", "partial", "append", "torn", "late",
                       "truncate", "net"}

VARIABLES
  written,      \* New API: how many lines of each call are logged
  spool,        \* the lines of each spool file
  present,      \* the spool files in the directory
  live,         \* the file New API has open
  mtime,        \* the rank of each file by modification time
  aged,         \* lines whose own timestamp is settleAfter old
  rec,          \* pending: the record folded for each call
  offsets,      \* lines of each file consumed
  archived,     \* ids already written by this process
  appendFails,  \* the last append, or push, failed
  truncErr,     \* the last truncate failed
  pushFails,    \* pusher.fails > 0
  backoff,      \* pusher.nextTry is still ahead
  archive,      \* versions in the index for each call, oldest first
  damaged,      \* days whose index ends in part of an entry
  phase,        \* where once() is
  files,        \* the directory listing of this pass, {} on a held one
  listed,       \* their modification times when it was made
  todo,         \* files of it not visited yet
  cur,          \* the file being read or truncated, 0 for none
  size,         \* its size as of the stat
  due,          \* records flushFinished has not visited yet
  ready,        \* finished records waiting for flushPush
  crashes,      \* history: times the process was killed
  gone,         \* history: lines held only in memory when it was
  windowed,     \* history: lines written inside truncateLive
  raced,        \* history: lines written between a file's stat and its read
  skipped,      \* history: lines an offset went past and no read folded
  dismissed,    \* history: lines of records dropped without a write
  orphaned,     \* history: lines New API wrote to a file that was unlinked
  overtaken,    \* history: live files, when a truncate made another newest
  late,         \* history: appends of a call failed after the entry
  swallowed     \* history: versions whose entry was added to a partial one

gateway == <<written, spool, present, live, mtime>>
memory == <<rec, offsets, archived, appendFails, truncErr, pushFails, backoff>>
store == <<archive, damaged>>
listing == <<files, listed>>
pass == <<phase, listing, todo, cur, size, due, ready>>
fate == <<orphaned, overtaken, late, swallowed>>
history == <<crashes, gone, windowed, raced, skipped, dismissed, fate>>
vars == <<gateway, aged, memory, store, pass, history>>

-----------------------------------------------------------------------------
(* Records.  `quiet' is how long ago the last line was read: 0 fresh, 1 at  *)
(* least settleAfter, 2 at least stallAfter.  `twice' are lines folded more *)
(* than once, `cut' those of which only the head was there to read, `first' *)
(* is the line that gave the record its TS, `billed' is billingSeen.        *)

Record == [lines : SUBSET (Nat \ {0}), twice : SUBSET (Nat \ {0}),
           cut : SUBSET (Nat \ {0}), first : Nat, last : Nat, quiet : 0..2,
           billed : BOOLEAN, stalled : BOOLEAN]
Version == [lines : SUBSET (Nat \ {0}), twice : SUBSET (Nat \ {0}),
            first : Nat, stalled : BOOLEAN]
Blank == [lines |-> {}, twice |-> {}, cut |-> {}, first |-> 0, last |-> 0,
          quiet |-> 0, billed |-> FALSE, stalled |-> FALSE]

Pending == {c \in Call : rec[c].lines # {}}
LinesOf(c, r) == {c} \X r.lines

Day == BOOLEAN  \* whether it is the day after

Oldest(S) == CHOOSE x \in S : \A y \in S : x <= y
Newest(S) == CHOOSE x \in S : \A y \in S : y <= x

Has(c, r, kinds) == \E n \in r.lines : Script[c][n] \in kinds

(* Quiet by read time, or by the timestamp of the last line. *)
Settled(c, r) == r.quiet >= 1 \/ <<c, r.last>> \in aged

Completed(c, r) ==
  \/ Has(c, r, {"gin", "ginFail"})
  \/ r.billed /\ Settled(c, r)

NoDeadline(c) == Completed(c, rec[c])  \* variant: a stalled call waits

(* Completed, or past the stall deadline. *)
Expired(c) == Completed(c, rec[c]) \/ rec[c].quiet = 2

(* A body of which only the head was read is no body. *)
WorthArchiving(c, r) ==
  \/ Has(c, r, {"error", "ginFail"})
  \/ \E n \in r.lines \ r.cut : Script[c][n] \in {"request", "billing"}

(* The record as flushFinished freezes it: Stalled is set, never cleared. *)
Judged(c) ==
  [rec[c] EXCEPT !.stalled = rec[c].stalled \/ ~Completed(c, rec[c])]

VersionOf(r) == [lines |-> r.lines \ r.cut, twice |-> r.twice, first |-> r.first,
                 stalled |-> r.stalled]

(* The day file a version belongs to, from the timestamp of its first line. *)
DayOf(c, v) == <<c, v.first>> \in NextDay

-----------------------------------------------------------------------------
(* New API and the clock (external).                                        *)

Init ==
  /\ written = [c \in Call |-> 0]
  /\ spool = [f \in File |-> <<>>]
  /\ present = {1} /\ live = 1 /\ mtime = [f \in File |-> f]
  /\ aged = {}
  /\ rec = [c \in Call |-> Blank]
  /\ offsets = [f \in File |-> 0]
  /\ archived = {}
  /\ appendFails = FALSE /\ truncErr = FALSE
  /\ pushFails = FALSE /\ backoff = FALSE
  /\ archive = [c \in Call |-> <<>>] /\ damaged = {}
  /\ phase = "idle" /\ files = {} /\ listed = [f \in File |-> 0]
  /\ todo = {} /\ cur = 0 /\ size = 0
  /\ due = {} /\ ready = {}
  /\ crashes = 0
  /\ gone = {} /\ windowed = {} /\ raced = {} /\ skipped = {}
  /\ dismissed = {} /\ orphaned = {} /\ overtaken = {}
  /\ late = [c \in Call |-> 0] /\ swallowed = [c \in Call |-> {}]

(* The modification times after f was written: no two files share one. *)
Touched(f) ==
  [g \in File |-> IF g = f THEN MaxFile
                  ELSE IF mtime[g] > mtime[f] THEN mtime[g] - 1 ELSE mtime[g]]

(* New API logs the next line of call c to its live file, which may have    *)
(* been unlinked: then nobody will read it.  flushFinished does not look at *)
(* the spool: a line written during it is one written when it ends.         *)
LogLine(c) ==
  /\ phase \notin {"flush", "send"}
  /\ written[c] < Len(Script[c])
  /\ written[c] = 0 => \A d \in Call : d < c => written[d] > 0
  /\ written' = [written EXCEPT ![c] = @ + 1]
  /\ LET l == <<c, written[c] + 1>>
     IN \/ /\ live \in present
           /\ spool' = [spool EXCEPT ![live] = Append(@, l)]
           /\ mtime' = Touched(live)
           /\ windowed' = IF phase \in {"truncate", "restat"} /\ cur = live
                          THEN windowed \cup {l} ELSE windowed
           /\ raced' = IF phase = "read" /\ cur = live
                       THEN raced \cup {l} ELSE raced
           /\ orphaned' = orphaned
        \/ /\ live \notin present
           /\ orphaned' = orphaned \cup {l}
           /\ UNCHANGED <<spool, mtime, windowed, raced>>
  /\ UNCHANGED <<present, live, aged, memory, store, pass, crashes, gone,
                 skipped, dismissed, overtaken, late, swallowed>>

(* New API starts a new log file.  A pass knows only the files it listed:   *)
(* where this is not enabled, a rotation is one right before or right after *)
(* the step.                                                                *)
Rotate ==
  /\ phase \in {"idle", "scan", "truncate"}
  /\ live < MaxFile
  /\ live' = live + 1
  /\ present' = present \cup {live + 1}
  /\ mtime' = Touched(live + 1)
  /\ UNCHANGED <<written, spool, aged, memory, store, pass, history>>

(* Time passes: settleAfter (q = 1) or stallAfter (q = 2).  flushFinished   *)
(* reads the clock once, so no time passes inside it, and time passing in   *)
(* the reclaim that follows is time passing once it is over.                *)
Wait(q) ==
  /\ phase \in {"idle", "scan", "read"}
  /\ rec' = [c \in Call |-> IF rec[c].lines # {} /\ rec[c].quiet < q
                            THEN [rec[c] EXCEPT !.quiet = q] ELSE rec[c]]
  /\ aged' = {l \in Call \X UNION {DOMAIN Script[c] : c \in Call} :
                l[2] <= written[l[1]]}
  /\ <<rec', aged'>> # <<rec, aged>>
  /\ UNCHANGED <<gateway, offsets, archived, appendFails, truncErr, pushFails,
                 backoff, store, pass, history>>

(* The pusher's delay has run out. *)
BackoffExpires ==
  /\ backoff /\ phase = "idle"
  /\ backoff' = FALSE
  /\ UNCHANGED <<gateway, aged, rec, offsets, archived, appendFails, truncErr,
                 pushFails, store, pass, history>>

-----------------------------------------------------------------------------
(* once(): reading the spool.                                               *)

(* While a push is failing a pass reads nothing and prunes nothing. *)
Holding == PushMode /\ pushFails

BeginHeld ==
  /\ phase = "idle" /\ Holding
  /\ phase' = "flush" /\ due' = Pending
  /\ UNCHANGED <<gateway, aged, memory, store, listing, todo, cur, size, ready,
                 history>>

BeginScan ==
  /\ phase = "idle" /\ ~Holding
  /\ phase' = "scan"
  /\ files' = present /\ listed' = mtime /\ todo' = present
  /\ UNCHANGED <<gateway, aged, memory, store, cur, size, due, ready,
                 history>>

(* variant: the sort reversed *)
NewestFirst == CHOOSE f \in todo : \A g \in todo : listed[g] <= listed[f]

(* Files are visited in the order of their modification time. *)
NextFile == CHOOSE f \in todo : \A g \in todo : listed[f] <= listed[g]

Unchanged(f) == offsets[f] = Len(spool[f])

SkipFile ==
  /\ phase = "scan" /\ todo # {}
  /\ Unchanged(NextFile)
  /\ todo' = todo \ {NextFile}
  /\ UNCHANGED <<gateway, aged, memory, store, phase, listing, cur, size, due,
                 ready, history>>

StatFile ==
  /\ phase = "scan" /\ todo # {}
  /\ ~Unchanged(NextFile)
  /\ phase' = "read" /\ cur' = NextFile /\ size' = Len(spool[NextFile])
  /\ todo' = todo \ {NextFile}
  /\ UNCHANGED <<gateway, aged, memory, store, listing, due, ready, history>>

FromStart(f) == 0  \* variant: the offset is forgotten

(* variant: the first line of a resumed read is taken for a partial one *)
SkipFirst(f) == IF offsets[f] = 0 \/ offsets[f] > size THEN 0
                ELSE offsets[f] + 1

(* Where a read of f resumes: at its offset, or at the start if the file    *)
(* had shrunk below it by the stat.                                         *)
ResumeAt(f) == IF offsets[f] > size THEN 0 ELSE offsets[f]

KindAt(f, k) == Script[spool[f][k][1]][spool[f][k][2]]

(* The positions of f handed to handleLine: from the resume point to the    *)
(* end of the file, or to the first line over maxEntry, where the scanner   *)
(* stops for good.                                                          *)
Scanned(f) ==
  {k \in (ResumeAt(f) + 1)..Len(spool[f]) :
     \A j \in (ResumeAt(f) + 1)..k : KindAt(f, j) # "huge"}

(* What one read hands to handleLine: whole lines, and the head of the line *)
(* New API is writing if the head names its call, which a GIN line does not *)
(* before its end; `marked' when the head goes as far as the body.          *)
Plain(P) == [whole |-> P, head |-> {}, marked |-> FALSE]

Headed(f, P) ==
  {[whole |-> P \ {Len(spool[f])}, head |-> H, marked |-> m] :
     H \in {{}} \cup {{k} : k \in {k \in P \cap {Len(spool[f])} :
                                 KindAt(f, k) \notin {"gin", "ginFail"}}},
     m \in BOOLEAN}

(* handleLine over what a read of file f covers, then finalize. *)
Fold(f, r) ==
  [c \in Call |->
     LET mine == {k \in r.whole \cup r.head : spool[f][k][1] = c}
         new == {spool[f][k][2] : k \in mine}
         heads == {spool[f][k][2] : k \in mine \cap r.head}
         billing == {k \in mine : KindAt(f, k) = "billing"}
     IN IF mine = {} THEN rec[c]
        ELSE [lines |-> rec[c].lines \cup new,
              twice |-> rec[c].twice \cup (rec[c].lines \cap new),
              cut |-> (rec[c].cut \ new) \cup heads,
              first |-> IF rec[c].lines = {} THEN spool[f][Oldest(mine)][2]
                        ELSE rec[c].first,
              last |-> spool[f][Newest(mine)][2],
              quiet |-> 0,
              billed |-> \/ rec[c].billed
                         \/ billing \ r.head # {}
                         \/ r.marked /\ billing # {},
              stalled |-> rec[c].stalled]]

(* Where a line is: ahead of the reader in a file it will open, whole in a  *)
(* pending record, or in a stored version.                                  *)
IsUnread(l) ==
  \E f \in present : \E k \in DOMAIN spool[f] :
     k > offsets[f] /\ spool[f][k] = l
IsHeld(l) == l[2] \in rec[l[1]].lines \ rec[l[1]].cut
IsStored(l) ==
  \E i \in DOMAIN archive[l[1]] : l[2] \in archive[l[1]][i].lines

(* New API may still be writing the last line: it was not yet read whole.   *)
HalfWritten(f) ==
  /\ f = live /\ Len(spool[f]) > 0
  /\ LET l == spool[f][Len(spool[f])] IN ~IsHeld(l) /\ ~IsStored(l)

(* A read covers what it scans; nothing, if the file cannot be opened; and  *)
(* of the last line none or the head, if New API is still writing it.  The  *)
(* tail, which the next read starts with, names no call.                    *)
Reading(f) ==
  {Plain(Scanned(f))} \cup
  (IF "open" \in Faults THEN {Plain({})} ELSE {}) \cup
  (IF "partial" \in Faults /\ HalfWritten(f) THEN Headed(f, Scanned(f)) ELSE {})

(* The offset advances to the size of the stat, whatever the read covered,  *)
(* which goes on to the end of the file.                                    *)
ReadFile ==
  /\ phase = "read"
  /\ \E r \in Reading(cur) :
       /\ rec' = Fold(cur, r)
       /\ skipped' = skipped \cup
            {spool[cur][k] : k \in ((ResumeAt(cur) + 1)..size) \ r.whole}
  /\ offsets' = [offsets EXCEPT ![cur] = size]
  /\ phase' = "scan" /\ cur' = 0 /\ size' = 0
  /\ UNCHANGED <<gateway, aged, archived, appendFails, truncErr, pushFails,
                 backoff, store, listing, todo, due, ready, crashes, gone,
                 windowed, raced, dismissed, fate>>

(* Offsets of files that vanished are forgotten. *)
EndScan ==
  /\ phase = "scan" /\ todo = {}
  /\ offsets' = [f \in File |-> IF f \in files THEN offsets[f] ELSE 0]
  /\ phase' = "flush" /\ due' = Pending
  /\ UNCHANGED <<gateway, aged, rec, archived, appendFails, truncErr,
                 pushFails, backoff, store, listing, todo, cur, size, ready,
                 history>>

-----------------------------------------------------------------------------
(* flushFinished: each pending record once, in any order.                   *)

Visit(c) == phase = "flush" /\ c \in due /\ due' = due \ {c}

RememberNone(S) == archived  \* variant: the dedup set is not maintained

Remember(S) == archived \cup S

Trim(S) == IF Cardinality(S) > ArchivedCap THEN {} ELSE S

KeepRunning(c) ==
  /\ Visit(c) /\ ~Expired(c)
  /\ UNCHANGED <<gateway, aged, memory, store, phase, listing, todo, cur, size,
                 ready, history>>

Unwanted(c) == ~WorthArchiving(c, rec[c]) \/ c \in archived

Discard(c) ==
  /\ Visit(c) /\ Expired(c) /\ Unwanted(c)
  /\ rec' = [rec EXCEPT ![c] = Blank]
  /\ dismissed' = dismissed \cup LinesOf(c, rec[c])
  /\ UNCHANGED <<gateway, aged, offsets, archived, appendFails, truncErr,
                 pushFails, backoff, store, phase, listing, todo, cur, size,
                 ready, crashes, gone, windowed, raced, skipped, fate>>

(* Entries written to the index for the records of S, oldest first.  Behind *)
(* part of an entry the first one makes a line that does not parse, and     *)
(* ends that line.                                                          *)
Glued(S) ==
  {c \in S : /\ DayOf(c, rec[c]) \in damaged
             /\ \A b \in S : DayOf(b, rec[b]) = DayOf(c, rec[c]) => c <= b}

Entered(S) ==
  [c \in Call |-> IF c \in S \ Glued(S)
                  THEN Append(archive[c], VersionOf(Judged(c)))
                  ELSE archive[c]]

Lost(S) ==
  [c \in Call |-> IF c \in S THEN swallowed[c] \cup {VersionOf(Judged(c))}
                  ELSE swallowed[c]]

Mended(S) == damaged \ {DayOf(c, rec[c]) : c \in Glued(S)}

AppendRecord(c) ==
  /\ ~PushMode
  /\ Visit(c) /\ Expired(c) /\ ~Unwanted(c)
  /\ archive' = Entered({c}) /\ damaged' = Mended({c})
  /\ swallowed' = Lost(Glued({c}))
  /\ archived' = Remember({c})
  /\ rec' = [rec EXCEPT ![c] = Blank]
  /\ appendFails' = FALSE
  /\ UNCHANGED <<gateway, aged, offsets, truncErr, pushFails, backoff, phase,
                 listing, todo, cur, size, ready, crashes, gone, windowed,
                 raced, skipped, dismissed, orphaned, overtaken, late>>

RetainedNot(c) == Blank  \* variant: a failed write drops the record

(* What a failed append, or push, leaves pending. *)
Retained(c) == Judged(c)

(* An append fails before its entry, or in the middle of it, or when the    *)
(* entry is written and cannot be synced; the record stays pending.         *)
AppendFailure(c) ==
  /\ ~PushMode
  /\ Visit(c) /\ Expired(c) /\ ~Unwanted(c)
  /\ \/ /\ "append" \in Faults
        /\ UNCHANGED <<store, late, swallowed>>
     \/ /\ "torn" \in Faults
        /\ damaged' = damaged \cup {DayOf(c, rec[c])}
        /\ UNCHANGED <<archive, late, swallowed>>
     \/ /\ "late" \in Faults /\ late[c] < MaxLate
        /\ late' = [late EXCEPT ![c] = @ + 1]
        /\ archive' = Entered({c}) /\ damaged' = Mended({c})
        /\ swallowed' = Lost(Glued({c}))
  /\ rec' = [rec EXCEPT ![c] = Retained(c)]
  /\ appendFails' = TRUE
  /\ UNCHANGED <<gateway, aged, offsets, archived, truncErr, pushFails,
                 backoff, phase, listing, todo, cur, size, ready, crashes,
                 gone, windowed, raced, skipped, dismissed, orphaned,
                 overtaken>>

Collect(c) ==
  /\ PushMode
  /\ Visit(c) /\ Expired(c) /\ ~Unwanted(c)
  /\ rec' = [rec EXCEPT ![c] = Judged(c)]
  /\ ready' = ready \cup {c}
  /\ UNCHANGED <<gateway, aged, offsets, archived, appendFails, truncErr,
                 pushFails, backoff, store, phase, listing, todo, cur, size,
                 history>>

(* The end of flushFinished: a held pass ends, another one prunes. *)
AfterFlush == IF files = {} THEN "idle" ELSE "prune"

EndFlush ==
  /\ phase = "flush" /\ due = {}
  /\ IF ready = {}
     THEN phase' = AfterFlush /\ archived' = Trim(archived)
     ELSE phase' = "send" /\ archived' = archived
  /\ UNCHANGED <<gateway, aged, rec, offsets, appendFails, truncErr, pushFails,
                 backoff, store, listing, todo, cur, size, due, ready, history>>

-----------------------------------------------------------------------------
(* flushPush: the finished records, oldest first, in batches.  The receiver *)
(* (receive.go) appends each one unless that day already holds the id.      *)

Batch == {c \in ready : Cardinality({d \in ready : d < c}) < BatchMax}

(* The receiver has the id of c for its day: as an entry, or only in memory *)
(* if the entry was written behind part of another one.                     *)
Listed(c) ==
  \E i \in DOMAIN archive[c] : DayOf(c, archive[c][i]) = DayOf(c, rec[c])
Astray(c) == \E v \in swallowed[c] : DayOf(c, v) = DayOf(c, rec[c])

(* The records the receiver appends (AppendNew) of those it is given: the   *)
(* ones whose id it does not have.                                          *)
Appended(B) ==
  {{c \in B : ~Listed(c)} \ K : K \in SUBSET {c \in B : Astray(c)}}

(* Every record of the batch is accounted for, stored or duplicate. *)
SendAcked ==
  /\ phase = "send" /\ ready # {} /\ ~backoff
  /\ \E S \in Appended(Batch) :
       /\ archive' = Entered(S) /\ damaged' = Mended(S)
       /\ swallowed' =
            Lost(Glued(S) \cup {c \in Batch \ S : ~Listed(c)})
  /\ archived' = Remember(Batch)
  /\ rec' = [c \in Call |-> IF c \in Batch THEN Blank ELSE rec[c]]
  /\ ready' = ready \ Batch
  /\ appendFails' = FALSE /\ pushFails' = FALSE
  /\ dismissed' = dismissed \cup
       UNION {LinesOf(c, rec[c]) : c \in {d \in Batch : Listed(d)}}
  /\ UNCHANGED <<gateway, aged, offsets, truncErr, backoff, phase, listing,
                 todo, cur, size, due, crashes, gone, windowed, raced, skipped,
                 orphaned, overtaken, late>>

(* The push fails: refused, cut after its first records, one of which may   *)
(* leave part of an entry, or stored with the answer lost.  Nothing is      *)
(* forgotten and the backoff starts.                                        *)
SendFails ==
  /\ phase = "send" /\ ready # {} /\ ~backoff
  /\ "net" \in Faults
  /\ \E n \in 0..Cardinality(Batch) :
       LET done == {c \in Batch : Cardinality({d \in Batch : d < c}) < n}
       IN \E S \in Appended(done) :
            /\ archive' = Entered(S)
            /\ \E D \in SUBSET {DayOf(c, rec[c]) : c \in Batch \ done} :
                 damaged' = Mended(S) \cup D
            /\ swallowed' = Lost(Glued(S))
  /\ rec' = [c \in Call |-> IF c \in Batch THEN Retained(c) ELSE rec[c]]
  /\ appendFails' = TRUE /\ pushFails' = TRUE /\ backoff' = TRUE
  /\ UNCHANGED <<gateway, aged, offsets, archived, truncErr, pass, crashes,
                 gone, windowed, raced, skipped, dismissed, orphaned,
                 overtaken, late>>

SendStops ==
  /\ phase = "send" /\ (ready = {} \/ backoff)
  /\ phase' = AfterFlush /\ archived' = Trim(archived) /\ ready' = {}
  /\ UNCHANGED <<gateway, aged, rec, offsets, appendFails, truncErr, pushFails,
                 backoff, store, listing, todo, cur, size, due, history>>

-----------------------------------------------------------------------------
(* prune and truncateLive. *)

Bytes(S) == Cardinality(UNION {{f} \X DOMAIN spool[f] : f \in S})

AssumeConsumed(f) == TRUE  \* variant: unread files are reclaimed too

Consumed(f) == offsets[f] >= Len(spool[f])

(* The last of the listing, taken for the file New API is writing. *)
LiveFile == CHOOSE f \in files : \A g \in files : listed[g] <= listed[f]

LiveToo == {f \in files : Consumed(f)}  \* variant: unlinks the live file

Droppable == {f \in files : f # LiveFile /\ Consumed(f)}

(* The age sweep: consumed files last written before the cutoff. *)
TooOld(cutoff) == {f \in Droppable : mtime[f] <= cutoff}

(* The size sweep over what the age sweep left: oldest first, until the     *)
(* spool is back under the high-water mark.                                 *)
TooMuch(old) ==
  {f \in Droppable \ old :
     Bytes(files \ (old \cup {g \in Droppable \ old : mtime[g] < mtime[f]}))
       > HighWater}

NeverTruncates(drop) == FALSE  \* variant: the live file is left alone

(* What the sweeps leave is still over the mark, and the live file, not     *)
(* empty and with no unread line, is there to be truncated.                 *)
MayTruncate(drop) ==
  /\ Bytes(files \ drop) > HighWater
  /\ Len(spool[LiveFile]) > 0 /\ Consumed(LiveFile)

(* Removes the files both sweeps name, and goes on to truncateLive if that  *)
(* is not enough.                                                           *)
Prune ==
  /\ phase = "prune"
  /\ \E cutoff \in 0..MaxFile :
       LET old == TooOld(cutoff)
           drop == old \cup TooMuch(old)
       IN /\ spool' = [f \in File |-> IF f \in drop THEN <<>> ELSE spool[f]]
          /\ offsets' = [f \in File |-> IF f \in drop THEN 0 ELSE offsets[f]]
          /\ present' = present \ drop
          /\ IF MayTruncate(drop)
             THEN phase' = "truncate" /\ cur' = LiveFile
             ELSE phase' = "idle" /\ cur' = 0
  /\ files' = {} /\ listed' = [f \in File |-> 0]
  /\ UNCHANGED <<written, live, mtime, aged, rec, archived, appendFails, truncErr,
                 pushFails, backoff, store, todo, size, due, ready, history>>

(* Truncating is writing: the file is the newest now, although New API may  *)
(* have opened another one meanwhile.                                       *)
Truncate ==
  /\ phase = "truncate"
  /\ spool' = [spool EXCEPT ![cur] = <<>>]
  /\ mtime' = Touched(cur)
  /\ overtaken' = IF cur = live THEN overtaken ELSE overtaken \cup {live}
  /\ truncErr' = FALSE
  /\ phase' = "restat"
  /\ UNCHANGED <<written, present, live, aged, rec, offsets, archived,
                 appendFails, pushFails, backoff, store, listing, todo, cur,
                 size, due, ready, crashes, gone, windowed, raced, skipped,
                 dismissed, orphaned, late, swallowed>>

(* Truncating is refused, and so is the chmod retry. *)
TruncateFails ==
  /\ phase = "truncate" /\ "truncate" \in Faults
  /\ truncErr' = TRUE
  /\ phase' = "idle" /\ cur' = 0
  /\ UNCHANGED <<gateway, aged, rec, offsets, archived, appendFails, pushFails,
                 backoff, store, listing, todo, size, due, ready, history>>

(* Reading resumes wherever the file ends by now. *)
Restat ==
  /\ phase = "restat"
  /\ offsets' = [offsets EXCEPT ![cur] = Len(spool[cur])]
  /\ phase' = "idle" /\ cur' = 0
  /\ UNCHANGED <<gateway, aged, rec, archived, appendFails, truncErr, pushFails,
                 backoff, store, listing, todo, size, due, ready, history>>

-----------------------------------------------------------------------------
(* The process is killed at any point and starts over; what only memory     *)
(* held is gone.                                                            *)

Present == UNION {{spool[f][k] : k \in DOMAIN spool[f]} : f \in present}
Held == UNION {LinesOf(c, rec[c]) : c \in Call}

Crash ==
  /\ crashes < MaxCrash
  /\ crashes' = crashes + 1
  /\ gone' = gone \cup (Held \ Present)
  /\ rec' = [c \in Call |-> Blank]
  /\ offsets' = [f \in File |-> 0]
  /\ archived' = {}
  /\ appendFails' = FALSE /\ truncErr' = FALSE
  /\ pushFails' = FALSE /\ backoff' = FALSE
  /\ phase' = "idle" /\ files' = {} /\ listed' = [f \in File |-> 0]
  /\ todo' = {} /\ cur' = 0 /\ size' = 0
  /\ due' = {} /\ ready' = {}
  /\ UNCHANGED <<gateway, aged, store, windowed, raced, skipped, dismissed, fate>>

-----------------------------------------------------------------------------
Scan == BeginHeld \/ BeginScan \/ SkipFile \/ StatFile \/ ReadFile \/ EndScan
Flush == \E c \in Call : \/ KeepRunning(c) \/ Discard(c)
                         \/ AppendRecord(c) \/ AppendFailure(c) \/ Collect(c)
Ship == SendAcked \/ SendFails \/ SendStops
Reclaim == Prune \/ Truncate \/ TruncateFails \/ Restat

Once == Scan \/ Flush \/ EndFlush \/ Ship \/ Reclaim

Gateway == Rotate \/ \E c \in Call : LogLine(c)
Clock == BackoffExpires \/ Wait(1) \/ Wait(2)

Next == Once \/ Gateway \/ Clock \/ Crash

Spec == Init /\ [][Next]_vars

(* The poll loop never stops (Run), time passes, and an append and a        *)
(* truncate that are tried again and again succeed at some point.  In push  *)
(* mode what ends a hold is the link's: see PushLink.                       *)
Fairness ==
  /\ WF_vars(Once)
  /\ SF_vars(Wait(2))
  /\ \A c \in Call : SF_vars(AppendRecord(c))
  /\ SF_vars(Truncate)

FairSpec == Spec /\ Fairness

-----------------------------------------------------------------------------
(* Types, and which pass variables each phase uses. *)
TypeOK ==
  /\ written \in [Call -> Nat]
  /\ spool \in [File -> Seq(Line)]
  /\ present \subseteq File /\ live \in File
  /\ mtime \in [File -> File]
  /\ aged \subseteq Line
  /\ rec \in [Call -> Record]
  /\ offsets \in [File -> Nat]
  /\ archived \subseteq Call
  /\ appendFails \in BOOLEAN /\ truncErr \in BOOLEAN
  /\ pushFails \in BOOLEAN /\ backoff \in BOOLEAN
  /\ archive \in [Call -> Seq(Version)] /\ damaged \subseteq Day
  /\ phase \in {"idle", "scan", "read", "flush", "send", "prune", "truncate",
                "restat"}
  /\ files \subseteq present /\ todo \subseteq files
  /\ listed \in [File -> 0..MaxFile]
  /\ cur \in File \cup {0} /\ size \in Nat
  /\ due \subseteq Call /\ ready \subseteq Call
  /\ crashes \in 0..MaxCrash
  /\ gone \subseteq Line /\ windowed \subseteq Line
  /\ raced \subseteq Line /\ skipped \subseteq Line
  /\ dismissed \subseteq Line /\ orphaned \subseteq Line
  /\ overtaken \subseteq File
  /\ late \in [Call -> 0..MaxLate]
  /\ swallowed \in [Call -> SUBSET Version]

IsSwallowed(l) == \E v \in swallowed[l[1]] : l[2] \in v.lines

Accounted(l) ==
  \/ IsUnread(l) \/ IsHeld(l) \/ IsStored(l)
  \/ l \in dismissed \/ l \in windowed \/ l \in gone \/ l \in skipped
  \/ l \in orphaned \/ IsSwallowed(l)

(* No log line is lost silently, whatever the order of writes, reads,       *)
(* failed appends, sweeps and restarts: it is ahead of the reader, in a     *)
(* pending record, in the archive, or dropped with a record that was not    *)
(* wanted.  The exceptions the code concedes are a line written while       *)
(* truncateLive runs and a line only memory held at a restart; also of a    *)
(* record whose push is failing, which ingest.go:130-136 takes to be in the *)
(* spool still: the pass whose push failed has pruned.  Those it does not   *)
(* notice: a line the offset passed although the file could not be opened,  *)
(* the line was half written or the scanner had stopped; a line written to  *)
(* a file that was unlinked; and the lines of a record whose entry was      *)
(* written behind part of another one.                                      *)
LineAccounted ==
  \A c \in Call : \A n \in 1..written[c] : Accounted(<<c, n>>)

(* A line is folded twice into a record only if New API wrote it between    *)
(* the stat of its file and the read that follows.                          *)
RefoldOnlyRaced ==
  \A c \in Call :
     /\ {c} \X rec[c].twice \subseteq raced
     /\ \A i \in DOMAIN archive[c] : {c} \X archive[c][i].twice \subseteq raced

(* A version closed by its GIN line has every earlier line of the call,     *)
(* whichever passes read them and whatever came between: the line is last   *)
(* in the log and everything before it was read no later, but for lines     *)
(* truncateLive or an unfinished read passed over, lines of a record that   *)
(* was not wanted, and lines of an unlinked file.  A restart forgets what   *)
(* had been read, and is excepted.                                          *)
CompleteOnGin ==
  crashes = 0 =>
    \A c \in Call : \A i \in DOMAIN archive[c] :
      \A n \in archive[c][i].lines :
        Script[c][n] \in {"gin", "ginFail"} =>
          \A m \in 1..n : \/ m \in archive[c][i].lines
                       \/ <<c, m>> \in windowed \cup dismissed \cup skipped
                                        \cup orphaned

(* The line that dates a record, and so picks its day file, is the earliest *)
(* it was folded from, also when the call straddles two files, is read      *)
(* twice, or is read again after a restart.                                 *)
DatedByHead ==
  \A c \in Call :
     /\ \A n \in rec[c].lines : rec[c].first <= n
     /\ \A i \in DOMAIN archive[c] : \A n \in archive[c][i].lines :
          archive[c][i].first <= n

(* Within one run of the process a call is written once, and once more for  *)
(* each append that failed after its entry was written, which the retry the *)
(* comment at ingest.go:56 rules out does double-write: neither lines that  *)
(* arrive after the write nor lines read twice do, as long as the set of    *)
(* ids is not thrown away for its size.  Each restart forgets the ids and   *)
(* may add one version.                                                     *)
OneVersionPerLife ==
  \A c \in Call : Len(archive[c]) <= 1 + crashes + late[c]

(* The sweeps unlink the file New API has open only if a truncate of the    *)
(* file before it has made that one the newest since New API opened it,     *)
(* whatever rotations, passes and restarts came in between.                 *)
LiveFileKept == live \in present \/ live \in overtaken

(* A pod that holds its spool because a push failed still has a record to   *)
(* push: the hold ends only on an acknowledgement, so with nothing left to  *)
(* send the spool would never be read again.                                *)
HoldHasWork ==
  pushFails => \E c \in Pending : Expired(c) /\ ~Unwanted(c)

(* Every pending record leaves memory: archived, or dropped as unwanted. *)
PendingDrains ==
  \A c \in Call : (c \in Pending) ~> (c \notin Pending)

(* A spool over its high-water mark is brought back under it. *)
SpoolReclaimed ==
  (Bytes(present) > HighWater) ~> (Bytes(present) <= HighWater)

-----------------------------------------------------------------------------
(* Statements of the repository that do not hold.                           *)

(* "skipping into the middle of a spool file would permanently lose the     *)
(* calls that were skipped, and the archive is meant to be complete"        *)
(* (once): at most the line that is itself too long is passed over.         *)
OnlyHugeSkipped == \A l \in skipped : Script[l[1]][l[2]] = "huge"

(* "The file New API is still writing is never deleted" (prune). *)
LiveNeverDeleted == live \in present
============================================================================
