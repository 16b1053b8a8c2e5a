# newapi-logviewer in TLA+

TLA+ specifications of the log viewer of this repository: how its spool ingester, parser, archive, push
link, caches, maintenance commands and pages behave under every interleaving with the gateway, failed calls,
kills and power cuts, model-checked with TLC; and the safety properties of the ingester, the archive, the push
link, the caches, the maintenance commands, the pages and the parser proved with TLAPS.

All paths below without a directory are files of the repository's root (`src/` in `PROJECT.json`).

## 1. The system

New API (an LLM gateway, another process) writes debug log lines into `LOG_DIR`, a small tmpfs. The viewer
polls that directory, folds all lines that carry one request id into one *record*, appends
finished records to a permanent archive of day files, and deletes or truncates the log. In *push mode* it
sends the records to the viewer of another pod instead, which is then the archive's only writer. A
web page lists calls and statistics from the archive.

| part | state it keeps | operations |
|---|---|---|
| spool ingester (`ingest.go`) | read offset of each spool file, pending records, ids already written, write-side health | `once` every tick: read, flush, prune; `truncateLive`; `health` |
| log parser (`logparse.go`, `raw.go`) | the records it is folding (owned by the ingester) | `parseRange`, `scanEntries`, `handleLine`, `finalize`, `refreshOutcome` |
| archive writer (`archive.go`) | four append-only files a day; in memory the open day, two offsets, the dedup map, the ids of the day | `Append`, `AppendNew`, `openDay`, `index`, `fetch` |
| blob pool (`blob.go`) | two of the four files | `putBlobLocked`, `loadBlobMap`, `splitRequest`, `joinRequest` |
| push sender (`push.go`, `flushPush`) | failures in a row, time of the next try | `send`, `failed`, `succeeded` |
| push receiver (`receive.go`) | counters; the archive | `handlePush` |
| query, statistics (`query.go`, `stats.go`) | none | `eachMatch`, `list`, `get`, `earliest`, `stats` |
| channel resolver (`channels.go`) | names, time of the last fetch and of the last try | `refresh` |
| authentication (`auth.go`) | verdict cache | `check` |
| maintenance (`import.go`, `reindex.go`, `repair.go`, `reingest.go`) | none; separate processes on the archive | one command each |
| container (`entrypoint.sh`) | pids | supervision loop, owner watcher, `terminate` |
| server, configuration, page (`server.go`, `main.go`, `config.go`, `ui.html`) | settings | routing and rendering |

How they interact: the ingester and New API share only the spool directory, with no lock; the ingester
calls the parser and then the archive (or the sender) with its mutex held; the sender and receiver share
only HTTP; receiver and ingester of one process share one `archive` and its mutex; maintenance commands
share the files with whatever process has them open. Memory is lost in a restart, the spool survives a
restart of the viewer (not of the host), the archive survives both.

What makes it hard: the gateway writes between any two system calls of a pass; the stat, the read, the
truncate and the second stat of a file are separate; a pass has many steps that fail on their own; a
restart forgets what was read but not what was reclaimed; the sender cannot tell a lost batch from a lost
answer; an append is up to six writes and syncs.

What makes each part correct:

* ingester: no line lost silently, but for exceptions one can list; a call written once a life unless an append failed late, complete, and to the right day; memory and spool are reclaimed in the end;
* archive: an index entry reads back its own record; a record acknowledged is visible from then on; a retry adds no second copy; a crash costs only what was not acknowledged;
* push: the same two promises across two machines; an outage that ends, ends the hold;
* query and statistics: the last version of an id wins everywhere, and totals agree between views;
* parser: the record does not depend on how reads cut a call into passes, and says what its lines said;
* caches: no answer older than its lifetime, at most one fetch at a time, no retry before its delay;
* maintenance: nothing is lost where a command is stopped, and running it again finishes it.

`PROJECT.json` lists the hazards at their source lines, with the properties about each; section 7 says what is not
modelled.

## 2. Modules

| module | what it is |
|---|---|
| `Ingester.tla` | the ingester with New API, the clock and kills; local mode and push mode |
| `MCIngesterLocal`, `MCIngesterRestart`, `MCIngesterPush` | instances of it for TLC, with the `Ingester*.cfg` files |
| `RecordStore.tla` | what an archive promises its readers, abstractly |
| `Archive.tla` | the four files of a day and the steps of an append; refines `RecordStore` |
| `MCArchive` | the instance, with the `Archive*.cfg` files |
| `PushLink.tla` | sender, network and receiver as actors of their own |
| `Requests.tla` | concurrent page requests over the verdict cache and the channel list |
| `Parser.tla` | what a line adds to a record, what `finalize` derives, what `-repair` and `-reindex` do to the result |
| `Query.tla` | list, pages, search, detail view and ranges, as operators over an archive |
| `Stats.tla` | the statistics page, over the same walk (`EXTENDS Query`) |
| `Maintenance.tla` | the four commands beside the viewer, and what the pages show of each archive they leave (`EXTENDS Stats`) |
| `MCPushLink`, `MCRequests`, `MCParser`, `MCMaintenance` | their instances, with the `.cfg` files of those names |
| `IngesterProofs` | the theorems about `Ingester`: what becomes of lines, and of the versions made of them |
| `ArchiveProofs` | the theorems about `Archive`, and that it implements `RecordStore` |
| `PushLinkProofs`, `RequestsProofs` | the theorems about those modules |
| `MaintenanceProofs` | the theorems about the commands, and about what `Query` and `Stats` show of the archives they leave |
| `ParserProofs` | the theorems about `Parser`: accumulators and passes, what a record says, what `-reindex` and `-repair` leave alone |
| `FoldFacts` | what folding a sequence computes, for any operator; `ParserProofs` has an instance for each operator of the parser |
| `SetFacts` | lemmas about finite sets the proofs share: least and greatest members, ranks in an order, sums |

How they compose: `Ingester` and `PushLink` each take the other's part whole. What holding a record does to the
spool is in `Ingester`, where the receiver is one step; what becomes of a batch is in `PushLink`, where reading the spool
is one step (`BeginPass`) and an append another. In both an append has the outcomes `Archive` gives it, as far as the index goes: no entry; part of
one (`torn`, `damaged`); an entry written and not synced, with an error; an entry, and nil; and any of the last two becomes part of a line that was left torn
(`swallowed`). What they leave to `Archive` is whether the entry reads back its record: a version in the `archive` of `Ingester`, or an id in the `index` of `PushLink`, is an entry that parses, and where
a failed step has left a stale offset its record may be unreadable (`archive_stale`). Power cuts are in `Archive` and `PushLink`; the `Crash` of `Ingester` is a kill.
`Maintenance`, `Query` and `Stats` work on an archive as `RecordStore` describes it: for each day a
list of records. `Parser` refines the one thing `Ingester` says of a record, the set of lines folded into it.

### Ingester

| state | code |
|---|---|
| `written`, `spool`, `present`, `live` | the lines New API logged, the `*.log` files and those still in the directory, the file New API has open |
| `mtime` | the order of the files by modification time, which writing and truncating change (`Touched`) |
| `aged`, `rec[c].quiet` | the clock as `settled` and the stall deadline read it: by the timestamp of the last line, and by `lastSeen` (0 fresh, 1 at least `settleAfter`, 2 at least `stallAfter`) |
| `rec`, `offsets`, `archived`, `appendFails`, `truncErr` | `pending`, and the fields of those names |
| `pushFails`, `backoff` | `pusher.failing()`, `!pusher.ready(now)` |
| `archive` | for each call the versions the index of its day has, here or on the receiver |
| `damaged` | the days whose index ends in part of an entry |
| `phase`, `files`, `listed`, `todo`, `cur`, `size`, `due`, `ready` | where `once` is, and its local variables; `listed` is the order of the listing when it was sorted |
| `crashes`, `gone`, `windowed`, `raced`, `skipped`, `dismissed`, `orphaned`, `overtaken`, `late`, `swallowed` | history, read by the properties only (`crashes` and `late` also by their bounds; of `swallowed`, that the receiver still knows the ids) |

`once` holds `i.mu` throughout, so only other processes interleave. It is cut where that matters: between the
stat of a file (`StatFile`) and its read (`ReadFile`), between files, between the visits of `flushFinished`
(`KeepRunning`, `Discard`, `AppendRecord`, `AppendFailure`, `Collect`; in any order, as Go's map iteration), between
batches (`SendAcked`, `SendFails`), and between stat, truncate and second stat of the live file (`Prune`, `Truncate`,
`Restat`). `Crash` may come between any two steps. Steps that do not look at the spool are not interleaved with
lines being logged or files being started: a line logged during them is one logged right after.

The listing is sorted once a pass by modification time, and its last file is taken for the one New API writes. Both are the order of
`mtime`, not of the files' age: New API may open a file between the listing and the truncate of the file before it, and
the truncate then makes that one the newest (`overtaken`). New API goes on writing to a file that was unlinked, and nobody reads that (`orphaned`).
Modification times are distinct; New API writes its files one after the other, so two of them share one only within the resolution of the clock.

`AppendFailure` is every error return of `Append` as the index shows it: no entry, part of an entry, or a whole entry whose sync failed. The record
stays pending in each, and `Append` asks no index before it writes again. An entry written behind part of one makes one line with it, which no reader parses
and which it ends (`Glued`, `Lost`, `Mended`).

Data: a log line is a call and a position in its script; `Script` gives its kind. Offsets count lines. Where a read catches New API half way through a line (`Headed`), its head
may already name its call: it then makes or dates the record and, if it goes as far as the marker of a billing body, sets `billingSeen`; but
its body does not parse (`cut`), the offset passes it, and the tail, which the next read begins with, names no call. A GIN line names its call only when it is whole.
A record is the set of lines folded into it, with
the line that dated it and the last one read; which fields those lines fill is not modelled. `DayOf` is the day file of a version, from the
first line folded into it. The sizes the high-water mark compares are line counts. The age sweep may use any
cutoff, since `SPOOL_KEEP_MIN` can stand in any relation to the files' times.

Not in the model: directories that cannot be listed or files that cannot be unlinked (a `drop` that fails leaves its
file for the next pass, which is a pass with an earlier cutoff); anyone but the viewer truncating a file, so that the
`from > size` branch of `once` is there but never taken; a New API without `O_APPEND`.

### Archive and RecordStore

| state | code |
|---|---|
| `data`, `index`, `pool`, `poolIndex` | the four files of each day |
| `synced` | how far each was fsynced: what a power cut must leave |
| `open` | the fields of `archive`: day, `off`, `blobOff`, `blobs`, `rids` (`loaded`: not nil) |
| `job` | where each process is in an append |
| `acked`, `spoiled`, `kept`, and `behind`, `clean`, `sound` | history |

An append is `Begin` (or `BeginFails`), then for a value not yet in the pool `WriteBlob`, `SyncBlob`, then
`WriteMember`, `SyncMember`, `WriteEntry`, `SyncEntry`, each with its failing form: a failed write leaves nothing or a part, a
failed sync everything. `a.mu` makes a process's appends exclude each other; `Kill` ends one process at any point, its writes
stay in the files; `PowerCut` ends all of them and takes any unsynced suffix of the files of a day, leaving a torn line in an
index if `"tear"` is in `Faults`. A gzip member is two cells, so that a part of it can be left; an index line is whole,
torn, or garbage (two lines glued). Reading is modelled by what it does: `Entries` are the lines that parse, `Fetched`
the record at an entry's offset with its lifted value, if both read back.

`RecordStore` says: each day is a list of records in order of their places; storing adds one at the end; an
acknowledgement is for an id the list shows; a crash may cut the end of each list, never an
acknowledged id. `Archive` implements it with `shown` as the records a reader finds, through index, record file and pool
(`Shown`), and `acked` as those of its acknowledgements whose entry was written at a right offset and not behind a torn line
(`kept`): section 5 shows why these two must be excepted.

### PushLink

| state | code |
|---|---|
| `unread`, `ready`, `queue` | records in the spool, `pending` that are finished, and the sorted slice `flushPush` works off |
| `sending`, `fails`, `delay`, `due` | the request `send` waits for; `fails` and `nextTry` of `pusher`, the latter as the delay it was set with and whether it has passed |
| `request` | each HTTP request alive: on its way, in its handler (how many records the body holds whole, how many are handled, the two counts), answered, or lost |
| `index`, `torn` | the lines of the day's index at the receiver, each an id or one that cannot be parsed, and whether the last one has no end |
| `durable`, `ids`, `stored` | how many of these lines are synced, `archive.rids`, `receiveStats.stored` |
| `faults`, `poison` | the faults so far; the records the receiver can never store |
| `acked`, `syncFailed`, `swallowed`, `landed` | history |

`BeginPass` is `once` as far as the link sees it. `SendBatch`, `GiveUp` (the client's timeout), `ProxyAnswers`, `Answer`,
`Wait` and `RestartSender` are the sender; `Accept`, `Refuse`, `Duplicate`, `Store`, `AppendFails`, `SyncFails`,
`EndOfBody` and `RestartReceiver` the receiver. A batch is any prefix of the queue up to `MaxBatch` records, since `pushMaxBytes`
may cut it anywhere. An append that fails leaves the index as it is or with part of a line (`TearLine`); the next entry ends that line and is lost in it (`WriteEntry`).
`RestartReceiver` is a kill, which keeps the files, or a `PowerCut`, which may take any lines not synced and may cut in the middle of one. After `GiveUp` the request lives on, and its handler may run beside that of the retry.
A body cut between two records looks to the decoder like its end; `Accept` chooses how much of it arrives.

### Requests

| state | code |
|---|---|
| `pc`, `tok`, `answer`, `spent` | where a request is between `check`, `verify`, `put` and `refresh`; its token, what New API said, ticks since it asked |
| `cache` | `authCache.m`: the verdict and what is left of its lifetime |
| `holder`, `names`, `fetched`, `tried` | `fetchMu`, whether there are names, and the ages of the two times of `channelResolver` |
| `valid`, `since`, `changes` | New API's opinion of each token and for how long it has had it |
| `calm`, `snapshot`, `failed` | history |

Time is counted in ticks (`Tick`), not beyond the timeout of a call under way. Ages stop growing where they no longer make
a difference. Waiting for `fetchMu` has no bound in the code and none here. A request handles one token and asks for names
once; which names are in a list is not modelled.

### Parser

`left` is what New API has written of a call and the parser has not read, `rec` the record, `dirty` whether lines were read since
`finalize`; `lines` is history. `Read` is `handleLine`, `Miss` a line that is never read (the head
of a call after a restart, a line over the limit), `EndPass` is `finalize`, `Stall` the deadline of `ingest.go:214-217`. The
operators carry the names of the functions: `add`, `addWhole`, `applyAnthropic`, `toUsage`, `Merged`, `finalize`,
`refreshOutcome`, `fragmented`, `trimReread`, `repairRecord`.

A text and the arguments of a tool call are sequences of the pieces they came in; which sequences parse as a value is a constant.
Visible text stands for reasoning text as well, and a call's name for its id and type, which are treated alike. Fields a line just
sets are left out, and so is how a line is recognised and its JSON decoded.

### Query and Stats

Both are stateless in the code and operators here, over `arc` (day to sequence of entries). An entry is a record, whether it can be
read back, and the age of its index line, on which the outcome and token fields depend. `Wall` gives the local clock of each hour; an hour that
is repeated when summer time ends is two hours with one clock reading, so days have different lengths, as `time.Date` and `AddDate`
have it. `eachMatch`, `daysInRange`, `matchIndex`, `candidates`, `searchWindow`, `items`, `get`, `earliest`, `resolveRange`,
`granularityFor`, `timeline`, `bucketKey`, the three breakdowns and `folded` follow the functions of
`query.go`, `archive.go`, `server.go` and `stats.go`. All amounts `stats.go` sums are summed alike; `quota` stands for them.

### Maintenance

| state | code |
|---|---|
| `arc` | the archive, as its readers see it |
| `job` | the command running: its days left, the index of the current day as it was read, how much is done, the ids of `AppendNew` once loaded, the temporary file of `-reindex` |
| `arrived`, `rot` | what the viewer has appended meanwhile; how many records became unreadable |
| `completed` | history: the day a command has just ended well |

`Begin`, one action a command for a record (`RepairOne`, `ReindexOne`, `ImportOne`, `ReingestOne`), `EndDay` and `Stop`, which is a kill or
an error, anywhere. `-repair` and `-reindex` exclude the viewer, as their documentation asks (`README.md:233`); `-import` and `-reingest` run beside `Arrive`.
An append is one step at the right place: that it is not when two processes do it is the subject of `archive_import`.

## 3. Runs

| run | instance | faults | shows |
|---|---|---|---|
| `ingest_local` | 2 calls of 2 lines (billing before its trailing chunk; a failed request with its GIN line), 2 files, mark of 1 line | appends that leave part of an entry, failing truncates | nothing lost but what is written behind a partial entry, duplicates only from the stat/read race, complete records, the file New API has open stays but for one case, dated by the head |
| `ingest_restart` | 1 call of 2 lines, 2 files, mark of 1 line, 1 kill | failing opens, half-written lines, appends that fail before their entry, or after it (once) | nothing lost across a restart, a version a life and one for the late failure; liveness |
| `ingest_push` | 2 calls, batches of 1, one call of the next day, 1 file, mark of 1 line, 1 kill | refused, cut and unanswered pushes, some with part of an entry left at the receiver | a hold has something to retry; nothing lost |
| `archive` | 2 versions of a call and a call of the next day, sharing a lifted value; 3 appends by either path | every fault, 1 kill or power cut | entries resolve, acknowledged records stay visible, no duplicates through `AppendNew`, `RecordStore` |
| `push_link` | 2 records in batches of 1 or 2, 2 requests alive at once; the younger can be stored, or never; delays of 2, then 3 | any 3 of: refusal, cut body, lost request or answer, timeout, foreign answer, append that writes nothing or part of a line, failed sync, restart of the sender, kill or power cut of the receiver | forgotten is stored, with two exceptions; stored once; the delay is bounded; the link drains when faults end, or at least what is older than a record that cannot be stored |
| `requests` | 2 requests, 2 tokens, lifetimes and timeouts of 1 and 2 ticks, a cache that overflows at the second entry, 2 changes of tokens | calls to New API that are slow or fail | verdicts and names are no older than promised; one fetch at a time, none before its delay |
| `reading` | 3 days of 2 hours, one hour repeated; 5 calls in 7 records, 2 arriving meanwhile; 12 filters, pages of 1 and 2 | commands stopped anywhere, 1 record that becomes unreadable | nothing lost, completed means done, and list, detail view and statistics agree about every archive on the way |
| `parser` | 9 calls, of every wire, two of them with chunks behind their billing line | any line missing, every split into passes, the stall deadline | the record is that of one pass (its usage, for lines in order) and says what the lines said; `-reindex` and `-repair` leave it alone, `-repair` restores a damaged one |

Four more runs expect a violation (section 5): `ingest_huge`, `ingest_unlink`, `archive_stale`, `archive_import`.

Why these bounds are enough for the cases meant:

* Ingester: two lines a call give a head and a tail that different passes, files or lives read; two calls make one finish while the
  other runs and put two records in a flush or a queue; two files give an older consumed one, an unread one and a live one, and a truncate that
  reverses their order; a mark of one line makes both sweeps and the truncation happen; one kill is every placement of a restart, and versions add up by one a restart and one a late failure (`MaxLate`).
  Faults are divided between the runs, each with the questions they could upset; the theorems (section 4) are about all of them at once.
* Archive: two appends are a record and the one that follows its fault, and the third may come after a crash, from a day reopened, or
  in another day. Recovery only reads the files, and a second kill finds a state of the same form (`MaxCrash = 2` gives the same
  results in `archive`, and takes longer).
* `push_link`: two records are a batch of two, two batches of one, and an older and a younger one; two slots are a request
  the sender gave up on and its retry; three faults are, for instance, a timeout, a failed sync and a power cut, the longest
  story any exception in the properties is about. Delays of 2 and 3 are the first one and the clipped one; without the
  cap (`ShiftCap`) the third would be a shift that no longer fits.
* `requests`: two requests race for one token, for the fetch lock and into the cache; with lifetimes that differ from one another by one
  tick, an answer can be late by each of the sums in the properties. Requests and tokens are symmetric, and no temporal property under fairness is checked.
* `reading`: the second day has the repeated hour; the records are one damaged, one from before the index had outcomes and tokens, one without a time,
  one in two versions, and one that two archives bring. Three entries a day let a call have a version more than it was given.
  The pages are checked between commands, which loses nothing since a command can begin and stop in any state.
* `parser`: each script has what one wire can do to the accumulators: fragments with and without an index, the name repeated, two calls
  mixed, whole calls, blocks, counts in several chunks, details without a count, errors, chunks that are not understood, a request line sent twice, text and usage behind the billing line.
  One of the argument values is a string a part of which may be there twice, with which it still parses.

`CHECK_DEADLOCK FALSE` is set where the system may stop: an archive nobody appends to, a link with everything delivered,
a call read to its end.

Each property of a passing run is checked to fail on a mutant of a mapped definition, listed in `PROJECT.json`: for
instance, unread files swept, an offset forgotten, a failed append that forgets its record, a sync left out, duplicates not
counted in the answer, a verdict that never expires, a second test under the lock left out, an index written in place, the first version of
an id taken for the last, argument fragments appended instead of joined. The definitions named in comments as *variant* exist for that only.

### Fairness

`ingest_restart` checks `PendingDrains` and `SpoolReclaimed` under `FairSpec`:

* `WF_vars(Once)`: `Run` calls `once` on every tick and `once` has no unbounded wait of its own;
* `SF_vars(Wait(2))`: time passes. It is strong because in a running pass the clock is looked at only at some steps;
* `SF_vars` of `AppendRecord(c)` and `Truncate`: a call tried again for ever succeeds at some point. Without it no retry loop ends, and the code promises
  nothing for a disk that stays full.

New API and `Crash` are under no fairness. The two properties are about archiving on this machine; what ends a hold in push mode is checked in `push_link`.

`push_link` checks `Drains` and `OlderArrive` under its `FairSpec`, weak fairness only: `Pass` (the loop ticks), `Wait` (the delay is at
most `BackoffMax`), `GiveUp` (the client has a timeout), `Send`, `Handle` and `Answer` (a handler and a reply under way go on). Faults and
restarts are under no fairness and at most `MaxFaults`, so the properties say what happens when they end.

## 4. Proved

Every safety property a passing run checks is a theorem here, but for `RepairRestores`: for every value of the constants that the
`ASSUME`s of the modules allow, and for the few more assumptions named below. The theorems about a state machine rest on inductive invariants,
checked with TLC before they were proved, and on one lemma for each action or group of actions; those about the pages on lemmas about operators.

`IngesterProofs.tla`, for every set of calls, script, number of files and kills, bound, mode and fault set:

* `TypeCorrect`: `Spec => []TypeOK`. `TypeOK` is not inductive; `TypeInv` adds that no file in the directory is younger than the one New API has open (`NewestLive`)
  and how the phases use their variables (`PassState`: a listing is empty between passes and not empty when it is swept, the current file
  is in the directory, the size of a stat is at most the file's). The choice operators
  (`Oldest`, `Newest`) need that a nonempty set of naturals has a least and a finite one a largest element, proved
  in `SetFacts` from the well-foundedness theorems of the library.
* `OpenFileKept`: `Spec => []LiveFileKept`. `TimeInv` says what modification times do tell: no two files share one (`Apart`); of two files the older one, unless it is empty, was written earlier (`WrittenInOrder`);
  and the file New API has open is in the directory and the newest, in the listing too, unless a truncate overtook it (`LiveLast`). That last case is not vacuous: `ingest_unlink` shows the file unlinked in it.
* `NoSilentLoss`: `Spec => []LineAccounted`. The inductive invariant is `FileInv /\ LineAccounted` with
  `OffsetBound` (an offset is within its file, except between a truncate and the stat after it) and `WindowKnown` (a read
  resumes at or before the size of its stat; in `truncateLive` every line beyond the offset was logged since it began). They are needed because a step that advances an offset
  or empties a file keeps a line accounted for only if what lies before the offset was read, and what lies beyond it is either unread or in the
  window the code concedes. No order of the files is needed for it: the sweeps look at the offset of each file they remove. One lemma per group of steps shows that
  a line accounted for before the step is so after it (`Keeps`); a new line is accounted for because it is at the end of
  the live file, beyond its offset, or that file is gone. The theorem is the claim the comments of `ingest.go` make in many places ("must not silently drop the
  call", "dropping them would lose calls"), with its exceptions. The code concedes: lines logged inside `truncateLive` (`windowed`), lines only memory had when
  the process was killed (`gone`), records dropped as not worth keeping or already written (`dismissed`). It does not know of: lines an offset went past without a read
  folding them (`skipped`), lines logged to a file that had been unlinked (`orphaned`), and the lines of a version whose entry was written behind part of another one (`swallowed`). A line "stored" is in a version
  whose entry parses; whether its record can be read is `CleanEntriesResolve` of `Archive`.

About the versions of calls, in the same module and for the same constants: the invariant `VersionInv` joins `FileInv` and `TimeInv` with: the lines of a call
lie in the spool in the order they were logged, oldest file first (`SpoolOrder`); a pass visits the files in the order of its listing and leaves nothing unread in one that is older than another of it (`VisitOrder`, which
needs `WrittenInOrder`: a file that a truncate moved to the end of the listing is empty but for what was logged since);
a line both held and still ahead of the reader was logged between a stat and its read (`HeldRaced`); what dates a record is before all that
is in it and all that is still to be read (`Dated`); a record waiting to be pushed is wanted (`Queue`), and where the spool is held there is one (`Hold`).

* `TwiceOnlyRaced`, `HeadDates`, `HoldNeverEmpty`: `Spec => []RefoldOnlyRaced`, `[]DatedByHead`, `[]HoldHasWork`.
* `OncePerLife`, `GinCompletes`: `Spec => []OneVersionPerLife`, `Spec => []CompleteOnGin`, both under `IdsFit`, that `archivedCap` (50000) is no less than the number of calls. Without it the
  theorem would be false: `Remember` throws the whole set of ids away when it grows past the cap, and a late tail of a call written before is then one more version, without its
  head. `OncePerLife` counts one version a life and one for each append that failed after its entry (`late`). In between `OnceEach` says that a call that has all the versions it may have is among the ids, or is still pending and
  in the index of the receiver since the answer to its push was lost; `NoGap` that until the process takes it to be stored a record has every earlier line of its call whole (`Whole`: not of the lines read in half), and every line of the versions failed
  appends have left of it.

`ArchiveProofs.tla`, for any days, records, values, tries and crashes:

* `TypeCorrect`, `AckedStaysVisible`: `Spec => []TypeOK`, `Spec => []AckedVisible`, for any number of processes. An offset lies within its file and what is handed out within what
  is synced of it (`Within`), pointers between the files of a day point at synced cells (`Linked`), and a record about to be acknowledged has its line (`Promised`).
* `EntriesReadBack`, `NewOnlyOnce`: `Spec => []CleanEntriesResolve`, `Spec => []NewNeverDuplicates`, assuming `OneWriter`. With two the first is false at once:
  that is `archive_import` (section 5). While no failed step went past it, the offset is the end of the file (`AtEnd`), so that a member lies where its entry says (`EntriesSound`) and a pointer
  points at its value unless the pool of that day was spoiled (`PoolSound`); the ids in memory miss none of the day's (`RidsSound`).
* `KeepsRecords`: `Spec => ImplementsStore`, assuming `OneWriter`: the initial state maps to the initial state of `RecordStore`, and every step to one of its actions
  or a stutter. Most steps do not change what is shown, for files only grow at their end; `WriteEntry` is `Store`, `SyncEntry` `Acknowledge`, `PowerCut` `Lose`.

`PushLinkProofs.tla`, for any number of records, of requests alive at once and of faults, and any batch size:

* `NothingForgotten`: `Spec => []ForgottenIsStored`. The sender only sees two counts, so the invariant has to follow what they mean: what a
  request has handled is in the index, is an entry whose sync failed, or became part of a torn line (`Safe`), and its counts add up to what it handled (`Accounts`); the ids in memory know the
  whole index and nothing but these (`IdsAgree`); every line behind the synced part is a failed sync or one that does not parse (`Unsynced`), which is what a power cut may take.
* `NoCallTwice`: `Spec => []NoneTwice`, from `IdsAgree`; with `CountsAgree`, that the counter of the receiver and those of the requests at work sum to what landed,
  `EachStoredOnce`: `Spec => []StoredOnce`.
* `TypeCorrect`: `Spec => []TypeOK`, which no run checks, since `BackoffGrows` and the proof say more. `DelayNeverShrinks`: `Spec => BackoffGrows`; the delay is a recursive function of the number of failures (`Doubled`), and is shown by induction to
  grow up to the cap of the shift.

`RequestsProofs.tla`, for any number of requests and tokens, any lifetimes, timeouts and cap:

* `TypeCorrect`: `Spec => []TypeOK`, with the bound on the cache, by cardinalities.
* `Revocation`, `Refusal`: `Spec => []RevocationHolds`, `Spec => []RefusalPasses`. The invariant says how far behind an answer in hand can be (`InHand`: the time its call has taken) and
  one in the cache (`InCache`: the timeout, and what it has used of its lifetime). A call cannot outlast its timeout (`InTime`).
* `OneFetchAtATime`: `Spec => NoStampede`, since whoever fetches holds the lock (`Exclusive`) and tests again under it.
* `CurrentNames`: `Spec => NamesAreCurrent`, from the relation between the ages of the list, of its fetch and of the last try (`ListAge`).

`MaintenanceProofs.tla`, for every calendar, archive, source and set of arriving records:

* `TypeCorrect`: `Spec => []TypeOK`.
* `NoCommandLoses`: `Spec => NothingLost`. For `-reindex`, the only command that replaces a file, because what it rebuilds is in step with the index it read, and no other command or viewer runs (`Listed`, `Reindexing`).
* `AddsOnlyMissing`: `Spec => AddsOnlyWhatIsMissing`. For `-import`, what its `AppendNew` knows of the day and what arrived are together all ids of the day (`Importing`); for `-repair`, entries behind those listed are
  corrections of other calls, so the version that is damaged is still the one shown (`Repairing`).
* `DoneWhenCompleted`: `Spec => []CompletedMeansDone`. Each command has done what it promises to the part of the list behind it, whatever rots or arrives; at the end of the day that is all of it.

About the pages, in the same module, for every archive the commands and the viewer leave, whatever the calendar, filters, page sizes and limits: the invariant is that of the commands
(`Typed`: each entry is in the file of its day); the rest is about operators.

* `RangesHold`: `Spec => []RangeLosesNothing`. An hour is at or after the midnight of a day exactly when its own day is that day or a later one (`MidnightSeparates`), whatever hours the clock repeats or skips;
  so the day files read are those a range touches (`DayIsRead`).
* `RowsOpen`: `Spec => []GetAgrees`. `PagesShowAll`: `Spec => []PagesCover`, since the order of the list is total on its rows and sorting by it gives each row one place (`Ranks`), and the
  pages divide the places.
* `TwoPagesAgree`: `Spec => []ViewsAgree`, from what each filter keeps of one and the same set of entries.
* `NothingUncounted`: `Spec => []BreakdownsAddUp`. A sum over a finite set is the sum over its parts (`SumFibres`), so the rows of a breakdown in any order, cut anywhere, sum to the totals
  (`BreakdownSums`), and so do the hours and the weekdays. A timeline by days or weeks shows the day of each entry once, and one by hours each hour that passed (`SteppedAxis`, `HourlyAxis`), for an entry whose
  hour is within the bounds (`CountedAt`).

They assume of the constants, beyond their types: days and hours are numbered in order, an entry's clock is that of its time (`CalendarAssumption`); the calendar has the times that are asked
for and a page has a row (`RangeAssumption`); the names of rows compare as distinct strings do (`NamesAssumption`). All are evaluated by the run `reading`.

Sorting is written with ranks (`Sorted`: the k-th row is the one with k - 1 before it), which is what any correct sort returns for a total order and can be reasoned about without
induction over sequences. Sums are the folds of the community modules over finite sets; what the proofs use of them (`SumParts`, `SumFibres`, `SumOnes`) is derived in `SetFacts` from the recursive
function behind the fold, which takes the members out one by one.

`ParserProofs.tla`, for any calls (sequences of lines of any wire, any of them never read), any cut of them into passes, any stalls in between, any number of samples and set of argument values:

* `Inductive`: `Spec => []IInv`. `Raw` is the record of one pass over the lines read, not yet finalized. The chunks a pass has not folded yet, folded onto what earlier passes
  left, end where those of `Raw` do: text, joined calls, whether anything streamed (`PassInv`). This is what dropping the chunks after a pass is right by, and why the accumulators
  have to outlive it. For the usage it is not true as it stands, since `finalize` falls back to the response and to the billing line when the chunks had none, and the next pass goes on from the
  fallback: `UsageInv` says that the two differ only where no later line can contradict the fallback, provided the lines read are in order (`InOrder`, below). `CleanInv` is what holds between passes.
* `OnePassAlways`: `Spec => []OnePass`, which is about all fields for any lines, but about the usage only for lines in order. A pass derives the fields from the ends of the accumulators and from fields the lines merely set, and those are equal.
* `LinesKeptAlways`: `Spec => []LinesAreKept`. `KeptInv` relates the folds over chunks and lines to what was sent: fragments under one index make one call, with the last name and all arguments
  (`FragsListed`), an Anthropic block starts again at its opener (`EventsListed`), and whole calls take the indexes 0, 1, 2 and so on (`WholeListed`), since the next free one is above all in use. `ReportInv`
  says that a usage merged of any number of reports has the largest prompt and the last of each other count (`SaysMore`), of details also the one that has no count in its struct.
* `ReindexKeepsAlways`: `Spec => []ReindexKeeps`. What is not archived, that there was a billing line, is only needed where its body was cut (`BilledInv`).
* `RepairKeepsAlways`: `Spec => []RepairKeeps`. The calls of a record have one index each, so joining them again makes no fewer of them (`JoinedApart`), whether they look like fragments or not.

They assume (`ParserAssumption`) that counts are naturals, but for details whose struct is there without its count (`Blank`, on the OpenAI wire), and that a line is of one of the kinds the code tells apart; no order of the lines
is assumed. `InOrder`, a hypothesis on the lines read where the usage is concerned, says that no chunk comes after the body of a reply that reports usage (New API logs a whole body only for a call that does not
stream), and after a billing line that reports usage neither another nor a chunk with usage. Chunks do trail the billing line (`ingest.go:195-203`), and a usage chunk may be among them: section 5 says what the record then has.
All of it is evaluated by the run `parser`. An unread line takes nothing from the order of the others, so a call whose head was lost is included.

Folds over sequences (`SequencesExt!FoldLeft`) are written in the community modules as a recursive function on sets of positions. `FoldFacts` proves of that function that it exists, that a last member is
folded in last (`FoldAppend`), what that keeps (`FoldType`) and that two sequences can be folded one after the other (`FoldConcat`), for a constant operator; an instance of it for each operator of the parser is what stands for
the induction over the lines. Its lemmas take as a hypothesis that a nonempty set of naturals has a least member, since an instance would repeat every library module it
extends; `ParserProofs` discharges it with `SetFacts!LeastIn`.

Only model-checked:

* `RepairRestores`: for an arbitrary set of argument values it is false (cutting back to a value may stop at a shorter one that parses too, and a stretch may be there twice by chance), so
  it is a statement about the values of the instance. Of these one is a string that still parses with a part of it there twice, which `-repair` leaves alone (`Restored`; `repair_test.go:408-410`);
* `PendingDrains`, `SpoolReclaimed`, `Drains`, `OlderArrive`: liveness under fairness, which needs `ENABLED`, out of the prover's reach;
* the four statements that do not hold (section 5), for which there is nothing to prove.

## 5. Statements of the repository that do not hold

Four runs expect a violation; each checks one sentence of the repository.

* `ingest_huge` (`OnlyHugeSkipped`): a line over `maxEntry` stops the scanner; everything after it in the file is passed over.
* `ingest_unlink` (`LiveNeverDeleted`): `prune` takes the last file by modification time for the one New API is writing. If New API opens a new file while a pass works on the one before, the truncate of that one makes it the
  newest, and the age sweep of a later pass unlinks the new file if nothing was logged to it for `SPOOL_KEEP_MIN`. New API keeps writing to it, and what it writes is lost.
* `archive_stale` (`EntriesResolve`): after a failed sync or index write the offset in memory is behind the file, and the next entry points at the member left behind. The same holds for the pool, where the wrong pointer is also persisted.
* `archive_import` (`EntriesResolve`, two processes, no fault): an import into the archive a viewer is appending to makes entries of both point at wrong offsets.

In the model of the archive all members have one length, so a stale offset always lands on the start of a member and reads another call's body; with
real lengths it may also cut one and be an error. Both violate the property.

More are exceptions inside properties that hold, so that the property shows them to be the only ones:

* lines logged between the stat and the read of a file are folded twice (`raced` in `RefoldOnlyRaced`);
* the pass whose push fails still prunes, and passes before it have pruned what is still unacknowledged, so a kill then loses records that `ingest.go:130-136` takes to be in the spool still (`gone` in `LineAccounted`);
* an append that fails in `idx.Sync` has written its entry; the record stays pending and the retry writes it again, although `ingest.go:56` says of `archived` "so a retry cannot double-write" (`late` in `OneVersionPerLife`);
* after a short write of the index, or a power cut that tore it, the first new entry becomes part of the torn line. Its append returns nil and, on a receiver, is acknowledged, but no reader finds it
  (`kept` in `AckedVisible`, `swallowed` in `ForgottenIsStored` and `LineAccounted`), where `README.md:299-301` calls the transport one "that never loses a record";
* a usage chunk that trails the billing line: if a pass ends between the two, billing's counts have been taken as the usage (`logparse.go:1417`) and the chunk's are merged onto them, with the larger prompt of both; in one pass the
  chunk alone counts (`InOrder` in `OnePass`), where `ingest.go:199-203` says that waiting for trailing chunks makes the record correct;
* `-repair` counts the messages and tools of a healthy Gemini record again without `fromGemini` and the declared functions (`repair.go:273`), and stores it again with counts of zero
  (`GeminiRequest` in `RepairKeeps`), where `repair_test.go:51-53` says that a whole record "must be left exactly alone".

Met while reading, and modelled as the code has it:

* `stats.go:336`: on a day with a repeated hour the hourly axis has one label twice, so that hour's bar is drawn twice. `OnTheAxis` allows that much.
* `reingest.go:43-44`: the comment says running it again does not stack duplicates; it stores every call of its source again. Readers show the last version, so nothing shown changes.
* `stats.go:694-696`: the comment puts the upstream host before the bare id; a call with a channel id unknown to the resolver is shown under its id.
* `query.go:193`: the search window also applies where the filter has a lower bound, if that is older.
* `import.go`: a call whose newest version cannot be read is skipped, also if an older version can. Beside the viewer, an import may add a call that arrived after
  it opened the day, as a newer version (`Overtaken` in `AddsOnlyWhatIsMissing`).
* `reindex.go`: for a record written before outcomes were stored, the index of a rebuilt day has one and the detail view has none.
* `query.go:220`: the list shows the newest version by its index line; if its body cannot be read the detail view opens an older one (`GetAgrees` says never a newer one).

## 6. Reading the exceptions

`LineAccounted` and `CleanEntriesResolve` except what history variables record. So that they are not exceptions for everything: `windowed` and `raced` grow only
by lines logged in the named window, `gone` only by lines that are in no file at the time of the kill, `skipped` only in a
read that could not open, hit a half-written last line or a line over the limit, `orphaned` only by lines logged to a file a sweep has unlinked, which by `LiveFileKept` takes an `overtaken` one, `overtaken` only by a truncate
of a file that is no longer the live one, `late` only by an append that failed after its entry, `swallowed` only by an entry written to an index that ends in part of one, `behind` only by a failed sync or index write and it is cleared when the offset is
taken from the file again.

In `ForgottenIsStored` the exceptions are `syncFailed`, a record whose entry was written and whose sync returned an error, which the receiver then answers as a
duplicate, and `swallowed`, a record whose entry was written behind a torn line. `OnePass` and `LinesAreKept` except the usage, and nothing else, of lines that are not `InOrder`; the runs have a call of that kind. `RepairRestores` excepts arguments that still parse. `RefusalPasses` excepts the time after a failed call to New API (`calm`), since a failure is remembered as a refusal; `NamesAreCurrent` the time after a failed fetch (`failed`).
`CompletedMeansDone` excepts records that cannot be read (for `-repair` and `-import`, which pass over them) and, for `-reingest`, records the viewer stored behind what was reingested.
`GetAgrees` is about calls in one day only, which `query.go:71-74` takes for granted; a restart near midnight can break that, see the hazard at `ingest.go:245`.

## 7. Not modelled

* File ownership (`owner_unix.go`), configuration, start-up and routing, the page: no state of the program depends on them, or they are constants of the modules.
* `entrypoint.sh`: the supervision of the two services in the combined container is shell code outside the viewer.
* `health`: a function of fields that `Ingester` has in part (failures, holds) and of clocks it abstracts; it changes nothing.
* `splitRequest` and `joinRequest` beyond one lifted value a record; the wording and layout of fields; JSON decoding and how `scanEntries` recognises a line (`Ingester` has the effects
  of lines that are half written, too long, or without a prefix).
* The bounds of the search in `trimReread` (4 KB, 512 candidates), and a record without any time, which goes to the file of the day it is written.
* Two spool files with the same modification time, and a clock that is set back.
* `prune` where a directory cannot be listed or a file not unlinked (a `drop` that fails leaves its file for the next pass); a New API without `O_APPEND`.

Worth proving next: of `Parser`, under what condition on the argument values `RepairRestores` holds; of `Archive` with two processes, which of the statements
about one remain for days that only one of them has open.
