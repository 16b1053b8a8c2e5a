------------------------------ MODULE PushLink ------------------------------
(***************************************************************************)
(* Push mode between two pods (push.go, receive.go, flushPush): the sender *)
(* posts batches of finished records, one request at a time, and forgets a *)
(* batch when the receiver accounts for all of it; the receiver handles    *)
(* every request on its own, so a request the sender gave up on may still  *)
(* be running when its retry arrives.  Ingester models what the sender     *)
(* reads and Archive what an append writes; here both are one step, and    *)
(* the link, the two processes and the power of the receiver fail.         *)
(*                                                                         *)
(* Records are numbered in the order of their Epoch.  Bounds: MaxFaults    *)
(* faults in all, after which link, disk and processes work again;         *)
(* Slot, the requests alive at once; fails is counted up to MaxFails.      *)
(***************************************************************************)
EXTENDS Integers, Sequences, FiniteSets, Functions

CONSTANTS
  Records,     \* finished records, of one day
  Slot,        \* requests alive at once
  None,
  MaxBatch,    \* pushMaxRecords
  BackoffMin, BackoffMax,
  ShiftCap,    \* the most the delay is doubled
  Doublings,   \* doublings of BackoffMin that still fit a Duration
  Unstorable,  \* records an instance may make the receiver unable to store
  MaxFaults, MaxFails

ASSUME PushAssumption ==
  /\ Records \subseteq Nat \ {0} /\ IsFiniteSet(Records)
  /\ IsFiniteSet(Slot) /\ None \notin Slot \cup Records
  /\ MaxBatch \in Nat \ {0} /\ BackoffMin \in Nat \ {0}
  /\ BackoffMax \in Nat /\ BackoffMin <= BackoffMax
  /\ ShiftCap \in Nat /\ Doublings \in Nat /\ ShiftCap <= Doublings
  /\ Unstorable \subseteq Records /\ MaxFaults \in Nat /\ MaxFails \in Nat \ {0}

VARIABLES
  \* sender
  unread,    \* records whose lines were not read yet
  ready,     \* finished records in memory (pending)
  queue,     \* what is left of them in the flush under way
  sending,   \* the request the sender waits for
  fails, delay, due, \* pusher: fails; nextTry as its distance when set, and whether it is past
  \* receiver
  request,   \* the requests alive
  index,     \* the lines of the day's index, in order: ids, or None for one that
             \* cannot be parsed
  torn,      \* the last line has no end, and the next one written becomes part of it
  durable,   \* how many of them are synced
  ids,       \* archive.rids, or {None} when not loaded
  stored,    \* receiveStats.stored
  \* the world
  faults, poison,
  acked,      \* history: records some acknowledged batch held
  syncFailed, \* history: records whose entry was written and not synced
  swallowed,  \* history: records whose entry became part of a torn line
  landed      \* history: appends that returned true since the receiver started

sender == <<unread, ready, queue, sending, fails, delay, due>>
receiver == <<index, torn, durable, ids, stored>>
history == <<acked, syncFailed, swallowed, landed>>
vars == <<sender, request, receiver, faults, poison, history>>

Free == [pc |-> "free", batch |-> <<>>, whole |-> 0, done |-> 0, stored |-> 0,
         dup |-> 0, ok |-> FALSE]
(* `whole' is how many records of the body can be read. *)
Request ==
  [pc : {"free", "transit", "working", "answered", "lost"},
   batch : Seq(Records), whole : Nat, done : Nat, stored : Nat, dup : Nat,
   ok : BOOLEAN]

Init ==
  /\ unread = Records /\ ready = {} /\ queue = <<>> /\ sending = None
  /\ fails = 0 /\ delay = 0 /\ due = TRUE
  /\ request = [s \in Slot |-> Free]
  /\ index = <<>> /\ torn = FALSE /\ durable = 0 /\ ids = {None} /\ stored = 0
  /\ faults = 0 /\ poison \in {{}, Unstorable}
  /\ acked = {} /\ syncFailed = {} /\ swallowed = {} /\ landed = 0

(* One of the faults this run has left. *)
Fault == faults < MaxFaults /\ faults' = faults + 1

-----------------------------------------------------------------------------
(* The sender. *)

failing == fails > 0

(* The sort of flushPush; the variant sends the newest first. *)
Orders(S) == [1..Cardinality(S) -> S]
NewestFirst(S) == {q \in Orders(S) : \A i, j \in DOMAIN q : i < j => q[i] > q[j]}
Sorted(S) == {q \in Orders(S) : \A i, j \in DOMAIN q : i < j => q[i] < q[j]}

(* once: read, unless a push is failing, and flush what is finished if the  *)
(* backoff is over.  What prune does to the spool is Ingester's; here a     *)
(* restart may find any of it again.                                        *)
BeginPass(S) ==
  /\ queue = <<>> /\ sending = None
  /\ S \subseteq unread /\ (failing => S = {})
  /\ unread' = unread \ S
  /\ ready' = ready \cup S
  /\ queue' \in IF due THEN Sorted(ready') ELSE {<<>>}
  /\ UNCHANGED <<sending, fails, delay, due, request, receiver, faults, poison,
                 history>>

(* The oldest records, up to pushMaxRecords of them or, with large ones, to  *)
(* pushMaxBytes; never none.                                                *)
Batches == {SubSeq(queue, 1, n) : n \in {k \in 1..MaxBatch : k <= Len(queue)}}

FreeSlots == {s \in Slot : request[s].pc = "free"}

(* send posts a batch ... *)
SendBatch(s, batch) ==
  /\ queue # <<>> /\ sending = None /\ FreeSlots # {}
  /\ s = CHOOSE t \in FreeSlots : TRUE
  /\ sending' = s
  /\ request' = [request EXCEPT ![s] = [Free EXCEPT !.pc = "transit", !.batch = batch,
                                                    !.whole = Len(batch)]]
  /\ UNCHANGED <<unread, ready, queue, fails, delay, due, receiver, faults, poison,
                 history>>

(* The delay as the code computes it: BackoffMin shifted, that is doubled,  *)
(* k times; a shift past the width of a Duration leaves nothing of it.  The *)
(* variant has no cap.                                                      *)
Doubled[k \in 0..Doublings] == IF k = 0 THEN BackoffMin ELSE 2 * Doubled[k - 1]
Shifted(k) == IF k <= Doublings THEN Doubled[k] ELSE 0
Clipped(d) == IF d > BackoffMax THEN BackoffMax ELSE d
Uncapped(n) == Clipped(Shifted(n - 1))
Delay(n) == Clipped(Shifted(IF n - 1 < ShiftCap THEN n - 1 ELSE ShiftCap))

(* ... and takes anything but a full account of it for a failure, which     *)
(* ends the flush with everything left kept. *)
failed ==
  /\ fails' = IF fails < MaxFails THEN fails + 1 ELSE fails
  /\ delay' = Delay(fails')
  /\ due' = FALSE
  /\ sending' = None /\ queue' = <<>>
  /\ UNCHANGED <<unread, ready, acked>>

Members(batch) == {batch[i] : i \in DOMAIN batch}

succeeded(batch) ==
  /\ fails' = 0 /\ delay' = 0 /\ due' = TRUE
  /\ sending' = None
  /\ queue' = SubSeq(queue, Len(batch) + 1, Len(queue))
  /\ ready' = ready \ Members(batch)
  /\ acked' = acked \cup Members(batch)
  /\ UNCHANGED unread

(* The check at the end of send; the variants trust an answer that says it  *)
(* succeeded, and do not count duplicates.                                  *)
TrustsSuccess(r) == r.ok
StoredAll(r) == r.ok /\ r.stored = Len(r.batch)
Acknowledged(r) == r.ok /\ r.stored + r.dup = Len(r.batch)

(* The client's timeout, or a connection refused or reset. *)
GiveUp ==
  /\ sending # None
  /\ IF request[sending].pc = "lost" THEN faults' = faults ELSE Fault
  /\ request' = IF request[sending].pc = "lost"
                THEN [request EXCEPT ![sending] = Free] ELSE request
  /\ failed
  /\ UNCHANGED <<receiver, poison, syncFailed, swallowed, landed>>

(* Something on the way answers 200 with a page of its own. *)
ProxyAnswers ==
  /\ sending # None /\ request[sending].pc = "transit" /\ Fault
  /\ LET r == request[sending]
     IN IF Acknowledged(r) THEN succeeded(r.batch) ELSE failed
  /\ request' = [request EXCEPT ![sending] = Free]
  /\ UNCHANGED <<receiver, poison, syncFailed, swallowed, landed>>

(* An answer reaches the sender, or nobody when it no longer waits. *)
Answer(s) ==
  /\ request[s].pc = "answered"
  /\ IF sending # s THEN UNCHANGED <<sender, acked>>
     ELSE IF Acknowledged(request[s]) THEN succeeded(request[s].batch) ELSE failed
  /\ request' = [request EXCEPT ![s] = Free]
  /\ UNCHANGED <<receiver, faults, poison, syncFailed, swallowed, landed>>

Wait ==
  /\ ~due /\ due' = TRUE
  /\ UNCHANGED <<unread, ready, queue, sending, fails, delay, request, receiver, faults,
                 poison, history>>

(* Memory and offsets go; the spool is read again, and with it the records  *)
(* whose lines were not pruned yet, acknowledged ones as well.              *)
RestartSender(found) ==
  /\ Fault
  /\ found \subseteq ready \cup acked
  /\ unread' = unread \cup found /\ ready' = {} /\ queue' = <<>>
  /\ sending' = None /\ fails' = 0 /\ delay' = 0 /\ due' = TRUE
  /\ request' = [s \in Slot |-> IF request[s].pc = "lost" THEN Free ELSE request[s]]
  /\ UNCHANGED <<receiver, poison, history>>

-----------------------------------------------------------------------------
(* The receiver. *)

(* The request, or its answer, does not get through. *)
Lose(s) ==
  /\ request[s].pc \in {"transit", "answered"} /\ Fault
  /\ request' = [request EXCEPT ![s] = IF sending = s THEN [Free EXCEPT !.pc = "lost"]
                                       ELSE Free]
  /\ UNCHANGED <<sender, receiver, poison, history>>

(* receiveStats.add, then the reply. *)
Reply(s, ok) ==
  /\ stored' = stored + request[s].stored
  /\ request' = [request EXCEPT ![s].pc = "answered", ![s].ok = ok]

(* handlePush up to the decoder: wrong token or pod, or a body that cannot  *)
(* be opened, refuse the request; a body may end early.                     *)
Refuse(s) ==
  /\ request[s].pc = "transit" /\ Fault
  /\ Reply(s, FALSE)
  /\ UNCHANGED <<sender, index, torn, durable, ids, poison, history>>

Accept(s, n) ==
  /\ request[s].pc = "transit" /\ n \in 0..Len(request[s].batch)
  /\ IF n = Len(request[s].batch) THEN faults' = faults ELSE Fault
  /\ request' = [request EXCEPT ![s].pc = "working", ![s].whole = n]
  /\ UNCHANGED <<sender, receiver, poison, history>>

Decoding(s) == request[s].pc = "working" /\ request[s].done < request[s].whole
Current(s) == request[s].batch[request[s].done + 1]

(* ridsOf: the ids of the lines that parse. *)
Indexed == Members(index) \ {None}

(* archive.rids once loaded *)
Known == IF ids = {None} THEN Indexed ELSE ids

(* AppendNew, under the archive's mutex: already there, ... *)
Duplicate(s) ==
  /\ Decoding(s) /\ Current(s) \in Known
  /\ ids' = Known
  /\ request' = [request EXCEPT ![s].done = @ + 1, ![s].dup = @ + 1]
  /\ UNCHANGED <<sender, index, torn, durable, stored, faults, poison, history>>

(* The line of an entry, which ends a torn line if there is one. *)
WriteEntry(r) ==
  /\ torn' = FALSE
  /\ IF torn THEN swallowed' = swallowed \cup {r} /\ index' = index
     ELSE index' = Append(index, r) /\ swallowed' = swallowed

(* ... written and synced, ... *)
Store(s) ==
  /\ Decoding(s) /\ Current(s) \notin Known \cup poison
  /\ WriteEntry(Current(s))
  /\ durable' = Len(index')
  /\ ids' = Known \cup {Current(s)}
  /\ request' = [request EXCEPT ![s].done = @ + 1, ![s].stored = @ + 1]
  /\ landed' = landed + 1
  /\ UNCHANGED <<sender, stored, faults, poison, acked, syncFailed>>

(* A short write leaves part of a line, or adds to the one that is there. *)
TearLine ==
  /\ torn' = TRUE
  /\ index' = IF torn THEN index ELSE Append(index, None)

(* ... not written, or only in part, ... *)
AppendFails(s) ==
  /\ Decoding(s) /\ Current(s) \notin Known
  /\ \/ Current(s) \in poison /\ UNCHANGED <<faults, index, torn>>
     \/ Current(s) \notin poison /\ Fault /\ (UNCHANGED <<index, torn>> \/ TearLine)
  /\ ids' = Known
  /\ Reply(s, FALSE)
  /\ UNCHANGED <<sender, durable, poison, history>>

(* ... or written and not synced: an error, but the id is known from here   *)
(* on.  The variant remembers an id after the sync.                         *)
RememberLate(r) == Known
Remember(r) == Known \cup {r}
SyncFails(s) ==
  /\ Decoding(s) /\ Current(s) \notin Known \cup poison /\ Fault
  /\ WriteEntry(Current(s))
  /\ ids' = Remember(Current(s))
  /\ syncFailed' = syncFailed \cup {Current(s)}
  /\ Reply(s, FALSE)
  /\ UNCHANGED <<sender, durable, poison, acked, landed>>

(* The end of the body: all of it, a record cut in two, or a cut between    *)
(* two records, which the decoder cannot tell from the end.                 *)
EndOfBody(s, ok) ==
  /\ request[s].pc = "working" /\ request[s].done = request[s].whole
  /\ ~ok => request[s].whole < Len(request[s].batch)
  /\ Reply(s, ok)
  /\ UNCHANGED <<sender, index, torn, durable, ids, faults, poison, history>>

(* A power cut may take what was not synced, up to the end of a line or to  *)
(* the middle of one.                                                       *)
PowerCut(n) ==
  /\ n \in durable..Len(index)
  /\ \/ index' = SubSeq(index, 1, n) /\ torn' = (torn /\ n = Len(index))
     \/ n < Len(index) /\ index' = Append(SubSeq(index, 1, n), None) /\ torn' = TRUE
  /\ durable' = Len(index')

(* A kill keeps the files. *)
RestartReceiver(n) ==
  /\ Fault
  /\ PowerCut(n) \/ UNCHANGED <<index, torn, durable>>
  /\ ids' = {None} /\ stored' = 0 /\ landed' = 0
  /\ request' = [s \in Slot |->
                   IF request[s].pc \notin {"working", "answered"} THEN request[s]
                   ELSE IF sending = s THEN [Free EXCEPT !.pc = "lost"] ELSE Free]
  /\ UNCHANGED <<sender, poison, acked, syncFailed, swallowed>>

-----------------------------------------------------------------------------
Handle(s) ==
  \/ \E n \in 0..MaxBatch : Accept(s, n)
  \/ Duplicate(s) \/ Store(s) \/ AppendFails(s) \/ SyncFails(s)
  \/ \E ok \in BOOLEAN : EndOfBody(s, ok)

Send(s) == \E batch \in Batches : SendBatch(s, batch)

Pass == \E S \in SUBSET unread : BeginPass(S)

Next ==
  \/ Pass \/ Wait \/ GiveUp \/ ProxyAnswers
  \/ \E found \in SUBSET (ready \cup acked) : RestartSender(found)
  \/ \E n \in 0..Len(index) : RestartReceiver(n)
  \/ \E s \in Slot : Send(s) \/ Handle(s) \/ Refuse(s) \/ Lose(s) \/ Answer(s)

Spec == Init /\ [][Next]_vars

(* The sender's loop ticks, its client times out, a handler and the network *)
(* do not stop in the middle; nothing makes a fault happen or a restart.    *)
FairSpec ==
  /\ Spec /\ WF_vars(Pass) /\ WF_vars(Wait) /\ WF_vars(GiveUp)
  /\ \A s \in Slot : WF_vars(Send(s)) /\ WF_vars(Handle(s)) /\ WF_vars(Answer(s))

-----------------------------------------------------------------------------
TypeOK ==
  /\ unread \subseteq Records /\ ready \subseteq Records /\ queue \in Seq(Records)
  /\ sending \in Slot \cup {None}
  /\ fails \in 0..MaxFails /\ delay \in 0..BackoffMax /\ due \in BOOLEAN
  /\ request \in [Slot -> Request]
  /\ \A s \in Slot : request[s].done <= request[s].whole
  /\ index \in Seq(Records \cup {None}) /\ durable \in 0..Len(index)
  /\ torn \in BOOLEAN /\ (torn => index # <<>> /\ index[Len(index)] = None)
  /\ ids = {None} \/ ids \subseteq Records
  /\ stored \in Nat /\ landed \in Nat /\ faults \in 0..MaxFaults
  /\ acked \subseteq Records /\ syncFailed \subseteq Records /\ swallowed \subseteq Records

(* A record the sender forgot is in the receiver's archive, whatever was    *)
(* refused, cut, answered by somebody else, timed out or retried beside the *)
(* first attempt, and after a power cut too.  The exceptions are the two    *)
(* the code has: an entry whose sync failed is answered as a duplicate from *)
(* then on (archive.go:462), and a power cut may still take it; and an      *)
(* entry written behind a line that a short write or a power cut left torn  *)
(* becomes part of that line, which no reader can parse (archive.go:452).   *)
(* README.md:299-301 has no exception: the transport never loses a record.  *)
ForgottenIsStored == acked \subseteq Indexed \cup syncFailed \cup swallowed

(* No record is in the day twice, although a handler the sender gave up on  *)
(* may append the same batch at the same time as its retry, and an append   *)
(* may have failed after its entry was written; and the receiver's count is *)
(* what landed, before a failure in the same batch too (receive.go:138, 157).*)
NoneTwice ==
  \A i, j \in DOMAIN index : index[i] = index[j] /\ index[i] # None => i = j
InProgress == {s \in Slot : request[s].pc = "working"}
CountsAgree ==
  landed = stored + SumFunctionOnSet([s \in Slot |-> request[s].stored], InProgress)
StoredOnce == NoneTwice /\ CountsAgree

(* The delay of a failing sender never shrinks, is at least the minimum and *)
(* at most the maximum, however long the outage.                            *)
BackoffGrows ==
  [][fails' > 0 => delay' \in BackoffMin..BackoffMax /\ delay' >= delay]_vars

(* When faults end, so does the hold: the sender gets rid of everything it  *)
(* holds, if the receiver can store all of it.                              *)
Drains == (poison = {} /\ ready # {}) ~> (ready = {})

(* A record that can never be stored stops the link, but what is older      *)
(* still reaches the archive, but for what a torn line swallowed.           *)
OlderHeld == {r \in ready \ (Indexed \cup swallowed) : \A p \in poison : r < p}
OlderArrive == (OlderHeld # {}) ~> (OlderHeld = {})
=============================================================================
