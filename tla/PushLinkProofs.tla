--------------------------- MODULE PushLinkProofs ---------------------------
(***************************************************************************)
(* Proofs about the push link, for any number of records and of requests   *)
(* alive at once, any batch size and any number of faults.                 *)
(***************************************************************************)
EXTENDS PushLink, SetFacts, FiniteSetTheorems, SequenceTheorems, TLAPS

(* The constants one by one; a set of records is finite. *)
LEMMA Constants ==
  /\ Records \subseteq Nat /\ None \notin Slot /\ MaxBatch \in Nat
  /\ \A S \in SUBSET Records : Cardinality(S) \in Nat
<1>1. \A S \in SUBSET Records : IsFiniteSet(S)
  BY PushAssumption, FS_Subset
<1>2. \A S \in SUBSET Records : Cardinality(S) \in Nat
  BY <1>1, FS_CardinalityType
<1> QED BY <1>2, PushAssumption

(* What is in the day, or is not only because its sync failed or because    *)
(* its entry was written behind a torn line.                                *)
Safe == Indexed \cup syncFailed \cup swallowed
Line == Records \cup {None}

(* The types the argument needs.                                            *)
Typed ==
  /\ ready \subseteq Records /\ unread \subseteq Records /\ queue \in Seq(Records)
  /\ sending \in Slot \cup {None}
  /\ request \in [Slot -> Request]
  /\ index \in Seq(Line) /\ durable \in 0..Len(index)
  /\ torn \in BOOLEAN /\ (torn => index # <<>> /\ index[Len(index)] = None)
  /\ ids = {None} \/ ids \subseteq Records
  /\ acked \subseteq Records /\ syncFailed \subseteq Records /\ swallowed \subseteq Records

(* A request counts what it has handled, and what it has handled is safe;   *)
(* none but an answered one says that it succeeded.                         *)
Handled(r) == {r.batch[i] : i \in 1..r.done}
Account(r, S) ==
  /\ r.done <= r.whole /\ r.whole <= Len(r.batch) /\ r.stored + r.dup = r.done
  /\ r.pc # "answered" => r.ok = FALSE
  /\ r.pc = "transit" => r.batch # <<>> /\ r.done = 0
  /\ Handled(r) \subseteq S
Accounts == \A s \in Slot : Account(request[s], Safe)

(* The set in memory knows every id of the index, and nothing unsafe; what  *)
(* is not synced is an entry whose sync failed or part of a line.           *)
IdsAgree == ids = {None} \/ (Indexed \subseteq ids /\ ids \subseteq Safe)
Unsynced == \A i \in DOMAIN index : i > durable => index[i] \in syncFailed \cup {None}

IInv ==
  /\ Typed /\ Accounts /\ IdsAgree /\ Unsynced
  /\ NoneTwice /\ ForgottenIsStored

-----------------------------------------------------------------------------
(* Sequences of records and their members. *)

LEMMA EmptyMembers == Members(<<>>) = {}
BY DEF Members

LEMMA AppendMembers ==
  ASSUME NEW q \in Seq(Line), NEW x \in Line
  PROVE  /\ Append(q, x) \in Seq(Line) /\ Len(Append(q, x)) = Len(q) + 1
         /\ Members(Append(q, x)) = Members(q) \cup {x}
         /\ \A i \in DOMAIN q : i \in DOMAIN Append(q, x) /\ Append(q, x)[i] = q[i]
         /\ Append(q, x)[Len(q) + 1] = x
<1>1. /\ Append(q, x) \in Seq(Line) /\ Len(Append(q, x)) = Len(q) + 1
      /\ \A i \in 1..Len(q) : Append(q, x)[i] = q[i]
      /\ Append(q, x)[Len(q) + 1] = x
  OBVIOUS
<1>2. DOMAIN q = 1..Len(q) /\ DOMAIN Append(q, x) = 1..(Len(q) + 1) /\ Len(q) \in Nat
  BY <1>1
<1>3. Members(Append(q, x)) = Members(q) \cup {x}
  BY <1>1, <1>2 DEF Members
<1> QED BY <1>1, <1>2, <1>3

LEMMA PrefixMembers ==
  ASSUME NEW T, NEW q \in Seq(T), NEW n \in 0..Len(q)
  PROVE  /\ SubSeq(q, 1, n) \in Seq(T) /\ Len(SubSeq(q, 1, n)) = n
         /\ DOMAIN SubSeq(q, 1, n) = 1..n
         /\ \A i \in 1..n : SubSeq(q, 1, n)[i] = q[i]
         /\ Members(SubSeq(q, 1, n)) \subseteq Members(q)
         /\ \A x \in Members(q) : x \in Members(SubSeq(q, 1, n))
                                  \/ \E i \in DOMAIN q : i > n /\ q[i] = x
<1>1. /\ SubSeq(q, 1, n) \in Seq(T) /\ Len(SubSeq(q, 1, n)) = n
      /\ \A i \in 1..n : SubSeq(q, 1, n)[i] = q[i]
  OBVIOUS
<1>2. DOMAIN q = 1..Len(q) /\ DOMAIN SubSeq(q, 1, n) = 1..n /\ Len(q) \in Nat
  BY <1>1
<1>3. Members(SubSeq(q, 1, n)) \subseteq Members(q)
  BY <1>1, <1>2 DEF Members
<1>4. ASSUME NEW x \in Members(q)
      PROVE  x \in Members(SubSeq(q, 1, n)) \/ \E i \in DOMAIN q : i > n /\ q[i] = x
  <2>1. PICK i \in DOMAIN q : q[i] = x
    BY DEF Members
  <2>2. CASE i > n
    BY <2>1, <2>2
  <2>3. CASE i \in 1..n
    BY <1>1, <1>2, <2>1, <2>3 DEF Members
  <2> QED BY <1>2, <2>1, <2>2, <2>3
<1> QED BY <1>1, <1>2, <1>3, <1>4

(* Accounts. *)

LEMMA FreeAccount == ASSUME NEW S PROVE Free \in Request /\ Account(Free, S)
BY DEF Free, Request, Account, Handled

LEMMA LostAccount ==
  ASSUME NEW S
  PROVE  [Free EXCEPT !.pc = "lost"] \in Request /\ Account([Free EXCEPT !.pc = "lost"], S)
<1> DEFINE q == [Free EXCEPT !.pc = "lost"]
<1>1. /\ q.pc = "lost" /\ q.batch = <<>> /\ q.whole = 0 /\ q.done = 0 /\ q.stored = 0
      /\ q.dup = 0 /\ q.ok = FALSE
  BY DEF Free
<1>2. q \in Request
  BY FreeAccount DEF Request
<1> HIDE DEF q
<1>3. Len(q.batch) = 0
  BY <1>1
<1>5. Handled(q) = {}
  BY <1>1 DEF Handled
<1>4. Account(q, S)
  BY <1>1, <1>3, <1>5 DEF Account
<1> QED BY <1>2, <1>4 DEF q

LEMMA AccountGrows ==
  ASSUME NEW r, NEW S, NEW T, S \subseteq T, Account(r, S)
  PROVE  Account(r, T)
BY DEF Account

(* An account that adds up covers the whole batch. *)
LEMMA AcknowledgedIsSafe ==
  ASSUME NEW r \in Request, NEW S, Account(r, S), Acknowledged(r)
  PROVE  Members(r.batch) \subseteq S /\ Members(r.batch) \subseteq Records
<1>1. r.done = Len(r.batch) /\ r.batch \in Seq(Records)
  BY DEF Account, Acknowledged, Request
<1>2. DOMAIN r.batch = 1..r.done
  BY <1>1
<1>3. Members(r.batch) = Handled(r)
  BY <1>2 DEF Members, Handled
<1>4. Members(r.batch) \subseteq Records
  BY <1>1 DEF Members
<1> QED BY <1>3, <1>4 DEF Account

(* The duplicate test sees the index as it is. *)
LEMMA KnownAgrees ==
  ASSUME Typed, IdsAgree
  PROVE  Indexed \subseteq Known /\ Known \subseteq Safe /\ Known \subseteq Records
BY DEF Typed, IdsAgree, Known, Safe, Indexed, Members, Line

(* One more record handled. *)
LEMMA HandleOne ==
  ASSUME NEW r \in Request, NEW S, Account(r, S), r.pc = "working", r.done < r.whole,
         r.batch[r.done + 1] \in S, NEW q \in Request, q.batch = r.batch, q.pc = "working",
         q.whole = r.whole, q.ok = r.ok, q.done = r.done + 1,
         q.stored + q.dup = r.stored + r.dup + 1
  PROVE  Account(q, S)
<1>1. /\ r.done \in Nat /\ r.whole \in Nat /\ Len(r.batch) \in Nat
  BY DEF Request
<1>2. Handled(q) = Handled(r) \cup {r.batch[r.done + 1]}
  BY <1>1 DEF Handled
<1> QED BY <1>1, <1>2 DEF Account

LEMMA CurrentType ==
  ASSUME Typed, NEW s \in Slot, Decoding(s), Account(request[s], Safe)
  PROVE  Current(s) \in Records
<1>1. request[s] \in Request
  BY DEF Typed
<1>2. /\ request[s].batch \in Seq(Records) /\ request[s].done \in Nat
      /\ request[s].whole \in Nat
  BY <1>1 DEF Request
<1>3. request[s].done + 1 \in 1..Len(request[s].batch)
  BY <1>2 DEF Account, Decoding
<1> QED BY <1>2, <1>3 DEF Current

(* A step that changes one request keeps the accounts of the others.        *)
LEMMA OneRequest ==
  ASSUME Typed, Accounts, NEW s \in Slot, NEW q \in Request,
         request' = [request EXCEPT ![s] = q], Safe \subseteq Safe', Account(q, Safe')
  PROVE  request' \in [Slot -> Request] /\ Accounts'
<1>1. request' \in [Slot -> Request]
  BY DEF Typed
<1>2. ASSUME NEW t \in Slot
      PROVE  Account(request'[t], Safe')
  <2>1. CASE t = s
    BY <2>1 DEF Typed
  <2>2. CASE t # s
    <3>1. request'[t] = request[t]
      BY <2>2 DEF Typed
    <3> QED BY <3>1, AccountGrows DEF Accounts
  <2> QED BY <2>1, <2>2
<1> QED BY <1>1, <1>2 DEF Accounts

-----------------------------------------------------------------------------
(* The receiver's part of a step: nothing safe ceases to be.                *)

LEMMA KeptSafe ==
  ASSUME index' = index, syncFailed' = syncFailed, swallowed' = swallowed
  PROVE  Safe' = Safe /\ Indexed' = Indexed
BY DEF Safe, Indexed

(* An entry is in the index or in a torn line. *)
LEMMA GrownSafe ==
  ASSUME Typed, NEW x \in Records, WriteEntry(x), syncFailed \subseteq syncFailed'
  PROVE  /\ Safe \subseteq Safe' /\ x \in Safe'
         /\ Indexed \subseteq Indexed' /\ Indexed' \subseteq Indexed \cup {x}
         /\ swallowed' \subseteq Records
<1>0. torn \/ Members(index') = Members(index) \cup {x}
  <2>1. index \in Seq(Line) /\ x \in Line
    BY DEF Typed, Line
  <2>2. Members(Append(index, x)) = Members(index) \cup {x}
    BY <2>1, AppendMembers
  <2> QED BY <2>2 DEF WriteEntry
<1>1. Indexed \subseteq Indexed' /\ Indexed' \subseteq Indexed \cup {x}
  <2>1. CASE torn
    BY <2>1 DEF WriteEntry, Indexed
  <2>2. CASE ~torn
    BY <1>0, <2>2 DEF Indexed
  <2> QED BY <2>1, <2>2
<1>2. x \in Indexed' \/ x \in swallowed'
  <2>1. CASE torn
    BY <2>1 DEF WriteEntry
  <2>2. CASE ~torn
    <3>1. x # None
      BY PushAssumption
    <3> QED BY <1>0, <2>2, <3>1 DEF Indexed
  <2> QED BY <2>1, <2>2
<1>3. swallowed \subseteq swallowed' /\ swallowed' \subseteq Records
  BY DEF WriteEntry, Typed
<1> QED BY <1>1, <1>2, <1>3 DEF Safe

(* A line that is new, or cannot be parsed, is no second entry. *)
LEMMA StillNoneTwice ==
  ASSUME Typed, NoneTwice, NEW x \in Line, x \notin Indexed, index' = Append(index, x)
  PROVE  NoneTwice'
<1>1. /\ DOMAIN index = 1..Len(index) /\ Len(index) \in Nat
      /\ DOMAIN index' = 1..(Len(index) + 1)
      /\ \A i \in DOMAIN index : index'[i] = index[i]
      /\ index'[Len(index) + 1] = x
  BY AppendMembers DEF Typed
<1>2. \A i \in DOMAIN index : index[i] # x \/ x = None
  BY DEF Indexed, Members
<1>3. ASSUME NEW a \in DOMAIN index', NEW b \in DOMAIN index', index'[a] = index'[b],
             index'[a] # None
      PROVE  a = b
  <2>1. CASE a \in DOMAIN index /\ b \in DOMAIN index
    BY <1>1, <1>3, <2>1 DEF NoneTwice
  <2>2. CASE a = Len(index) + 1 \/ b = Len(index) + 1
    BY <1>1, <1>2, <1>3, <2>2
  <2> QED BY <1>1, <2>1, <2>2
<1> QED BY <1>3 DEF NoneTwice

(* What stays when a step leaves the receiver's files and ids alone.        *)
Files == <<index, torn, durable, ids, syncFailed, swallowed>>
LEMMA KeptFiles ==
  ASSUME IInv, UNCHANGED Files
  PROVE  /\ Safe' = Safe /\ Indexed' = Indexed /\ IdsAgree' /\ Unsynced' /\ NoneTwice'
         /\ index' \in Seq(Line) /\ durable' \in 0..Len(index')
         /\ torn' \in BOOLEAN /\ (torn' => index' # <<>> /\ index'[Len(index')] = None)
         /\ (ids' = {None} \/ ids' \subseteq Records) /\ syncFailed' \subseteq Records
         /\ swallowed' \subseteq Records
BY KeptSafe DEF IInv, Files, IdsAgree, Unsynced, Typed, NoneTwice

LEMMA Initially == Init => IInv
<1> SUFFICES ASSUME Init PROVE IInv
  OBVIOUS
<1>1. \A s \in Slot : request[s] \in Request /\ Account(request[s], Safe)
  BY FreeAccount DEF Init
<1>2. Typed
  <2>1. torn = FALSE
    BY DEF Init
  <2>2. torn \in BOOLEAN /\ (torn => index # <<>> /\ index[Len(index)] = None)
    BY <2>1
  <2>3. request \in [Slot -> Request]
    BY <1>1 DEF Init
  <2> QED BY <2>2, <2>3, Constants DEF Init, Typed
<1>3. Members(index) = {} /\ Indexed = {} /\ DOMAIN index = {}
  BY EmptyMembers DEF Init, Indexed
<1> QED BY <1>1, <1>2, <1>3 DEF Init, IInv, Accounts, IdsAgree, Unsynced, NoneTwice,
                                ForgottenIsStored

-----------------------------------------------------------------------------
(* The steps of the sender and of the link. *)

LEMMA BeginPassStep ==
  ASSUME IInv, NEW S \in SUBSET unread, BeginPass(S)
  PROVE  IInv'
<1> USE DEF BeginPass, receiver, history
<1>1. UNCHANGED Files /\ UNCHANGED <<request, sending, acked>>
  BY DEF Files
<1>2. unread' \subseteq Records /\ ready' \subseteq Records
  BY DEF IInv, Typed
<1>3. queue' \in Seq(Records)
  <2>1. Cardinality(ready') \in Nat
    BY <1>2, Constants
  <2>2. ASSUME NEW q \in [1..Cardinality(ready') -> ready']
        PROVE  q \in Seq(Records)
    <3> DEFINE n == Cardinality(ready')
    <3>1. n \in Nat /\ q \in [1..n -> Records]
      BY <1>2, <2>1
    <3> HIDE DEF n
    <3> QED BY <3>1
  <2>3. queue' \in Sorted(ready') \/ queue' = <<>>
    OBVIOUS
  <2>4. <<>> \in Seq(Records)
    OBVIOUS
  <2> QED BY <2>2, <2>3, <2>4 DEF Sorted, Orders
<1> HIDE DEF BeginPass
<1> QED BY <1>1, <1>2, <1>3, KeptFiles DEF IInv, Typed, Accounts, ForgottenIsStored, Safe

LEMMA SendBatchStep ==
  ASSUME IInv, NEW s \in Slot, NEW batch \in Batches, SendBatch(s, batch)
  PROVE  IInv'
<1> DEFINE q == [Free EXCEPT !.pc = "transit", !.batch = batch, !.whole = Len(batch)]
<1> USE DEF SendBatch, receiver, history
<1>1. UNCHANGED Files /\ UNCHANGED <<ready, unread, queue, acked>>
  BY DEF Files
<1>2. request' = [request EXCEPT ![s] = q] /\ sending' \in Slot \cup {None}
  OBVIOUS
<1>3. batch \in Seq(Records) /\ batch # <<>> /\ Len(batch) \in Nat
  <2>1. PICK n \in 1..MaxBatch : n <= Len(queue) /\ batch = SubSeq(queue, 1, n)
    BY DEF Batches
  <2>2. queue \in Seq(Records) /\ n \in 0..Len(queue) /\ n # 0
    BY <2>1, Constants DEF IInv, Typed
  <2>3. batch \in Seq(Records) /\ Len(batch) = n
    BY <2>1, <2>2, PrefixMembers
  <2> QED BY <2>2, <2>3
<1>4. q \in Request /\ Account(q, Safe')
  <2>1. /\ q.batch = batch /\ q.whole = Len(batch) /\ q.done = 0 /\ q.stored = 0
        /\ q.dup = 0 /\ q.ok = FALSE /\ q.pc = "transit"
    BY DEF Free
  <2>2. q \in Request
    BY <1>3 DEF Free, Request
  <2>3. Handled(q) = {}
    BY <2>1 DEF Handled
  <2> QED BY <1>3, <2>1, <2>2, <2>3 DEF Account
<1>5. request' \in [Slot -> Request] /\ Accounts'
  BY <1>1, <1>2, <1>4, KeptFiles, OneRequest DEF IInv
<1> HIDE DEF SendBatch
<1> QED BY <1>1, <1>2, <1>5, KeptFiles DEF IInv, Typed, ForgottenIsStored, Safe

LEMMA WaitStep ==
  ASSUME IInv, Wait
  PROVE  IInv'
<1>1. UNCHANGED Files /\ UNCHANGED <<request, sending, acked, ready, unread, queue>>
  BY DEF Wait, Files, receiver, history
<1> QED BY <1>1, KeptFiles DEF IInv, Typed, Accounts, ForgottenIsStored, Safe

(* A failed send forgets nothing. *)
LEMMA FailedStep ==
  ASSUME IInv, failed, UNCHANGED Files, request' \in [Slot -> Request], Accounts'
  PROVE  IInv'
<1>1. UNCHANGED <<ready, unread, acked>> /\ sending' = None /\ queue' = <<>>
  BY DEF failed
<1> QED BY <1>1, KeptFiles DEF IInv, Typed, ForgottenIsStored, Safe

(* One that succeeded forgets a batch all of which is safe. *)
LEMMA SucceededStep ==
  ASSUME IInv, NEW r \in Request, Account(r, Safe), Acknowledged(r), succeeded(r.batch),
         UNCHANGED Files, request' \in [Slot -> Request], Accounts'
  PROVE  IInv'
<1>1. Members(r.batch) \subseteq Safe /\ Members(r.batch) \subseteq Records
  BY AcknowledgedIsSafe
<1>2. /\ ready' = ready \ Members(r.batch) /\ acked' = acked \cup Members(r.batch)
      /\ unread' = unread /\ sending' = None
      /\ queue' = SubSeq(queue, Len(r.batch) + 1, Len(queue))
  BY DEF succeeded
<1>3. queue' \in Seq(Records)
  <2>1. queue \in Seq(Records) /\ Len(queue) \in Nat /\ Len(r.batch) \in Nat
    BY SMTT(20) DEF IInv, Typed, Request
  <2>2. \A i \in Len(r.batch) + 1..Len(queue) : queue[i] \in Records
    BY <2>1
  <2> QED BY <1>2, <2>1, <2>2, SubSeqProperties
<1>4. acked' \subseteq Safe
  BY <1>1, <1>2 DEF IInv, ForgottenIsStored, Safe
<1>5. ready' \subseteq Records /\ unread' \subseteq Records /\ acked' \subseteq Records
  BY <1>1, <1>2 DEF IInv, Typed
<1> QED BY <1>2, <1>3, <1>4, <1>5, KeptFiles DEF IInv, Typed, ForgottenIsStored, Safe

(* A request that ends frees its slot. *)
LEMMA FreedStep ==
  ASSUME IInv, NEW s \in Slot, UNCHANGED Files, request' = [request EXCEPT ![s] = Free]
  PROVE  request' \in [Slot -> Request] /\ Accounts'
BY FreeAccount, KeptFiles, OneRequest DEF IInv

LEMMA GiveUpStep ==
  ASSUME IInv, GiveUp
  PROVE  IInv'
<1>1. UNCHANGED Files
  BY DEF GiveUp, Files, receiver
<1>2. sending \in Slot
  BY DEF GiveUp, IInv, Typed
<1>3. request' \in [Slot -> Request] /\ Accounts'
  <2>1. CASE request' = [request EXCEPT ![sending] = Free]
    BY <1>1, <1>2, <2>1, FreedStep
  <2>2. CASE request' = request
    BY <1>1, <2>2, KeptFiles DEF IInv, Typed, Accounts
  <2> QED BY <2>1, <2>2 DEF GiveUp
<1> QED BY <1>1, <1>3, FailedStep DEF GiveUp

(* An answer that is not the receiver's never accounts for a batch.         *)
LEMMA ProxyAnswersStep ==
  ASSUME IInv, ProxyAnswers
  PROVE  IInv'
<1>1. UNCHANGED Files
  BY DEF ProxyAnswers, Files, receiver
<1>2. sending \in Slot
  BY DEF ProxyAnswers, IInv, Typed
<1>3. request' \in [Slot -> Request] /\ Accounts'
  BY <1>1, <1>2, FreedStep DEF ProxyAnswers
<1>4. ~Acknowledged(request[sending])
  BY <1>2 DEF ProxyAnswers, Acknowledged, IInv, Accounts, Account
<1> QED BY <1>1, <1>3, <1>4, FailedStep DEF ProxyAnswers

LEMMA AnswerStep ==
  ASSUME IInv, NEW s \in Slot, Answer(s)
  PROVE  IInv'
<1>1. UNCHANGED Files
  BY DEF Answer, Files, receiver
<1>2. request' \in [Slot -> Request] /\ Accounts'
  BY <1>1, FreedStep DEF Answer
<1>3. request[s] \in Request /\ Account(request[s], Safe)
  BY DEF IInv, Typed, Accounts
<1>4. CASE sending # s
  <2>1. UNCHANGED <<ready, unread, queue, sending, acked>>
    BY <1>4 DEF Answer, sender
  <2> QED BY <1>1, <1>2, <2>1, KeptFiles DEF IInv, Typed, ForgottenIsStored, Safe
<1>5. CASE sending = s /\ Acknowledged(request[s])
  BY <1>1, <1>2, <1>3, <1>5, SucceededStep DEF Answer
<1>6. CASE sending = s /\ ~Acknowledged(request[s])
  BY <1>1, <1>2, <1>6, FailedStep DEF Answer
<1> QED BY <1>4, <1>5, <1>6

LEMMA RestartSenderStep ==
  ASSUME IInv, NEW found \in SUBSET (ready \cup acked), RestartSender(found)
  PROVE  IInv'
<1>1. UNCHANGED Files /\ acked' = acked
  BY DEF RestartSender, Files, receiver, history
<1>2. /\ ready' \subseteq Records /\ unread' \subseteq Records
      /\ queue' = <<>> /\ sending' = None
  BY DEF RestartSender, IInv, Typed
<1>3. request' \in [Slot -> Request] /\ Accounts'
  <2>1. \A t \in Slot : request'[t] = Free \/ request'[t] = request[t]
    BY DEF RestartSender
  <2>2. \A t \in Slot : request'[t] \in Request /\ Account(request'[t], Safe)
    BY <2>1, FreeAccount DEF IInv, Typed, Accounts
  <2>3. request' = [t \in Slot |-> request'[t]]
    BY DEF RestartSender
  <2> QED BY <1>1, <2>2, <2>3, KeptFiles DEF Accounts
<1> QED BY <1>1, <1>2, <1>3, KeptFiles DEF IInv, Typed, ForgottenIsStored, Safe

-----------------------------------------------------------------------------
(* The steps of the receiver. *)

LEMMA LoseStep ==
  ASSUME IInv, NEW s \in Slot, Lose(s)
  PROVE  IInv'
<1> DEFINE q == IF sending = s THEN [Free EXCEPT !.pc = "lost"] ELSE Free
<1>1. UNCHANGED Files /\ UNCHANGED <<ready, unread, queue, sending, acked>>
  BY DEF Lose, Files, receiver, sender, history
<1>2. q \in Request /\ Account(q, Safe')
  BY FreeAccount, LostAccount
<1>3. request' \in [Slot -> Request] /\ Accounts'
  BY <1>1, <1>2, KeptFiles, OneRequest DEF Lose, IInv
<1> QED BY <1>1, <1>3, KeptFiles DEF IInv, Typed, ForgottenIsStored, Safe

(* A reply reports the account as it stands. *)
LEMMA ReplyAccount ==
  ASSUME IInv, NEW s \in Slot, NEW ok \in BOOLEAN, Reply(s, ok), Safe \subseteq Safe'
  PROVE  request' \in [Slot -> Request] /\ Accounts'
<1> DEFINE q == [request[s] EXCEPT !.pc = "answered", !.ok = ok]
<1>1. request[s] \in Request /\ Account(request[s], Safe')
  BY AccountGrows DEF IInv, Typed, Accounts
<1>2. q \in Request
  BY <1>1 DEF Request
<1>3. /\ q.batch = request[s].batch /\ q.whole = request[s].whole /\ q.done = request[s].done
      /\ q.stored = request[s].stored /\ q.dup = request[s].dup /\ q.pc = "answered"
  BY <1>1 DEF Request
<1>4. Account(q, Safe')
  BY <1>1, <1>3 DEF Account, Handled
<1>5. request' = [request EXCEPT ![s] = q]
  BY <1>1 DEF Reply, IInv, Typed
<1> QED BY <1>2, <1>4, <1>5, OneRequest DEF IInv

LEMMA RefuseStep ==
  ASSUME IInv, NEW s \in Slot, Refuse(s)
  PROVE  IInv'
<1>1. UNCHANGED Files /\ UNCHANGED <<ready, unread, queue, sending, acked>>
  BY DEF Refuse, Files, sender, history
<1>2. request' \in [Slot -> Request] /\ Accounts'
  BY <1>1, KeptFiles, ReplyAccount DEF Refuse
<1> QED BY <1>1, <1>2, KeptFiles DEF IInv, Typed, ForgottenIsStored, Safe

LEMMA EndOfBodyStep ==
  ASSUME IInv, NEW s \in Slot, NEW ok \in BOOLEAN, EndOfBody(s, ok)
  PROVE  IInv'
<1>1. UNCHANGED Files /\ UNCHANGED <<ready, unread, queue, sending, acked>>
  BY DEF EndOfBody, Files, sender, history
<1>2. request' \in [Slot -> Request] /\ Accounts'
  BY <1>1, KeptFiles, ReplyAccount DEF EndOfBody
<1> QED BY <1>1, <1>2, KeptFiles DEF IInv, Typed, ForgottenIsStored, Safe

LEMMA AcceptStep ==
  ASSUME IInv, NEW s \in Slot, NEW n \in 0..MaxBatch, Accept(s, n)
  PROVE  IInv'
<1> DEFINE q == [request[s] EXCEPT !.pc = "working", !.whole = n]
<1>1. UNCHANGED Files /\ UNCHANGED <<ready, unread, queue, sending, acked>>
  BY DEF Accept, Files, receiver, sender, history
<1>2. request[s] \in Request /\ Account(request[s], Safe')
  BY <1>1, KeptFiles DEF IInv, Typed, Accounts
<1>3. q \in Request
  <2>1. n \in Nat
    BY Constants
  <2> QED BY <1>2, <2>1 DEF Request
<1>4. /\ q.batch = request[s].batch /\ q.whole = n /\ q.done = request[s].done
      /\ q.stored = request[s].stored /\ q.dup = request[s].dup /\ q.pc = "working"
      /\ q.ok = request[s].ok
  BY <1>2 DEF Request
<1>5. Account(q, Safe')
  BY <1>2, <1>4 DEF Account, Handled, Accept
<1>6. request' = [request EXCEPT ![s] = q]
  BY <1>2 DEF Accept, IInv, Typed
<1>7. request' \in [Slot -> Request] /\ Accounts'
  BY <1>1, <1>3, <1>5, <1>6, KeptFiles, OneRequest DEF IInv
<1> QED BY <1>1, <1>7, KeptFiles DEF IInv, Typed, ForgottenIsStored, Safe

(* The next record was found, or was written: both count it as handled.     *)
LEMMA CountedStep ==
  ASSUME IInv, NEW s \in Slot, Decoding(s), Safe \subseteq Safe', Current(s) \in Safe',
         \/ request' = [request EXCEPT ![s].done = @ + 1, ![s].dup = @ + 1]
         \/ request' = [request EXCEPT ![s].done = @ + 1, ![s].stored = @ + 1]
  PROVE  request' \in [Slot -> Request] /\ Accounts'
<1> DEFINE r == request[s]
           p == [r EXCEPT !.done = @ + 1, !.dup = @ + 1]
           q == [r EXCEPT !.done = @ + 1, !.stored = @ + 1]
<1>1. r \in Request /\ Account(r, Safe')
  BY AccountGrows DEF IInv, Typed, Accounts
<1>2. p \in Request /\ q \in Request
  <2>1. r.done + 1 \in Nat /\ r.dup + 1 \in Nat /\ r.stored + 1 \in Nat
    BY <1>1 DEF Request
  <2>2. p = [r EXCEPT !.done = r.done + 1, !.dup = r.dup + 1]
    OBVIOUS
  <2>3. q = [r EXCEPT !.done = r.done + 1, !.stored = r.stored + 1]
    OBVIOUS
  <2> HIDE DEF r, p, q
  <2>4. p \in Request
    BY <1>1, <2>1, <2>2 DEF Request
  <2>5. q \in Request
    BY <1>1, <2>1, <2>3 DEF Request
  <2> QED BY <2>4, <2>5
<1>3. /\ p.batch = r.batch /\ p.pc = r.pc /\ p.whole = r.whole /\ p.ok = r.ok
      /\ p.done = r.done + 1 /\ p.stored + p.dup = r.stored + r.dup + 1
  BY <1>1 DEF Request
<1>4. /\ q.batch = r.batch /\ q.pc = r.pc /\ q.whole = r.whole /\ q.ok = r.ok
      /\ q.done = r.done + 1 /\ q.stored + q.dup = r.stored + r.dup + 1
  BY <1>1 DEF Request
<1>5. r.pc = "working" /\ r.done < r.whole /\ r.batch[r.done + 1] \in Safe'
  BY DEF Decoding, Current
<1> HIDE DEF p, q
<1>6. Account(p, Safe') /\ Account(q, Safe')
  BY <1>1, <1>2, <1>3, <1>4, <1>5, HandleOne
<1>7. request' = [request EXCEPT ![s] = p] \/ request' = [request EXCEPT ![s] = q]
  BY <1>1 DEF p, q, IInv, Typed
<1> QED BY <1>2, <1>6, <1>7, OneRequest DEF IInv

LEMMA DuplicateStep ==
  ASSUME IInv, NEW s \in Slot, Duplicate(s)
  PROVE  IInv'
<1>1. /\ UNCHANGED <<index, torn, durable, syncFailed, swallowed>> /\ ids' = Known
      /\ UNCHANGED <<ready, unread, queue, sending, acked>>
  BY DEF Duplicate, sender, history
<1>2. Safe' = Safe /\ Indexed' = Indexed
  BY <1>1, KeptSafe
<1>3. Indexed \subseteq Known /\ Known \subseteq Safe /\ Known \subseteq Records
  BY KnownAgrees DEF IInv
<1>4. request' \in [Slot -> Request] /\ Accounts'
  BY <1>2, <1>3, CountedStep DEF Duplicate
<1>5. IdsAgree' /\ Unsynced'
  BY <1>1, <1>2, <1>3 DEF IInv, IdsAgree, Unsynced
<1>6. NoneTwice'
  BY <1>1 DEF IInv, NoneTwice
<1> QED BY <1>1, <1>2, <1>3, <1>4, <1>5, <1>6 DEF IInv, Typed, ForgottenIsStored, Safe

(* A line that cannot be parsed, at the end of the index or part of it      *)
(* already, or no line at all.                                              *)
LEMMA TornStep ==
  ASSUME IInv, UNCHANGED <<syncFailed, swallowed, durable>>,
         UNCHANGED <<index, torn>> \/ TearLine
  PROVE  /\ Indexed' = Indexed /\ Safe' = Safe /\ Unsynced' /\ NoneTwice'
         /\ index' \in Seq(Line) /\ durable' \in 0..Len(index')
         /\ torn' \in BOOLEAN /\ (torn' => index' # <<>> /\ index'[Len(index')] = None)
<1>1. CASE index' = index /\ (torn' = torn \/ torn)
  <2>1. Indexed' = Indexed /\ Safe' = Safe
    BY <1>1, KeptSafe
  <2>2. torn' \in BOOLEAN /\ (torn' => torn)
    BY <1>1 DEF IInv, Typed, TearLine
  <2> QED BY <1>1, <2>1, <2>2 DEF IInv, Typed, Unsynced, NoneTwice
<1>2. CASE index' = Append(index, None) /\ torn' = TRUE
  <2>1. /\ DOMAIN index = 1..Len(index) /\ Len(index) \in Nat
        /\ index' \in Seq(Line) /\ Len(index') = Len(index) + 1
        /\ DOMAIN index' = 1..(Len(index) + 1)
        /\ \A i \in DOMAIN index : index'[i] = index[i]
        /\ index'[Len(index) + 1] = None /\ Members(index') = Members(index) \cup {None}
    BY <1>2, AppendMembers DEF IInv, Typed, Line
  <2>2. Indexed' = Indexed /\ Safe' = Safe
    BY <2>1 DEF Indexed, Safe
  <2>3. NoneTwice'
    BY <1>2, StillNoneTwice DEF IInv, Line, Indexed
  <2>4. Unsynced'
    BY <2>1 DEF IInv, Typed, Unsynced
  <2>5. index' # <<>> /\ durable' \in 0..Len(index')
    BY <2>1 DEF IInv, Typed
  <2> QED BY <1>2, <2>1, <2>2, <2>3, <2>4, <2>5
<1>3. torn \in BOOLEAN
  BY DEF IInv, Typed
<1> QED BY <1>1, <1>2, <1>3 DEF TearLine

LEMMA AppendFailsStep ==
  ASSUME IInv, NEW s \in Slot, AppendFails(s)
  PROVE  IInv'
<1>1. /\ UNCHANGED <<syncFailed, swallowed, durable>> /\ ids' = Known
      /\ UNCHANGED <<index, torn>> \/ TearLine
      /\ UNCHANGED <<ready, unread, queue, sending, acked>>
  BY DEF AppendFails, sender, history
<1>2. /\ Indexed' = Indexed /\ Safe' = Safe /\ Unsynced' /\ NoneTwice'
      /\ index' \in Seq(Line) /\ durable' \in 0..Len(index')
      /\ torn' \in BOOLEAN /\ (torn' => index' # <<>> /\ index'[Len(index')] = None)
  BY <1>1, TornStep
<1>3. Indexed \subseteq Known /\ Known \subseteq Safe /\ Known \subseteq Records
  BY KnownAgrees DEF IInv
<1>4. request' \in [Slot -> Request] /\ Accounts'
  BY <1>2, ReplyAccount DEF AppendFails
<1>5. IdsAgree'
  BY <1>1, <1>2, <1>3 DEF IdsAgree
<1> QED BY <1>1, <1>2, <1>3, <1>4, <1>5 DEF IInv, Typed, ForgottenIsStored, Safe

(* What both ways of writing an entry have in common. *)
LEMMA WrittenStep ==
  ASSUME IInv, NEW x \in Records, x \notin Known, WriteEntry(x),
         ids' = Known \cup {x}, syncFailed \subseteq syncFailed', syncFailed' \subseteq Records,
         durable' \in 0..Len(index'),
         durable' = Len(index') \/ (durable' = durable /\ x \in syncFailed'),
         UNCHANGED <<ready, unread, queue, sending, acked>>,
         request' \in [Slot -> Request], Accounts'
  PROVE  IInv'
<1>1. Indexed \subseteq Known /\ Known \subseteq Safe /\ Known \subseteq Records
  BY KnownAgrees DEF IInv
<1>2. /\ Safe \subseteq Safe' /\ x \in Safe'
      /\ Indexed \subseteq Indexed' /\ Indexed' \subseteq Indexed \cup {x}
      /\ swallowed' \subseteq Records
  BY GrownSafe DEF IInv
<1>3. torn' = FALSE /\ (index' = index \/ index' = Append(index, x))
  BY DEF WriteEntry
<1>4. x \in Line /\ x \notin Indexed
  BY <1>1 DEF Line
<1>5. index' \in Seq(Line) /\ NoneTwice'
  <2>1. CASE index' = index
    BY <2>1 DEF IInv, Typed, NoneTwice
  <2>2. CASE index' = Append(index, x)
    BY <1>4, <2>2, AppendMembers, StillNoneTwice DEF IInv, Typed
  <2> QED BY <1>3, <2>1, <2>2
<1>6. IdsAgree'
  BY <1>1, <1>2 DEF IdsAgree
<1>7. Unsynced'
  <2>1. index \in Seq(Line) /\ DOMAIN index = 1..Len(index) /\ Len(index) \in Nat
    BY DEF IInv, Typed
  <2>2. DOMAIN index' = 1..Len(index') /\ Len(index') \in Nat
    BY <1>5
  <2> SUFFICES ASSUME NEW i \in DOMAIN index', i > durable'
               PROVE  index'[i] \in syncFailed' \cup {None}
    BY DEF Unsynced
  <2>3. durable' = durable /\ x \in syncFailed'
    BY <2>2
  <2>4. CASE index' = index
    BY <2>3, <2>4 DEF IInv, Unsynced
  <2>5. CASE index' = Append(index, x)
    <3>1. /\ Len(index') = Len(index) + 1
          /\ \A k \in DOMAIN index : index'[k] = index[k]
          /\ index'[Len(index) + 1] = x
      BY <1>4, <2>1, <2>5, AppendMembers
    <3>2. CASE i \in DOMAIN index
      BY <2>3, <3>1, <3>2 DEF IInv, Unsynced
    <3>3. CASE i = Len(index) + 1
      BY <2>3, <3>1, <3>3
    <3> QED BY <2>1, <2>2, <3>1, <3>2, <3>3
  <2> QED BY <1>3, <2>4, <2>5
<1>8. ForgottenIsStored'
  BY <1>2 DEF IInv, ForgottenIsStored, Safe
<1>9. Typed'
  BY <1>1, <1>2, <1>3, <1>5 DEF IInv, Typed
<1> QED BY <1>5, <1>6, <1>7, <1>8, <1>9 DEF IInv

LEMMA EntryLength ==
  ASSUME Typed, NEW x \in Records, WriteEntry(x)
  PROVE  Len(index') \in Nat /\ Len(index') >= Len(index)
<1>1. index \in Seq(Line) /\ x \in Line /\ Len(index) \in Nat
  BY DEF Typed, Line
<1>2. index' = index \/ Len(index') = Len(index) + 1
  BY <1>1, AppendMembers DEF WriteEntry
<1> QED BY <1>1, <1>2

LEMMA StoreStep ==
  ASSUME IInv, NEW s \in Slot, Store(s)
  PROVE  IInv'
<1> DEFINE x == Current(s)
<1>1. x \in Records
  BY CurrentType DEF Store, IInv, Accounts
<1>2. /\ WriteEntry(x) /\ ids' = Known \cup {x} /\ x \notin Known
      /\ syncFailed' = syncFailed /\ durable' = Len(index')
      /\ UNCHANGED <<ready, unread, queue, sending, acked>>
  BY DEF Store, sender
<1>3. Safe \subseteq Safe' /\ x \in Safe' /\ Len(index') \in Nat
  BY <1>1, <1>2, GrownSafe, EntryLength DEF IInv
<1>4. request' \in [Slot -> Request] /\ Accounts'
  BY <1>3, CountedStep DEF Store
<1> HIDE DEF x
<1>5. syncFailed' \subseteq Records
  BY <1>2 DEF IInv, Typed
<1> QED BY <1>1, <1>2, <1>3, <1>4, <1>5, WrittenStep

LEMMA SyncFailsStep ==
  ASSUME IInv, NEW s \in Slot, SyncFails(s)
  PROVE  IInv'
<1> DEFINE x == Current(s)
<1>1. x \in Records
  BY CurrentType DEF SyncFails, IInv, Accounts
<1>2. /\ WriteEntry(x) /\ ids' = Known \cup {x} /\ x \notin Known
      /\ syncFailed' = syncFailed \cup {x} /\ durable' = durable
      /\ UNCHANGED <<ready, unread, queue, sending, acked>>
  BY DEF SyncFails, Remember, sender
<1>3. Safe \subseteq Safe' /\ Len(index') \in Nat /\ Len(index') >= Len(index)
  BY <1>1, <1>2, GrownSafe, EntryLength DEF IInv
<1>4. request' \in [Slot -> Request] /\ Accounts'
  BY <1>3, ReplyAccount DEF SyncFails
<1> HIDE DEF x
<1>5. syncFailed' \subseteq Records /\ durable' \in 0..Len(index')
  BY <1>1, <1>2, <1>3 DEF IInv, Typed
<1> QED BY <1>1, <1>2, <1>4, <1>5, WrittenStep

(* What is left of the index keeps all but what was not synced. *)
LEMMA LeftIndex ==
  ASSUME IInv, NEW n \in 0..Len(index), PowerCut(n), syncFailed' = syncFailed,
         swallowed' = swallowed
  PROVE  /\ Safe \subseteq Safe' /\ Unsynced' /\ NoneTwice' /\ index' \in Seq(Line)
         /\ durable' \in 0..Len(index')
         /\ torn' \in BOOLEAN /\ (torn' => index' # <<>> /\ index'[Len(index')] = None)
<1> DEFINE left == SubSeq(index, 1, n)
<1>1. /\ left \in Seq(Line) /\ Len(left) = n /\ DOMAIN left = 1..n
      /\ \A i \in 1..n : left[i] = index[i]
      /\ \A y \in Members(index) : y \in Members(left)
                                   \/ \E i \in DOMAIN index : i > n /\ index[i] = y
  BY PrefixMembers DEF IInv, Typed
<1>2. /\ DOMAIN index = 1..Len(index) /\ Len(index) \in Nat /\ n \in Nat
      /\ n >= durable /\ durable' = Len(index')
  BY DEF IInv, Typed, PowerCut
<1>3. n = Len(index) => left = index
  <2>1. index \in Seq(Line)
    BY DEF IInv, Typed
  <2>2. n = Len(index) => /\ Len(left) = Len(index)
                          /\ \A i \in 1..Len(left) : left[i] = index[i]
    BY <1>1
  <2> QED BY <1>1, <2>1, <2>2, SeqEqual
<1>4. \/ index' = left /\ torn' = (torn /\ n = Len(index))
      \/ index' = Append(left, None) /\ torn' = TRUE
  BY DEF PowerCut
<1> HIDE DEF left
<1>5. /\ index' \in Seq(Line) /\ Len(index') \in Nat /\ DOMAIN index' = 1..Len(index')
      /\ n <= Len(index') /\ \A i \in 1..n : index'[i] = index[i]
      /\ \A i \in DOMAIN index' : i <= n \/ index'[i] = None
      /\ Members(left) \subseteq Members(index')
  <2>1. CASE index' = left
    BY <1>1, <1>2, <2>1
  <2>2. CASE index' = Append(left, None)
    <3>1. None \in Line
      BY DEF Line
    <3>2. /\ index' \in Seq(Line) /\ Len(index') = n + 1
          /\ Members(index') = Members(left) \cup {None}
          /\ \A i \in DOMAIN left : index'[i] = left[i]
          /\ index'[n + 1] = None
      BY <1>1, <2>2, <3>1, AppendMembers
    <3> QED BY <1>1, <1>2, <3>2
  <2> QED BY <1>4, <2>1, <2>2
<1>6. Safe \subseteq Safe'
  <2> SUFFICES ASSUME NEW y \in Indexed PROVE y \in Safe'
    BY DEF Safe
  <2>1. CASE \E i \in DOMAIN index : i > n /\ index[i] = y
    <3>1. PICK i \in DOMAIN index : i > n /\ index[i] = y
      BY <2>1
    <3>2. i > durable /\ y # None
      BY <1>2, <3>1 DEF Indexed, IInv, Typed
    <3> QED BY <3>1, <3>2 DEF IInv, Unsynced, Safe
  <2>2. CASE y \in Members(left)
    BY <1>5, <2>2 DEF Indexed, Safe
  <2> QED BY <1>1, <2>1, <2>2 DEF Indexed
<1>7. NoneTwice'
  <2> SUFFICES ASSUME NEW a \in DOMAIN index', NEW b \in DOMAIN index',
                      index'[a] = index'[b], index'[a] # None
               PROVE  a = b
    BY DEF NoneTwice
  <2>1. a \in 1..n /\ b \in 1..n
    BY <1>2, <1>5
  <2>2. a \in DOMAIN index /\ b \in DOMAIN index /\ index[a] = index[b] /\ index[a] # None
    BY <1>2, <1>5, <2>1
  <2> QED BY <2>2 DEF IInv, NoneTwice
<1>8. Unsynced'
  BY <1>2, <1>5 DEF Unsynced
<1>9. torn' \in BOOLEAN /\ (torn' => index' # <<>> /\ index'[Len(index')] = None)
  <2>1. CASE index' = left /\ torn' = (torn /\ n = Len(index))
    <3>1. torn' \in BOOLEAN /\ (torn' => torn /\ index' = index)
      BY <1>3, <2>1 DEF IInv, Typed
    <3> QED BY <3>1 DEF IInv, Typed
  <2>2. CASE index' = Append(left, None) /\ torn' = TRUE
    <3>1. None \in Line
      BY DEF Line
    <3>2. Len(index') = n + 1 /\ index'[n + 1] = None
      BY <1>1, <2>2, <3>1, AppendMembers
    <3> QED BY <1>2, <2>2, <3>2
  <2> QED BY <1>4, <2>1, <2>2
<1> QED BY <1>2, <1>5, <1>6, <1>7, <1>8, <1>9

(* A power cut takes only what was not synced, and that is known. *)
LEMMA RestartReceiverStep ==
  ASSUME IInv, NEW n \in 0..Len(index), RestartReceiver(n)
  PROVE  IInv'
<1>1. /\ ids' = {None}
      /\ UNCHANGED <<ready, unread, queue, sending, acked, syncFailed, swallowed>>
  BY DEF RestartReceiver, sender
<1>2. /\ Safe \subseteq Safe' /\ Unsynced' /\ NoneTwice' /\ index' \in Seq(Line)
      /\ durable' \in 0..Len(index')
      /\ torn' \in BOOLEAN /\ (torn' => index' # <<>> /\ index'[Len(index')] = None)
  <2>1. CASE PowerCut(n)
    BY <1>1, <2>1, LeftIndex
  <2>2. CASE UNCHANGED <<index, torn, durable>>
    <3>1. Safe' = Safe
      BY <1>1, <2>2, KeptSafe
    <3> QED BY <1>1, <2>2, <3>1 DEF IInv, Typed, Unsynced, NoneTwice
  <2> QED BY <2>1, <2>2 DEF RestartReceiver
<1>3. request' \in [Slot -> Request] /\ Accounts'
  <2> DEFINE lost == [Free EXCEPT !.pc = "lost"]
  <2>1. lost \in Request /\ Account(lost, Safe')
    BY LostAccount
  <2>2. \A t \in Slot : request'[t] = Free \/ request'[t] = lost \/ request'[t] = request[t]
    BY DEF RestartReceiver
  <2>3. \A t \in Slot : request[t] \in Request /\ Account(request[t], Safe')
    BY <1>2, AccountGrows DEF IInv, Typed, Accounts
  <2> HIDE DEF lost
  <2>4. \A t \in Slot : request'[t] \in Request /\ Account(request'[t], Safe')
    BY <2>1, <2>2, <2>3, FreeAccount
  <2>5. request' = [t \in Slot |-> request'[t]]
    BY DEF RestartReceiver
  <2> QED BY <2>4, <2>5 DEF Accounts
<1>4. IdsAgree'
  BY <1>1 DEF IdsAgree
<1>5. ForgottenIsStored'
  BY <1>1, <1>2 DEF IInv, ForgottenIsStored, Safe
<1>6. Typed'
  BY <1>1, <1>2, <1>3 DEF IInv, Typed
<1> QED BY <1>2, <1>3, <1>4, <1>5, <1>6 DEF IInv

-----------------------------------------------------------------------------
LEMMA Inductive == IInv /\ [Next]_vars => IInv'
<1> SUFFICES ASSUME IInv, [Next]_vars PROVE IInv'
  OBVIOUS
<1>1. CASE Pass
  BY <1>1, BeginPassStep DEF Pass
<1>2. CASE Wait
  BY <1>2, WaitStep
<1>3. CASE GiveUp
  BY <1>3, GiveUpStep
<1>4. CASE ProxyAnswers
  BY <1>4, ProxyAnswersStep
<1>5. CASE \E found \in SUBSET (ready \cup acked) : RestartSender(found)
  BY <1>5, RestartSenderStep
<1>6. CASE \E n \in 0..Len(index) : RestartReceiver(n)
  BY <1>6, RestartReceiverStep
<1>7. ASSUME NEW s \in Slot, Send(s) PROVE IInv'
  BY <1>7, SendBatchStep DEF Send
<1>8. ASSUME NEW s \in Slot, Handle(s) PROVE IInv'
  BY <1>8, AcceptStep, DuplicateStep, StoreStep, AppendFailsStep, SyncFailsStep,
     EndOfBodyStep DEF Handle
<1>9. ASSUME NEW s \in Slot, Refuse(s) PROVE IInv'
  BY <1>9, RefuseStep
<1>10. ASSUME NEW s \in Slot, Lose(s) PROVE IInv'
  BY <1>10, LoseStep
<1>11. ASSUME NEW s \in Slot, Answer(s) PROVE IInv'
  BY <1>11, AnswerStep
<1>12. CASE UNCHANGED vars
  <2>1. UNCHANGED Files /\ UNCHANGED <<ready, unread, queue, sending, acked, request>>
    BY <1>12 DEF vars, Files, sender, receiver, history
  <2> QED BY <2>1, KeptFiles DEF IInv, Typed, Accounts, ForgottenIsStored, Safe
<1> QED
  BY <1>1, <1>2, <1>3, <1>4, <1>5, <1>6, <1>7, <1>8, <1>9, <1>10, <1>11, <1>12 DEF Next

LEMMA Always == Spec => []IInv
BY Initially, Inductive, PTL DEF Spec

(* Push mode loses nothing: a record the sender forgot is in the archive of *)
(* the receiver, or is one of the two conceded exceptions: an entry whose   *)
(* sync failed, and one written behind a torn line (push.go:180-193,        *)
(* receive.go:128-157, archive.go:357-378, 452).                            *)
THEOREM NothingForgotten == Spec => []ForgottenIsStored
<1>1. IInv => ForgottenIsStored
  BY DEF IInv
<1> QED BY <1>1, Always, PTL

(* No call is in the receiver's day twice, however often it is sent and by  *)
(* however many requests at once (archive.go:357-378).                      *)
THEOREM NoCallTwice == Spec => []NoneTwice
<1>1. IInv => NoneTwice
  BY DEF IInv
<1> QED BY <1>1, Always, PTL

-----------------------------------------------------------------------------
(* The counts.  The number of records in the day grows when a request       *)
(* stores one; it goes over to the statistics when the request replies.     *)
StoredBy == [s \in Slot |-> request[s].stored]
CountInv == stored \in Nat /\ landed \in Nat /\ CountsAgree

(* The invariant in terms of totals, in both states of a step. *)
LEMMA CountsAre ==
  /\ CountsAgree <=> landed = stored + SumFunctionOnSet(StoredBy, InProgress)
  /\ CountsAgree' <=> landed' = stored' + SumFunctionOnSet(StoredBy', InProgress')
BY DEF CountsAgree, StoredBy

(* What a request has stored is a number, in both states of a step.         *)
LEMMA StoredTypes ==
  ASSUME IInv, IInv'
  PROVE  /\ IsFiniteSet(InProgress) /\ IsFiniteSet(InProgress')
         /\ \A s \in Slot : StoredBy[s] \in Nat /\ StoredBy'[s] \in Nat
         /\ \A s \in Slot : StoredBy[s] = request[s].stored /\ StoredBy'[s] = request'[s].stored
         /\ SumFunctionOnSet(StoredBy, InProgress) \in Nat
<1>1. \A s \in Slot : request[s] \in Request /\ request'[s] \in Request
  BY DEF IInv, Typed
<1>2. \A s \in Slot : /\ StoredBy[s] \in Nat /\ StoredBy'[s] \in Nat
                      /\ StoredBy[s] = request[s].stored /\ StoredBy'[s] = request'[s].stored
  BY <1>1 DEF StoredBy, Request
<1>3. IsFiniteSet(InProgress) /\ IsFiniteSet(InProgress')
  <2>1. InProgress \subseteq Slot /\ InProgress' \subseteq Slot
    BY DEF InProgress
  <2> QED BY <2>1, PushAssumption, FS_Subset
<1>4. SumFunctionOnSet(StoredBy, InProgress) \in Nat
  BY <1>2, <1>3, SumNat DEF InProgress
<1> QED BY <1>2, <1>3, <1>4

(* A step that leaves alone who works and what they have stored. *)
LEMMA CountsKept ==
  ASSUME IInv, IInv', CountInv, UNCHANGED <<stored, landed>>,
         \A s \in Slot : /\ request'[s].pc = "working" <=> request[s].pc = "working"
                         /\ request[s].pc = "working" => request'[s].stored = request[s].stored
  PROVE  CountInv'
<1>1. InProgress' = InProgress
  BY DEF InProgress
<1>2. \A s \in InProgress : StoredBy'[s] = StoredBy[s]
  BY StoredTypes DEF InProgress
<1>3. SumFunctionOnSet(StoredBy', InProgress) = SumFunctionOnSet(StoredBy, InProgress)
  BY <1>2, StoredTypes, SumSame
<1> QED BY <1>1, <1>3, CountsAre DEF CountInv

(* A step of one request, and what the rest have stored.                    *)
LEMMA OthersKept ==
  ASSUME IInv, IInv', NEW s \in Slot,
         \A t \in Slot \ {s} : request'[t] = request[t]
  PROVE  /\ InProgress' \ {s} = InProgress \ {s}
         /\ SumFunctionOnSet(StoredBy', InProgress' \ {s}) = SumFunctionOnSet(StoredBy, InProgress \ {s})
         /\ SumFunctionOnSet(StoredBy, InProgress \ {s}) \in Nat
         /\ s \in InProgress =>
              SumFunctionOnSet(StoredBy, InProgress)
                = request[s].stored + SumFunctionOnSet(StoredBy, InProgress \ {s})
         /\ s \in InProgress' =>
              SumFunctionOnSet(StoredBy', InProgress')
                = request'[s].stored + SumFunctionOnSet(StoredBy', InProgress' \ {s})
<1>1. InProgress' \ {s} = InProgress \ {s}
  BY DEF InProgress
<1>2. IsFiniteSet(InProgress \ {s}) /\ IsFiniteSet(InProgress' \ {s})
  BY StoredTypes, FS_Subset
<1>3. \A t \in InProgress \ {s} : StoredBy'[t] = StoredBy[t]
  BY StoredTypes DEF InProgress
<1>4. SumFunctionOnSet(StoredBy', InProgress \ {s}) = SumFunctionOnSet(StoredBy, InProgress \ {s})
  BY <1>2, <1>3, SumSame
<1>5. SumFunctionOnSet(StoredBy, InProgress \ {s}) \in Nat
  BY <1>2, StoredTypes, SumNat DEF InProgress
<1>6. s \in InProgress =>
        SumFunctionOnSet(StoredBy, InProgress) = request[s].stored + SumFunctionOnSet(StoredBy, InProgress \ {s})
  <2>1. \A x \in InProgress : StoredBy[x] \in Nat
    BY StoredTypes DEF InProgress
  <2> QED BY <2>1, StoredTypes, SumRemove
<1>7. s \in InProgress' =>
        SumFunctionOnSet(StoredBy', InProgress')
          = request'[s].stored + SumFunctionOnSet(StoredBy', InProgress' \ {s})
  <2>1. \A x \in InProgress' : StoredBy'[x] \in Nat
    BY StoredTypes DEF InProgress
  <2> QED BY <2>1, StoredTypes, SumRemove
<1> QED BY <1>1, <1>4, <1>5, <1>6, <1>7

(* A reply hands the count of its request over. *)
LEMMA CountsReplied ==
  ASSUME IInv, IInv', CountInv, NEW s \in Slot, NEW ok \in BOOLEAN, Reply(s, ok),
         landed' = landed, request[s].pc = "working" \/ request[s].stored = 0
  PROVE  CountInv'
<1>1. /\ stored' = stored + request[s].stored /\ request'[s].pc = "answered"
      /\ \A t \in Slot \ {s} : request'[t] = request[t]
      /\ request[s].stored \in Nat
  BY DEF Reply, IInv, Typed, Request
<1>2. s \notin InProgress'
  BY <1>1 DEF InProgress
<1>3. SumFunctionOnSet(StoredBy', InProgress') = SumFunctionOnSet(StoredBy, InProgress \ {s})
  <2>1. InProgress' \ {s} = InProgress'
    BY <1>2
  <2> QED BY <1>1, <2>1, OthersKept
<1>4. SumFunctionOnSet(StoredBy, InProgress) = request[s].stored + SumFunctionOnSet(StoredBy, InProgress \ {s})
  <2>1. CASE s \in InProgress
    BY <1>1, <2>1, OthersKept
  <2>2. CASE s \notin InProgress
    <3>1. request[s].stored = 0 /\ InProgress \ {s} = InProgress
      BY <2>2 DEF InProgress
    <3>2. SumFunctionOnSet(StoredBy, InProgress \ {s}) = SumFunctionOnSet(StoredBy, InProgress)
      BY <3>1
    <3> QED BY <3>1, <3>2, StoredTypes
  <2> QED BY <2>1, <2>2
<1>5. SumFunctionOnSet(StoredBy, InProgress \ {s}) \in Nat
  BY <1>1, OthersKept
<1> QED BY <1>1, <1>3, <1>4, <1>5, CountsAre DEF CountInv

LEMMA CountsAccepted ==
  ASSUME IInv, IInv', CountInv, NEW s \in Slot, NEW n \in 0..MaxBatch, Accept(s, n)
  PROVE  CountInv'
<1>1. /\ request[s].pc = "transit" /\ request'[s].pc = "working"
      /\ request'[s].stored = request[s].stored /\ UNCHANGED <<stored, landed>>
      /\ \A t \in Slot \ {s} : request'[t] = request[t]
  BY DEF Accept, receiver, history, IInv, Typed, Request
<1>2. request[s].stored = 0
  BY SMTT(20), <1>1 DEF IInv, Typed, Accounts, Account, Request
<1>3. s \in InProgress' /\ s \notin InProgress
  BY <1>1 DEF InProgress
<1>4. SumFunctionOnSet(StoredBy', InProgress') = 0 + SumFunctionOnSet(StoredBy, InProgress \ {s})
  BY <1>1, <1>2, <1>3, OthersKept
<1>5. SumFunctionOnSet(StoredBy, InProgress \ {s}) = SumFunctionOnSet(StoredBy, InProgress)
  <2>1. InProgress \ {s} = InProgress
    BY <1>3
  <2> QED BY <2>1
<1>6. SumFunctionOnSet(StoredBy, InProgress) \in Nat
  BY StoredTypes
<1>7. SumFunctionOnSet(StoredBy', InProgress') = SumFunctionOnSet(StoredBy, InProgress)
  BY <1>4, <1>5, <1>6
<1>8. landed' = stored' + SumFunctionOnSet(StoredBy', InProgress')
  BY <1>1, <1>7, CountsAre DEF CountInv
<1> QED BY <1>1, <1>8, CountsAre DEF CountInv

LEMMA CountsStored ==
  ASSUME IInv, IInv', CountInv, NEW s \in Slot, Store(s)
  PROVE  CountInv'
<1>1. /\ request[s].pc = "working" /\ request'[s].pc = "working"
      /\ request'[s].stored = request[s].stored + 1
      /\ stored' = stored /\ landed' = landed + 1 /\ request[s].stored \in Nat
      /\ \A t \in Slot \ {s} : request'[t] = request[t]
  BY DEF Store, Decoding, IInv, Typed, Request
<1>2. s \in InProgress' /\ s \in InProgress
  BY <1>1 DEF InProgress
<1>3. /\ SumFunctionOnSet(StoredBy, InProgress) = request[s].stored + SumFunctionOnSet(StoredBy, InProgress \ {s})
      /\ SumFunctionOnSet(StoredBy', InProgress')
           = request[s].stored + 1 + SumFunctionOnSet(StoredBy, InProgress \ {s})
      /\ SumFunctionOnSet(StoredBy, InProgress \ {s}) \in Nat
  BY <1>1, <1>2, OthersKept
<1> QED BY <1>1, <1>3, CountsAre DEF CountInv

(* The counts start again with the process. *)
LEMMA CountsRestarted ==
  ASSUME IInv, IInv', CountInv, NEW n \in 0..Len(index), RestartReceiver(n)
  PROVE  CountInv'
<1>1. stored' = 0 /\ landed' = 0
  BY DEF RestartReceiver
<1>2. \A s \in Slot : request'[s].pc # "working"
  BY DEF RestartReceiver, Free
<1>3. InProgress' = {}
  BY <1>2 DEF InProgress
<1> QED BY <1>1, <1>3, SumEmpty, CountsAre DEF CountInv

LEMMA CountsHold ==
  ASSUME IInv, IInv', CountInv, [Next]_vars
  PROVE  CountInv'
<1> USE DEF Free
<1>1. CASE Pass \/ Wait \/ UNCHANGED vars
  BY <1>1, CountsKept DEF Pass, BeginPass, Wait, vars, receiver, history
<1>2. CASE GiveUp
  BY <1>2, CountsKept DEF GiveUp, receiver, IInv, Typed
<1>3. CASE ProxyAnswers
  BY <1>3, CountsKept DEF ProxyAnswers, receiver, IInv, Typed
<1>4. CASE \E found \in SUBSET (ready \cup acked) : RestartSender(found)
  BY <1>4, CountsKept DEF RestartSender, receiver, history, IInv, Typed
<1>5. CASE \E n \in 0..Len(index) : RestartReceiver(n)
  BY <1>5, CountsRestarted
<1>6. ASSUME NEW s \in Slot, Send(s) PROVE CountInv'
  <2>1. PICK batch \in Batches : SendBatch(s, batch)
    BY <1>6 DEF Send
  <2>2. request[s].pc = "free"
    BY <2>1 DEF SendBatch, FreeSlots
  <2>3. /\ request' = [request EXCEPT ![s] = [Free EXCEPT !.pc = "transit", !.batch = batch,
                                                          !.whole = Len(batch)]]
        /\ UNCHANGED <<stored, landed>>
    BY <2>1 DEF SendBatch, receiver, history
  <2> QED BY <2>2, <2>3, CountsKept DEF IInv, Typed
<1>7. ASSUME NEW s \in Slot, Handle(s) PROVE CountInv'
  <2>1. CASE \E n \in 0..MaxBatch : Accept(s, n)
    BY <2>1, CountsAccepted
  <2>2. CASE Duplicate(s)
    BY <2>2, CountsKept DEF Duplicate, history, IInv, Typed, Request
  <2>3. CASE Store(s)
    BY <2>3, CountsStored
  <2>4. CASE AppendFails(s) \/ SyncFails(s) \/ \E ok \in BOOLEAN : EndOfBody(s, ok)
    <3>1. request[s].pc = "working" /\ landed' = landed
      BY <2>4 DEF AppendFails, SyncFails, EndOfBody, Decoding, history
    <3>2. PICK ok \in BOOLEAN : Reply(s, ok)
      BY <2>4 DEF AppendFails, SyncFails, EndOfBody
    <3> QED BY <3>1, <3>2, CountsReplied
  <2> QED BY <1>7, <2>1, <2>2, <2>3, <2>4 DEF Handle
<1>8. ASSUME NEW s \in Slot, Refuse(s) PROVE CountInv'
  <2>1. request[s].stored = 0
    BY SMTT(20), <1>8 DEF Refuse, IInv, Typed, Accounts, Account, Request
  <2>2. Reply(s, FALSE) /\ landed' = landed
    BY <1>8 DEF Refuse, history
  <2> QED BY <2>1, <2>2, CountsReplied
<1>9. ASSUME NEW s \in Slot, Lose(s) PROVE CountInv'
  BY <1>9, CountsKept DEF Lose, receiver, history, IInv, Typed
<1>10. ASSUME NEW s \in Slot, Answer(s) PROVE CountInv'
  BY <1>10, CountsKept DEF Answer, receiver, IInv, Typed
<1> QED
  BY <1>1, <1>2, <1>3, <1>4, <1>5, <1>6, <1>7, <1>8, <1>9, <1>10 DEF Next

-----------------------------------------------------------------------------
(* The delay. *)

LEMMA BackoffConstants ==
  /\ BackoffMin \in Nat /\ BackoffMin > 0 /\ BackoffMax \in Nat /\ BackoffMin <= BackoffMax
  /\ ShiftCap \in Nat /\ Doublings \in Nat /\ ShiftCap <= Doublings
  /\ MaxFails \in Nat /\ MaxFails > 0 /\ MaxFaults \in Nat
BY PushAssumption

LEMMA DoubledIs ==
  /\ Doubled[0] = BackoffMin
  /\ \A k \in 0..Doublings : k # 0 => Doubled[k] = 2 * Doubled[k - 1]
<1> DEFINE Step(d, k) == IF k = 0 THEN BackoffMin ELSE 2 * d[k - 1]
           Rec(n, d) == d = [k \in 0..n |-> Step(d, k)]
           Bad == {n \in Nat : ~\E d : Rec(n, d)}
<1>1. Bad = {}
  <2> SUFFICES ASSUME Bad # {} PROVE FALSE
    OBVIOUS
  <2>1. PICK n \in Bad : \A m \in Bad : n <= m
    <3> HIDE DEF Bad
    <3>1. Bad \in SUBSET Nat
      BY DEF Bad
    <3> QED BY <3>1, LeastIn
  <2>2. CASE n = 0
    <3>1. Rec(0, [k \in 0..0 |-> BackoffMin])
      OBVIOUS
    <3> HIDE DEF Rec
    <3> QED BY <2>2, <3>1
  <2>3. CASE n # 0
    <3>1. n - 1 \in Nat /\ n \in Nat
      BY <2>3
    <3>2. PICK d : Rec(n - 1, d)
      <4>1. n - 1 \notin Bad
        <5> HIDE DEF Bad
        <5> QED BY <2>1, <3>1
      <4> HIDE DEF Rec
      <4> QED BY <3>1, <4>1
    <3> DEFINE e == [k \in 0..n |-> Step(d, k)]
    <3>3. \A k \in 0..(n - 1) : e[k] = d[k]
      BY <3>1, <3>2
    <3>4. \A k \in 0..n : Step(d, k) = Step(e, k)
      <4> HIDE DEF e
      <4> QED BY <3>1, <3>3
    <3>5. Rec(n, e)
      <4> HIDE DEF Step
      <4>1. e = [k \in 0..n |-> Step(d, k)]
        OBVIOUS
      <4> HIDE DEF e
      <4>2. [k \in 0..n |-> Step(d, k)] = [k \in 0..n |-> Step(e, k)]
        BY <3>4
      <4> QED BY <4>1, <4>2
    <3> HIDE DEF Rec, e
    <3> QED BY <3>5
  <2> QED BY <2>2, <2>3
<1>2. PICK d : Rec(Doublings, d)
  <2> HIDE DEF Rec
  <2> QED BY <1>1, BackoffConstants
<1>3. Doubled = [k \in 0..Doublings |-> Step(Doubled, k)]
  BY <1>2 DEF Doubled
<1> QED BY <1>3, BackoffConstants

(* Every doubling that fits adds to the delay. *)
LEMMA DoubledGrows ==
  ASSUME NEW k \in 0..Doublings
  PROVE  /\ Doubled[k] \in Nat /\ Doubled[k] >= BackoffMin
         /\ k # 0 => Doubled[k] >= Doubled[k - 1]
<1> DEFINE Good(n) == Doubled[n] \in Nat /\ Doubled[n] >= BackoffMin
           Bad == {n \in 0..Doublings : ~Good(n)}
<1>1. Bad = {}
  <2> SUFFICES ASSUME Bad # {} PROVE FALSE
    OBVIOUS
  <2>1. PICK n \in Bad : \A m \in Bad : n <= m
    <3> HIDE DEF Good
    <3>1. Bad \in SUBSET Nat
      OBVIOUS
    <3> HIDE DEF Bad
    <3> QED BY <3>1, LeastIn
  <2>2. n \in 0..Doublings /\ ~Good(n)
    OBVIOUS
  <2>3. n # 0
    BY <2>2, DoubledIs, BackoffConstants
  <2>4. Good(n - 1)
    <3>1. n - 1 \in 0..Doublings
      BY <2>2, <2>3, BackoffConstants
    <3>2. n - 1 \notin Bad
      <4>1. n \in Int /\ ~(n <= n - 1)
        BY <2>2
      <4> HIDE DEF Bad
      <4> QED BY <2>1, <4>1
    <3> HIDE DEF Good
    <3> QED BY <3>1, <3>2
  <2> QED BY <2>2, <2>3, <2>4, DoubledIs, BackoffConstants
<1>2. Good(k)
  BY <1>1
<1>3. CASE k # 0
  <2>1. k - 1 \in 0..Doublings
    BY <1>3, BackoffConstants
  <2>2. Good(k - 1)
    BY <1>1, <2>1
  <2> QED BY <1>2, <1>3, <2>2, DoubledIs
<1> QED BY <1>2, <1>3

LEMMA DelayGrows ==
  ASSUME NEW n \in Nat \ {0}
  PROVE  Delay(n) \in BackoffMin..BackoffMax /\ Delay(n + 1) >= Delay(n)
<1> DEFINE j(m) == IF m - 1 < ShiftCap THEN m - 1 ELSE ShiftCap
<1>1. j(n) \in 0..Doublings /\ j(n + 1) \in 0..Doublings /\ (j(n + 1) = j(n) \/ (j(n + 1) # 0 /\ j(n) = j(n + 1) - 1))
  BY BackoffConstants
<1>2. Delay(n) = Clipped(Shifted(j(n))) /\ Delay(n + 1) = Clipped(Shifted(j(n + 1)))
  BY DEF Delay
<1> HIDE DEF j
<1>3. Shifted(j(n)) = Doubled[j(n)] /\ Shifted(j(n + 1)) = Doubled[j(n + 1)]
  BY <1>1, BackoffConstants DEF Shifted
<1>4. /\ Doubled[j(n)] \in Nat /\ Doubled[j(n)] >= BackoffMin /\ Doubled[j(n + 1)] \in Nat
      /\ Doubled[j(n + 1)] >= Doubled[j(n)]
  BY <1>1, DoubledGrows
<1> QED BY <1>2, <1>3, <1>4, BackoffConstants DEF Clipped

(* The backoff.  The delay is that of the failures counted. *)
Backoff ==
  /\ fails \in 0..MaxFails /\ due \in BOOLEAN /\ faults \in 0..MaxFaults
  /\ delay = IF fails = 0 THEN 0 ELSE Delay(fails)

(* What a step can do to the counters of the sender, and to the faults.     *)
LEMMA CountersMove ==
  ASSUME [Next]_vars
  PROVE  UNCHANGED <<fails, delay>> \/ failed \/ (fails' = 0 /\ delay' = 0)
<1>1. CASE Pass \/ Wait \/ UNCHANGED vars
  BY <1>1 DEF Pass, BeginPass, Wait, vars, sender
<1>2. CASE GiveUp \/ ProxyAnswers
  BY <1>2 DEF GiveUp, ProxyAnswers, succeeded
<1>3. CASE \/ \E found \in SUBSET (ready \cup acked) : RestartSender(found)
           \/ \E n \in 0..Len(index) : RestartReceiver(n)
  BY <1>3 DEF RestartSender, RestartReceiver, sender
<1>4. ASSUME NEW s \in Slot, Send(s) \/ Handle(s) \/ Refuse(s) \/ Lose(s)
      PROVE  UNCHANGED <<fails, delay>>
  BY <1>4 DEF Send, SendBatch, Refuse, Lose, Handle, Accept, Duplicate, Store, AppendFails,
              SyncFails, EndOfBody, sender
<1>5. ASSUME NEW s \in Slot, Answer(s)
      PROVE  UNCHANGED <<fails, delay>> \/ failed \/ (fails' = 0 /\ delay' = 0)
  BY <1>5 DEF Answer, succeeded, sender
<1> QED BY <1>1, <1>2, <1>3, <1>4, <1>5 DEF Next

LEMMA DueMoves ==
  ASSUME [Next]_vars
  PROVE  due' = due \/ due' = TRUE \/ due' = FALSE
<1>1. CASE Pass \/ Wait \/ UNCHANGED vars
  BY <1>1 DEF Pass, BeginPass, Wait, vars, sender
<1>2. CASE GiveUp \/ ProxyAnswers
  BY <1>2 DEF GiveUp, ProxyAnswers, succeeded, failed
<1>3. CASE \/ \E found \in SUBSET (ready \cup acked) : RestartSender(found)
           \/ \E n \in 0..Len(index) : RestartReceiver(n)
  BY <1>3 DEF RestartSender, RestartReceiver, sender
<1>4. ASSUME NEW s \in Slot, Send(s) \/ Handle(s) \/ Refuse(s) \/ Lose(s)
      PROVE  due' = due
  BY <1>4 DEF Send, SendBatch, Refuse, Lose, Handle, Accept, Duplicate, Store, AppendFails,
              SyncFails, EndOfBody, sender
<1>5. ASSUME NEW s \in Slot, Answer(s)
      PROVE  due' = due \/ due' = TRUE \/ due' = FALSE
  BY <1>5 DEF Answer, succeeded, failed, sender
<1> QED BY <1>1, <1>2, <1>3, <1>4, <1>5 DEF Next

LEMMA FaultsMove ==
  ASSUME [Next]_vars
  PROVE  faults' = faults \/ Fault
<1>1. CASE Pass \/ Wait \/ UNCHANGED vars
  BY <1>1 DEF Pass, BeginPass, Wait, vars
<1>2. CASE GiveUp \/ ProxyAnswers
  BY <1>2 DEF GiveUp, ProxyAnswers
<1>3. CASE \/ \E found \in SUBSET (ready \cup acked) : RestartSender(found)
           \/ \E n \in 0..Len(index) : RestartReceiver(n)
  BY <1>3 DEF RestartSender, RestartReceiver
<1>4. ASSUME NEW s \in Slot, Send(s) \/ Handle(s) \/ Refuse(s) \/ Lose(s) \/ Answer(s)
      PROVE  faults' = faults \/ Fault
  BY <1>4 DEF Send, SendBatch, Refuse, Lose, Handle, Accept, Duplicate, Store, AppendFails,
              SyncFails, EndOfBody, Answer
<1> QED BY <1>1, <1>2, <1>3, <1>4 DEF Next

LEMMA BackoffHolds ==
  ASSUME Backoff, [Next]_vars
  PROVE  Backoff'
<1>1. faults' \in 0..MaxFaults
  <2>1. faults' = faults \/ (faults < MaxFaults /\ faults' = faults + 1)
    BY FaultsMove DEF Fault
  <2> QED BY <2>1, BackoffConstants DEF Backoff
<1>2. fails' \in 0..MaxFails /\ delay' = IF fails' = 0 THEN 0 ELSE Delay(fails')
  <2>1. fails \in 0..MaxFails /\ delay = IF fails = 0 THEN 0 ELSE Delay(fails)
    BY DEF Backoff
  <2>2. CASE failed
    <3>1. fails' \in 0..MaxFails /\ fails' # 0 /\ delay' = Delay(fails')
      BY <2>1, <2>2, BackoffConstants DEF failed
    <3> QED BY <3>1
  <2>3. CASE UNCHANGED <<fails, delay>>
    BY <2>1, <2>3
  <2>4. CASE fails' = 0 /\ delay' = 0
    BY <2>4, BackoffConstants
  <2> QED BY <2>2, <2>3, <2>4, CountersMove
<1>3. due' \in BOOLEAN
  <2>1. due \in BOOLEAN
    BY DEF Backoff
  <2> QED BY <2>1, DueMoves, Zenon
<1> QED BY <1>1, <1>2, <1>3 DEF Backoff

(* ... and so it grows. *)
LEMMA BackoffStep ==
  ASSUME Backoff, Backoff', [Next]_vars, fails' > 0
  PROVE  delay' \in BackoffMin..BackoffMax /\ delay' >= delay
<1>1. delay' = Delay(fails') /\ fails' \in Nat \ {0}
  BY BackoffConstants DEF Backoff
<1>2. delay' \in BackoffMin..BackoffMax
  BY <1>1, DelayGrows
<1>3. CASE fails = 0
  BY <1>2, <1>3, BackoffConstants DEF Backoff
<1>4. CASE fails # 0 /\ fails' = fails
  <2>1. delay' = delay
    BY <1>1, <1>4 DEF Backoff
  <2> QED BY <1>2, <2>1, BackoffConstants
<1>5. CASE fails # 0 /\ fails' # fails
  <2>1. fails \in Nat \ {0} /\ delay = Delay(fails)
    BY <1>5, BackoffConstants DEF Backoff
  <2>3. failed
    BY <1>1, <1>5, CountersMove
  <2>4. fails' = fails + 1
    BY <1>5, <2>3 DEF failed
  <2>2. Delay(fails + 1) >= Delay(fails)
    BY <2>1, DelayGrows
  <2>5. delay' = Delay(fails + 1)
    BY <1>1, <2>4
  <2> QED BY <1>2, <2>1, <2>2, <2>5
<1> QED BY <1>3, <1>4, <1>5

-----------------------------------------------------------------------------
(* The invariant of all of the link's safety.                               *)
Whole == IInv /\ CountInv /\ Backoff

LEMMA WholeInitially == Init => Whole
<1> SUFFICES ASSUME Init PROVE Whole
  OBVIOUS
<1>1. IInv
  BY Initially
<1>2. InProgress = {} /\ stored = 0 /\ landed = 0
  BY DEF Init, InProgress, Free
<1>3. CountInv
  BY <1>2, SumEmpty, CountsAre DEF CountInv
<1>4. Backoff
  BY BackoffConstants DEF Init, Backoff
<1> QED BY <1>1, <1>3, <1>4 DEF Whole

LEMMA WholeInductive == Whole /\ [Next]_vars => Whole'
BY Inductive, CountsHold, BackoffHolds DEF Whole

LEMMA AlwaysWhole == Spec => []Whole
BY WholeInitially, WholeInductive, PTL DEF Spec

(* The state stays well typed: no request handles more than it can read,    *)
(* the counts are naturals and the delay is within its maximum (push.go,    *)
(* receive.go).                                                             *)
THEOREM TypeCorrect == Spec => []TypeOK
<1>1. Whole => TypeOK
  <2> SUFFICES ASSUME Whole PROVE TypeOK
    OBVIOUS
  <2>1. delay \in 0..BackoffMax
    <3>1. fails # 0 => Delay(fails) \in BackoffMin..BackoffMax
      BY DelayGrows, BackoffConstants DEF Whole, Backoff
    <3> QED BY <3>1, BackoffConstants DEF Whole, Backoff
  <2>2. \A s \in Slot : request[s].done <= request[s].whole
    BY DEF Whole, IInv, Accounts, Account
  <2> QED BY <2>1, <2>2 DEF TypeOK, Whole, IInv, Typed, Line, CountInv, Backoff
<1> QED BY <1>1, AlwaysWhole, PTL

(* No call is in the day twice, and what the receiver has counted as stored *)
(* is what landed since it started, but for requests still at work: also    *)
(* for batches that failed half way (receive.go:138, 157).                  *)
THEOREM EachStoredOnce == Spec => []StoredOnce
<1>1. Whole => StoredOnce
  BY DEF Whole, IInv, CountInv, StoredOnce
<1> QED BY <1>1, AlwaysWhole, PTL

(* The delay of a failing sender is between its bounds and never shrinks,   *)
(* for every number of failures: the shift is capped before it can overflow *)
(* and clipped after (push.go:134-146).                                     *)
THEOREM DelayNeverShrinks == Spec => BackoffGrows
<1>1. Whole /\ Whole' /\ [Next]_vars
      => [fails' > 0 => delay' \in BackoffMin..BackoffMax /\ delay' >= delay]_vars
  BY BackoffStep DEF Whole
<1> QED BY <1>1, AlwaysWhole, PTL DEF Spec, BackoffGrows
=============================================================================
