--------------------------- MODULE RequestsProofs ---------------------------
(***************************************************************************)
(* Proofs about the two caches, for any number of requests and tokens, any *)
(* lifetimes and timeouts, and any cap.                                    *)
(***************************************************************************)
EXTENDS Requests, FiniteSetTheorems, TLAPS

(* The constants one by one, as the provers want them. *)
LEMMA Times ==
  /\ AuthTTL \in Nat /\ NegTTL \in Nat /\ AuthTimeout \in Nat /\ Cap \in Nat
  /\ ChannelTTL \in Nat /\ RetryEvery \in Nat /\ FetchTimeout \in Nat
  /\ MaxChanges \in Nat /\ RetryEvery <= ChannelTTL
  /\ None \notin Req /\ None \notin Token
  /\ FarChange \in Nat /\ FarFailure \in Nat /\ FarSnapshot \in Nat
  /\ FetchTimeout <= FarSnapshot
BY TimesAssumption DEF FarChange, FarFailure, FarSnapshot

USE Times

(* The clocks only tell the truth together with where a request is: one     *)
(* that fetches holds the lock, and no call is older than its timeout.      *)
Exclusive == \A r \in Req : pc[r] = "fetching" <=> holder = r
InTime ==
  \A r \in Req : /\ Asking(r) => tok[r] \in Token /\ spent[r] <= AuthTimeout
                 /\ pc[r] = "fetching" => spent[r] <= FetchTimeout

(* How far an admission can be behind: what a request has in its hands is   *)
(* as old as its call, and what is cached has used up the rest of its       *)
(* lifetime as well.                                                        *)
Behind(t, ticks) == valid[t] \/ since[t] <= ticks
Refused(t, ticks) == ~valid[t] \/ since[t] <= ticks \/ calm <= ticks
InHand ==
  \A r \in Req : pc[r] = "verified" =>
    IF answer[r] THEN Behind(tok[r], spent[r]) ELSE Refused(tok[r], spent[r])
InCache ==
  \A t \in DOMAIN cache : cache[t].left >= 0 =>
    IF cache[t].ok THEN cache[t].left <= AuthTTL
                        /\ Behind(t, AuthTimeout + AuthTTL - cache[t].left)
    ELSE cache[t].left <= NegTTL
         /\ Refused(t, AuthTimeout + NegTTL - cache[t].left)

(* The list of channels is no older than the time since it was fetched and  *)
(* the time that took; and without a failure since then, nobody has tried.  *)
ListAge ==
  /\ fetched < ChannelTTL => snapshot <= fetched + FetchTimeout
  /\ ~failed /\ tried < RetryEvery => fetched <= tried

IInv ==
  /\ TypeOK /\ IsFiniteSet(DOMAIN cache)
  /\ Exclusive /\ InTime /\ InHand /\ InCache /\ ListAge

LEMMA Initially == Init => IInv
<1> SUFFICES ASSUME Init PROVE IInv
  OBVIOUS
<1>1. DOMAIN cache = {} /\ IsFiniteSet(DOMAIN cache) /\ Cardinality(DOMAIN cache) = 0
  BY FS_EmptySet DEF Init
<1>2. TypeOK
  <2>1. /\ DOMAIN cache \subseteq Token /\ \A t \in DOMAIN cache : cache[t] \in Verdict
        /\ Cardinality(DOMAIN cache) <= Cap + 1
    BY <1>1
  <2>2. /\ pc \in [Req -> {"idle", "verifying", "verified", "admitted", "waiting", "fetching"}]
        /\ tok \in [Req -> Token \cup {None}] /\ answer \in [Req -> BOOLEAN]
        /\ spent \in [Req -> 0..AuthTimeout + FetchTimeout]
        /\ valid \in [Token -> BOOLEAN] /\ since \in [Token -> 0..FarChange]
    BY DEF Init
  <2>3. holder \in Req \cup {None} /\ names \in BOOLEAN /\ failed \in BOOLEAN
    BY DEF Init
  <2>4. /\ fetched \in 0..ChannelTTL /\ tried \in 0..RetryEvery
        /\ snapshot \in 0..FarSnapshot /\ changes \in 0..MaxChanges /\ calm \in 0..FarFailure
    BY DEF Init
  <2> QED BY <2>1, <2>2, <2>3, <2>4 DEF TypeOK
<1>3. Exclusive /\ InTime /\ InHand /\ ListAge
  BY DEF Init, Exclusive, InTime, InHand, ListAge, Asking
<1>4. InCache
  BY <1>1 DEF InCache
<1> QED BY <1>1, <1>2, <1>3, <1>4 DEF IInv

(* Every step keeps all of it, action by action. *)
LEMMA Inductive == IInv /\ [Next]_vars => IInv'
<1> SUFFICES ASSUME IInv, [Next]_vars PROVE IInv'
  OBVIOUS
<1> USE DEF IInv, auth, channels, newapi
<1>1. ASSUME Tick PROVE IInv'
  <2> USE <1>1 DEF Tick, Later
  <2>1. TypeOK'
    <3>1. \A t \in DOMAIN cache : [cache[t] EXCEPT !.left = IF @ < 0 THEN @ ELSE @ - 1] \in Verdict
      BY DEF TypeOK, Verdict
    <3>2. \A t \in DOMAIN cache' : cache'[t] \in Verdict
      BY <3>1
    <3>3. DOMAIN cache' = DOMAIN cache
      OBVIOUS
    <3> QED BY <3>2, <3>3 DEF TypeOK, Asking
  <2>2. IsFiniteSet(DOMAIN cache)'
    OBVIOUS
  <2>3. Exclusive'
    BY DEF Exclusive, TypeOK
  <2>4. InTime'
    BY DEF InTime, Asking, TypeOK, Exclusive
  <2>5. InHand'
    <3> SUFFICES ASSUME NEW q \in Req, pc[q] = "verified"
                 PROVE  (IF answer[q] THEN Behind(tok[q], spent[q])
                                      ELSE Refused(tok[q], spent[q]))'
      BY DEF InHand
    <3>1. tok[q] \in Token /\ spent[q] \in Nat /\ spent'[q] = spent[q] + 1
      BY DEF Asking, InTime, TypeOK
    <3>2. /\ since[tok[q]] \in Nat /\ since'[tok[q]] \in Nat /\ calm \in Nat /\ calm' \in Nat
          /\ since'[tok[q]] <= since[tok[q]] + 1 /\ calm' <= calm + 1
      BY <3>1 DEF TypeOK
    <3> QED BY <3>1, <3>2 DEF InHand, Behind, Refused
  <2>6. InCache'
    <3> SUFFICES ASSUME NEW t \in DOMAIN cache, cache'[t].left >= 0
                 PROVE  (IF cache[t].ok THEN cache[t].left <= AuthTTL
                           /\ Behind(t, AuthTimeout + AuthTTL - cache[t].left)
                         ELSE cache[t].left <= NegTTL
                           /\ Refused(t, AuthTimeout + NegTTL - cache[t].left))'
      BY DEF InCache
    <3>1. /\ t \in Token /\ cache[t].left \in Nat /\ cache[t].ok \in BOOLEAN
          /\ cache'[t].left = cache[t].left - 1 /\ cache'[t].ok = cache[t].ok
      BY DEF TypeOK, Verdict
    <3>2. /\ since[t] \in Nat /\ since'[t] \in Nat /\ calm \in Nat /\ calm' \in Nat
          /\ since'[t] <= since[t] + 1 /\ calm' <= calm + 1
      BY <3>1 DEF TypeOK
    <3> QED BY <3>1, <3>2 DEF InCache, Behind, Refused
  <2>7. ListAge'
    <3>1. /\ fetched \in 0..ChannelTTL /\ tried \in 0..RetryEvery /\ snapshot \in 0..FarSnapshot
          /\ fetched' = (IF fetched < ChannelTTL THEN fetched + 1 ELSE ChannelTTL)
          /\ tried' = (IF tried < RetryEvery THEN tried + 1 ELSE RetryEvery)
          /\ snapshot' \in Nat /\ snapshot' <= snapshot + 1 /\ failed' = failed
      BY DEF TypeOK
    <3> QED BY <3>1 DEF ListAge
  <2> QED BY <2>1, <2>2, <2>3, <2>4, <2>5, <2>6, <2>7
<1>2. ASSUME NEW t \in Token, Change(t) PROVE IInv'
  <2> USE <1>2 DEF Change
  <2>1. TypeOK'
    BY DEF TypeOK
  <2>2. IsFiniteSet(DOMAIN cache)'
    OBVIOUS
  <2>3. Exclusive'
    BY DEF Exclusive, TypeOK
  <2>4. InTime'
    BY DEF InTime, Asking, TypeOK, Exclusive
  <2>5. InHand'
    BY DEF InHand, Behind, Refused, TypeOK, InTime, Asking
  <2>6. InCache'
    BY DEF InCache, Behind, Refused, TypeOK, Verdict, InHand, InTime, Asking
  <2>7. ListAge'
    BY DEF ListAge, TypeOK, InTime, Asking
  <2> QED BY <2>1, <2>2, <2>3, <2>4, <2>5, <2>6, <2>7
<1>3. ASSUME NEW r \in Req, Verified(r) PROVE IInv'
  <2> USE <1>3 DEF Verified
  <2>1. TypeOK'
    <3>1. tok[r] \in Token
      BY DEF InTime, Asking
    <3>2. valid[tok[r]] \in BOOLEAN
      BY <3>1 DEF TypeOK
    <3> QED BY <3>2 DEF TypeOK
  <2>2. IsFiniteSet(DOMAIN cache)'
    OBVIOUS
  <2>3. Exclusive'
    BY DEF Exclusive, TypeOK
  <2>4. InTime'
    BY DEF InTime, Asking, TypeOK, Exclusive
  <2>5. InHand'
    BY DEF InHand, Behind, Refused, TypeOK, InTime, Asking
  <2>6. InCache'
    BY DEF InCache, Behind, Refused, TypeOK, Verdict, InHand, InTime, Asking
  <2>7. ListAge'
    BY DEF ListAge, TypeOK, InTime, Asking
  <2> QED BY <2>1, <2>2, <2>3, <2>4, <2>5, <2>6, <2>7
<1>4. ASSUME NEW r \in Req, VerifyFails(r) PROVE IInv'
  <2> USE <1>4 DEF VerifyFails
  <2>1. TypeOK'
    BY DEF TypeOK
  <2>2. IsFiniteSet(DOMAIN cache)'
    OBVIOUS
  <2>3. Exclusive'
    BY DEF Exclusive, TypeOK
  <2>4. InTime'
    BY DEF InTime, Asking, TypeOK, Exclusive
  <2>5. InHand'
    BY DEF InHand, Behind, Refused, TypeOK, InTime, Asking
  <2>6. InCache'
    BY DEF InCache, Behind, Refused, TypeOK, Verdict, InHand, InTime, Asking
  <2>7. ListAge'
    BY DEF ListAge, TypeOK, InTime, Asking
  <2> QED BY <2>1, <2>2, <2>3, <2>4, <2>5, <2>6, <2>7
<1>5. ASSUME NEW r \in Req, Put(r) PROVE IInv'
  <2> USE <1>5 DEF Put, Decided
  <2>1. TypeOK'
    <3>1. tok[r] \in Token /\ answer[r] \in BOOLEAN
      BY DEF TypeOK, InTime, Asking
    <3>2. IsFiniteSet(Survivors) /\ Cardinality(Survivors) \in 0..Cap
      <4>1. Cardinality(DOMAIN cache) \in Nat
        BY FS_CardinalityType
      <4> QED BY <4>1, FS_EmptySet DEF Survivors
    <3>3. Cardinality(Survivors \cup {tok[r]}) <= Cap + 1
      <4>1. Cardinality(Survivors \cup {tok[r]}) =
              IF tok[r] \in Survivors THEN Cardinality(Survivors) ELSE Cardinality(Survivors) + 1
        BY <3>2, FS_AddElement
      <4> QED BY <3>2, <4>1
    <3>4. DOMAIN cache' = Survivors \cup {tok[r]}
      OBVIOUS
    <3>5. [ok |-> answer[r], left |-> Lifetime(answer[r])] \in Verdict
      BY <3>1 DEF Verdict, Lifetime
    <3>6. \A u \in DOMAIN cache' : cache'[u] \in Verdict
      BY <3>4, <3>5 DEF TypeOK, Survivors
    <3>7. DOMAIN cache' \subseteq Token
      BY <3>1, <3>4 DEF TypeOK, Survivors
    <3>8. /\ pc' \in [Req -> {"idle", "verifying", "verified", "admitted", "waiting", "fetching"}]
          /\ tok' \in [Req -> Token \cup {None}] /\ answer' \in [Req -> BOOLEAN]
          /\ spent' \in [Req -> 0..AuthTimeout + FetchTimeout]
      BY DEF TypeOK
    <3>9. Cardinality(DOMAIN cache') <= Cap + 1
      BY <3>3, <3>4
    <3> HIDE <1>5 DEF Put
    <3>10. UNCHANGED <<holder, names, fetched, tried, snapshot, failed, valid, since, changes, calm>>
      BY <1>5 DEF Put
    <3> QED BY <3>6, <3>7, <3>8, <3>9, <3>10 DEF TypeOK
  <2>2. IsFiniteSet(DOMAIN cache)'
    <3>1. IsFiniteSet(Survivors)
      BY FS_EmptySet DEF Survivors
    <3>2. DOMAIN cache' = Survivors \cup {tok[r]}
      OBVIOUS
    <3> QED BY <3>1, <3>2, FS_AddElement
  <2>3. Exclusive'
    BY DEF Exclusive, TypeOK
  <2>4. InTime'
    BY DEF InTime, Asking, TypeOK, Exclusive
  <2>5. InHand'
    BY DEF InHand, Behind, Refused, TypeOK, InTime, Asking
  <2>6. InCache'
    <3> SUFFICES ASSUME NEW t \in DOMAIN cache', cache'[t].left >= 0
                 PROVE  (IF cache[t].ok THEN cache[t].left <= AuthTTL
                           /\ Behind(t, AuthTimeout + AuthTTL - cache[t].left)
                         ELSE cache[t].left <= NegTTL
                           /\ Refused(t, AuthTimeout + NegTTL - cache[t].left))'
      BY DEF InCache
    <3>1. CASE t = tok[r]
      <4>1. /\ cache'[t] = [ok |-> answer[r], left |-> Lifetime(answer[r])]
            /\ t \in Token /\ spent[r] \in Nat /\ spent[r] <= AuthTimeout
            /\ since[t] \in Nat /\ calm \in Nat /\ answer[r] \in BOOLEAN
        BY <3>1 DEF TypeOK, InTime, Asking
      <4>2. IF answer[r] THEN Behind(t, spent[r]) ELSE Refused(t, spent[r])
        BY <3>1 DEF InHand
      <4> QED BY <4>1, <4>2 DEF Lifetime, Behind, Refused
    <3>2. CASE t # tok[r]
      <4>1. t \in DOMAIN cache /\ cache'[t] = cache[t]
        BY <3>2 DEF Survivors
      <4> QED BY <4>1 DEF InCache, Behind, Refused
    <3> QED BY <3>1, <3>2
  <2>7. ListAge'
    BY DEF ListAge, TypeOK, InTime, Asking
  <2> QED BY <2>1, <2>2, <2>3, <2>4, <2>5, <2>6, <2>7
<1>6. ASSUME NEW r \in Req, UseNames(r) PROVE IInv'
  <2> USE <1>6 DEF UseNames
  <2>1. TypeOK'
    BY DEF TypeOK
  <2>2. IsFiniteSet(DOMAIN cache)'
    OBVIOUS
  <2>3. Exclusive'
    BY DEF Exclusive, TypeOK
  <2>4. InTime'
    BY DEF InTime, Asking, TypeOK, Exclusive
  <2>5. InHand'
    BY DEF InHand, Behind, Refused, TypeOK, InTime, Asking
  <2>6. InCache'
    BY DEF InCache, Behind, Refused, TypeOK, Verdict, InHand, InTime, Asking
  <2>7. ListAge'
    BY DEF ListAge, TypeOK, InTime, Asking
  <2> QED BY <2>1, <2>2, <2>3, <2>4, <2>5, <2>6, <2>7
<1>7. ASSUME NEW r \in Req, WantFetch(r) PROVE IInv'
  <2> USE <1>7 DEF WantFetch
  <2>1. TypeOK'
    BY DEF TypeOK
  <2>2. IsFiniteSet(DOMAIN cache)'
    OBVIOUS
  <2>3. Exclusive'
    BY DEF Exclusive, TypeOK
  <2>4. InTime'
    BY DEF InTime, Asking, TypeOK, Exclusive
  <2>5. InHand'
    BY DEF InHand, Behind, Refused, TypeOK, InTime, Asking
  <2>6. InCache'
    BY DEF InCache, Behind, Refused, TypeOK, Verdict, InHand, InTime, Asking
  <2>7. ListAge'
    BY DEF ListAge, TypeOK, InTime, Asking
  <2> QED BY <2>1, <2>2, <2>3, <2>4, <2>5, <2>6, <2>7
<1>8. ASSUME NEW r \in Req, Fetched(r) PROVE IInv'
  <2> USE <1>8 DEF Fetched, Release
  <2>1. TypeOK'
    <3>1. snapshot' \in 0..FarSnapshot
      <4>1. spent[r] \in Nat /\ spent[r] <= FetchTimeout
        BY DEF InTime, TypeOK
      <4> QED BY <4>1
    <3>2. /\ pc' \in [Req -> {"idle", "verifying", "verified", "admitted", "waiting", "fetching"}]
          /\ spent' \in [Req -> 0..AuthTimeout + FetchTimeout]
      BY DEF TypeOK
    <3>3. holder' \in Req \cup {None} /\ names' \in BOOLEAN /\ failed' \in BOOLEAN
      OBVIOUS
    <3>4. fetched' \in 0..ChannelTTL /\ tried' \in 0..RetryEvery
      OBVIOUS
    <3>5. UNCHANGED <<tok, answer, cache, valid, since, changes, calm>>
      OBVIOUS
    <3> HIDE <1>8 DEF Fetched, Release
    <3> QED BY <3>1, <3>2, <3>3, <3>4, <3>5 DEF TypeOK
  <2>2. IsFiniteSet(DOMAIN cache)'
    OBVIOUS
  <2>3. Exclusive'
    BY DEF Exclusive, TypeOK
  <2>4. InTime'
    BY DEF InTime, Asking, TypeOK, Exclusive
  <2>5. InHand'
    BY DEF InHand, Behind, Refused, TypeOK, InTime, Asking
  <2>6. InCache'
    BY DEF InCache, Behind, Refused, TypeOK, Verdict, InHand, InTime, Asking
  <2>7. ListAge'
    BY DEF ListAge, TypeOK, InTime, Asking
  <2> QED BY <2>1, <2>2, <2>3, <2>4, <2>5, <2>6, <2>7
<1>9. ASSUME NEW r \in Req, FetchFails(r) PROVE IInv'
  <2> USE <1>9 DEF FetchFails, Release, NamesAfterFailure
  <2>1. TypeOK'
    BY DEF TypeOK
  <2>2. IsFiniteSet(DOMAIN cache)'
    OBVIOUS
  <2>3. Exclusive'
    BY DEF Exclusive, TypeOK
  <2>4. InTime'
    BY DEF InTime, Asking, TypeOK, Exclusive
  <2>5. InHand'
    BY DEF InHand, Behind, Refused, TypeOK, InTime, Asking
  <2>6. InCache'
    BY DEF InCache, Behind, Refused, TypeOK, Verdict, InHand, InTime, Asking
  <2>7. ListAge'
    BY DEF ListAge, TypeOK, InTime, Asking
  <2> QED BY <2>1, <2>2, <2>3, <2>4, <2>5, <2>6, <2>7
<1>10. ASSUME NEW r \in Req, Lock(r) PROVE IInv'
  <2> USE <1>10 DEF Lock, StillStale, stale
  <2>1. TypeOK'
    BY DEF TypeOK
  <2>2. IsFiniteSet(DOMAIN cache)'
    OBVIOUS
  <2>3. Exclusive'
    BY DEF Exclusive, TypeOK
  <2>4. InTime'
    BY DEF InTime, Asking, TypeOK, Exclusive
  <2>5. InHand'
    BY DEF InHand, Behind, Refused, TypeOK, InTime, Asking
  <2>6. InCache'
    BY DEF InCache, Behind, Refused, TypeOK, Verdict, InHand, InTime, Asking
  <2>7. ListAge'
    BY DEF ListAge, TypeOK, InTime, Asking
  <2> QED BY <2>1, <2>2, <2>3, <2>4, <2>5, <2>6, <2>7
<1>11. ASSUME NEW r \in Req, NEW t \in Token, Hit(r, t) PROVE IInv'
  <2> USE <1>11 DEF Hit, Cached, Alive, Expired, Decided
  <2>1. TypeOK'
    BY DEF TypeOK
  <2>2. IsFiniteSet(DOMAIN cache)'
    OBVIOUS
  <2>3. Exclusive'
    BY DEF Exclusive, TypeOK
  <2>4. InTime'
    BY DEF InTime, Asking, TypeOK, Exclusive
  <2>5. InHand'
    BY DEF InHand, Behind, Refused, TypeOK, InTime, Asking
  <2>6. InCache'
    BY DEF InCache, Behind, Refused, TypeOK, Verdict, InHand, InTime, Asking
  <2>7. ListAge'
    BY DEF ListAge, TypeOK, InTime, Asking
  <2> QED BY <2>1, <2>2, <2>3, <2>4, <2>5, <2>6, <2>7
<1>12. ASSUME NEW r \in Req, NEW t \in Token, Miss(r, t) PROVE IInv'
  <2> USE <1>12 DEF Miss
  <2>1. TypeOK'
    BY DEF TypeOK
  <2>2. IsFiniteSet(DOMAIN cache)'
    OBVIOUS
  <2>3. Exclusive'
    BY DEF Exclusive, TypeOK
  <2>4. InTime'
    BY DEF InTime, Asking, TypeOK, Exclusive
  <2>5. InHand'
    BY DEF InHand, Behind, Refused, TypeOK, InTime, Asking
  <2>6. InCache'
    BY DEF InCache, Behind, Refused, TypeOK, Verdict, InHand, InTime, Asking
  <2>7. ListAge'
    BY DEF ListAge, TypeOK, InTime, Asking
  <2> QED BY <2>1, <2>2, <2>3, <2>4, <2>5, <2>6, <2>7
<1>13. CASE UNCHANGED vars
  BY <1>13 DEF vars, TypeOK, Exclusive, InTime, InHand, InCache, ListAge, Asking, Behind, Refused
<1> QED
  BY <1>1, <1>2, <1>3, <1>4, <1>5, <1>6, <1>7, <1>8, <1>9, <1>10, <1>11, <1>12, <1>13 DEF Next, Step

LEMMA Always == Spec => []IInv
BY Initially, Inductive, PTL DEF Spec

(* The state of both caches and of every request stays well typed, and the  *)
(* verdict cache has at most one entry more than its cap (auth.go:58), for  *)
(* any cap.                                                                 *)
THEOREM TypeCorrect == Spec => []TypeOK
<1>1. IInv => TypeOK
  BY DEF IInv
<1> QED BY <1>1, Always, PTL

(* A revoked token opens nothing for longer than the lifetime of a verdict  *)
(* and the timeout of a call, for any number of concurrent requests whose   *)
(* answers overtake one another (auth.go:85-112).                           *)
THEOREM Revocation == Spec => []RevocationHolds
<1>1. IInv => RevocationHolds
  <2> SUFFICES ASSUME IInv, NEW t \in Says(TRUE)
               PROVE  Behind(t, AuthTTL + AuthTimeout)
    BY DEF RevocationHolds, Behind
  <2> USE DEF IInv
  <2>1. CASE t \in Token /\ Cached(t) /\ cache[t].ok = TRUE
    <3>1. /\ t \in DOMAIN cache /\ cache[t].left \in Nat /\ since[t] \in Nat
      BY <2>1 DEF Cached, Alive, Expired, TypeOK, Verdict
    <3>2. Behind(t, AuthTimeout + AuthTTL - cache[t].left)
      BY <2>1, <3>1 DEF InCache
    <3> QED BY <3>1, <3>2 DEF Behind
  <2>2. ASSUME NEW r \in Req, pc[r] = "verified", answer[r] = TRUE, t = tok[r]
        PROVE  Behind(t, AuthTTL + AuthTimeout)
    <3>1. /\ t \in Token /\ spent[r] \in Nat /\ spent[r] <= AuthTimeout
      BY <2>2 DEF InTime, Asking, TypeOK
    <3>2. since[t] \in Nat
      BY <3>1 DEF TypeOK
    <3>3. Behind(t, spent[r])
      BY <2>2 DEF InHand
    <3> QED BY <3>1, <3>2, <3>3 DEF Behind
  <2> QED BY <2>1, <2>2 DEF Says
<1> QED BY <1>1, Always, PTL

(* A good token is refused only within the shorter lifetime and the timeout *)
(* of a call after it was bad or a call failed (auth.go:104-107).           *)
THEOREM Refusal == Spec => []RefusalPasses
<1>1. IInv => RefusalPasses
  <2> SUFFICES ASSUME IInv, NEW t \in Says(FALSE)
               PROVE  Refused(t, NegTTL + AuthTimeout)
    BY DEF RefusalPasses, Refused
  <2> USE DEF IInv
  <2>1. CASE t \in Token /\ Cached(t) /\ cache[t].ok = FALSE
    <3>1. /\ t \in DOMAIN cache /\ cache[t].left \in Nat /\ since[t] \in Nat /\ calm \in Nat
      BY <2>1 DEF Cached, Alive, Expired, TypeOK, Verdict
    <3>2. Refused(t, AuthTimeout + NegTTL - cache[t].left)
      BY <2>1, <3>1 DEF InCache
    <3> QED BY <3>1, <3>2 DEF Refused
  <2>2. ASSUME NEW r \in Req, pc[r] = "verified", answer[r] = FALSE, t = tok[r]
        PROVE  Refused(t, NegTTL + AuthTimeout)
    <3>1. /\ t \in Token /\ spent[r] \in Nat /\ spent[r] <= AuthTimeout /\ calm \in Nat
      BY <2>2 DEF InTime, Asking, TypeOK
    <3>2. since[t] \in Nat
      BY <3>1 DEF TypeOK
    <3>3. Refused(t, spent[r])
      BY <2>2 DEF InHand
    <3> QED BY <3>1, <3>2, <3>3 DEF Refused
  <2> QED BY <2>1, <2>2 DEF Says
<1> QED BY <1>1, Always, PTL

(* The list of channels is asked for by one request at a time, and not      *)
(* before its delay is over, however many requests find it stale at once    *)
(* (channels.go:77-101).                                                    *)
THEOREM OneFetchAtATime == Spec => NoStampede
<1> DEFINE Begins == \A r \in Req : (pc[r] # "fetching" /\ pc'[r] = "fetching") =>
                       /\ tried >= RetryEvery
                       /\ \A q \in Req : pc[q] # "fetching"
<1>1. IInv /\ [Next]_vars => [Begins]_vars
  <2> SUFFICES ASSUME IInv, Next,
                      NEW r \in Req, pc[r] # "fetching", pc'[r] = "fetching"
               PROVE  tried >= RetryEvery /\ \A q \in Req : pc[q] # "fetching"
    BY DEF vars
  <2> USE DEF IInv
  <2>1. Lock(r)
    BY ZenonT(40) DEF Next, Step, TypeOK, Tick, Change, Verified, VerifyFails, Put, Decided, UseNames,
           WantFetch, Fetched, FetchFails, Release, Lock, Hit, Miss
  <2>2. holder = None /\ stale
    BY <2>1 DEF Lock, StillStale, TypeOK
  <2> QED BY <2>2 DEF stale, Exclusive
<1>2. [][Begins]_vars => NoStampede
  BY PTL DEF NoStampede
<1> QED BY <1>1, Always, <1>2, PTL DEF Spec

(* A failed fetch never takes the names away, and names older than their    *)
(* lifetime and the time of a fetch are served only after a failure         *)
(* (channels.go:84-114).                                                    *)
THEOREM CurrentNames == Spec => NamesAreCurrent
<1> DEFINE Serves == /\ names => names'
                     /\ \A r \in Req : Resolves(r) =>
                          failed' \/ snapshot' <= ChannelTTL + FetchTimeout
<1>1. IInv /\ [Next]_vars => [Serves]_vars
  <2> SUFFICES ASSUME IInv, Next PROVE Serves
    BY DEF vars
  <2> USE DEF IInv
  <2>1. names => names'
    BY DEF Next, Step, Tick, Change, Verified, VerifyFails, Put, UseNames, WantFetch, Fetched,
           FetchFails, NamesAfterFailure, Lock, Hit, Miss, channels
  <2>2. ASSUME NEW r \in Req, Resolves(r)
        PROVE  failed' \/ snapshot' <= ChannelTTL + FetchTimeout
    <3>1. CASE Tick \/ (\E t \in Token : Change(t) \/ Hit(r, t) \/ Miss(r, t))
      BY <2>2, <3>1 DEF Resolves, TypeOK, Tick, Change, Hit, Miss, Decided
    <3>2. CASE \E q \in Req \ {r} : Step(q) \/ Lock(q) \/ \E t \in Token : Hit(q, t) \/ Miss(q, t)
      BY <2>2, <3>2 DEF Resolves, TypeOK, Step, Verified, VerifyFails, Put, Decided, UseNames,
                        WantFetch, Fetched, FetchFails, Release, Lock, Hit, Miss
    <3>3. CASE Verified(r) \/ VerifyFails(r) \/ Put(r) \/ WantFetch(r)
      BY <2>2, <3>3 DEF Resolves, TypeOK, Verified, VerifyFails, Put, WantFetch
    <3>4. CASE UseNames(r) \/ Lock(r)
      <4>1. ~stale
        BY <2>2, <3>4 DEF Resolves, UseNames, Lock, StillStale, TypeOK
      <4>2. failed \/ fetched < ChannelTTL
        BY <4>1 DEF stale, ListAge, TypeOK
      <4>3. snapshot' = snapshot /\ failed' = failed
        BY <3>4 DEF UseNames, Lock, channels
      <4>4. fetched \in Nat /\ snapshot \in Nat
        BY DEF TypeOK
      <4> QED BY <4>2, <4>3, <4>4 DEF ListAge
    <3>5. CASE Fetched(r)
      <4>1. spent[r] \in Nat /\ spent[r] <= FetchTimeout
        BY <3>5 DEF Fetched, InTime, TypeOK
      <4>2. snapshot' = spent[r]
        BY <3>5 DEF Fetched
      <4> QED BY <4>1, <4>2
    <3>6. CASE FetchFails(r)
      BY <3>6 DEF FetchFails
    <3> QED BY <3>1, <3>2, <3>3, <3>4, <3>5, <3>6 DEF Next, Step
  <2> QED BY <2>1, <2>2
<1>2. [][Serves]_vars => NamesAreCurrent
  BY PTL DEF NamesAreCurrent
<1> QED BY <1>1, Always, <1>2, PTL DEF Spec
=============================================================================
