------------------------------ MODULE Requests ------------------------------
(***************************************************************************)
(* What concurrent requests of the page share in memory (server.go): the   *)
(* verdicts of New API on access tokens (auth.go) and the names of its     *)
(* channels (channels.go).  A request is checked against the verdict       *)
(* cache, asks New API if it has to, and then resolves names, for which    *)
(* one request at a time may ask New API for the list.  Neither cache is   *)
(* locked while New API is asked.                                          *)
(*                                                                         *)
(* Time is counted in ticks; an age is counted up to the first value at    *)
(* which nothing depends on it any more, and what is left of a verdict     *)
(* down to -1.  Bound: tokens change their validity at most MaxChanges     *)
(* times.                                                                  *)
(***************************************************************************)
EXTENDS Integers, FiniteSets

CONSTANTS
  Req,         \* requests at a time
  Token,
  None,
  AuthTTL,     \* lifetime of a good verdict
  NegTTL,      \* lifetime of a bad one
  AuthTimeout, \* timeout of the call that verifies a token
  Cap,         \* entries the verdict cache may have before an insertion
  ChannelTTL, RetryEvery, FetchTimeout,
  MaxChanges

ASSUME TimesAssumption ==
  /\ {AuthTTL, NegTTL, AuthTimeout, Cap, ChannelTTL, RetryEvery, FetchTimeout,
      MaxChanges} \subseteq Nat
  /\ RetryEvery <= ChannelTTL
  /\ None \notin Req \cup Token

VARIABLES
  pc,      \* where each request is
  tok,     \* the token it presented
  answer,  \* what New API said of it
  spent,   \* ticks since it asked New API
  cache,   \* authCache.m: token -> verdict
  holder,  \* the request holding fetchMu
  names,   \* whether channelResolver.names has been filled
  fetched, tried, \* how long ago those times of channelResolver were
  valid,   \* New API's opinion of the tokens now
  since,   \* for how long it has had it
  changes,
  calm,    \* history: how long ago a call to verify a token failed
  snapshot, \* history: how long ago the list held was read
  failed   \* history: the last fetch failed

auth == <<tok, answer, cache>>
channels == <<holder, names, fetched, tried, snapshot, failed>>
newapi == <<valid, since, changes>>
vars == <<pc, spent, auth, channels, newapi, calm>>

Verdict == [ok : BOOLEAN, left : -1..AuthTTL + NegTTL]
Later(age, far) == IF age < far THEN age + 1 ELSE far
FarChange == AuthTTL + NegTTL + AuthTimeout + 1
FarFailure == NegTTL + AuthTimeout + 1
FarSnapshot == ChannelTTL + FetchTimeout + 1

Init ==
  /\ pc = [r \in Req |-> "idle"] /\ tok = [r \in Req |-> None]
  /\ answer = [r \in Req |-> FALSE] /\ spent = [r \in Req |-> 0]
  /\ cache = [t \in {} |-> None]
  /\ holder = None /\ names = FALSE /\ fetched = ChannelTTL /\ tried = RetryEvery
  /\ valid \in [Token -> BOOLEAN] /\ since = [t \in Token |-> FarChange] /\ changes = 0
  /\ calm = FarFailure /\ snapshot = FarSnapshot /\ failed = FALSE

-----------------------------------------------------------------------------
(* check(): a cached verdict decides, unless it has expired; in the variant *)
(* it never does. *)

NeverExpires(v) == FALSE
Expired(v) == v.left < 0
Alive(v) == ~Expired(v)
Cached(t) == t \in DOMAIN cache /\ Alive(cache[t])

(* The request is refused, or goes on to its handler. *)
Decided(r, ok) == pc' = [pc EXCEPT ![r] = IF ok THEN "admitted" ELSE "idle"]

Hit(r, t) ==
  /\ pc[r] = "idle" /\ Cached(t)
  /\ Decided(r, cache[t].ok)
  /\ UNCHANGED <<spent, auth, channels, newapi, calm>>

Miss(r, t) ==
  /\ pc[r] = "idle" /\ ~Cached(t)
  /\ tok' = [tok EXCEPT ![r] = t]
  /\ pc' = [pc EXCEPT ![r] = "verifying"]
  /\ spent' = [spent EXCEPT ![r] = 0]
  /\ UNCHANGED <<answer, cache, channels, newapi, calm>>

(* verify(): New API answers, or the call fails, which is a refusal too. *)
Verified(r) ==
  /\ pc[r] = "verifying"
  /\ pc' = [pc EXCEPT ![r] = "verified"]
  /\ answer' = [answer EXCEPT ![r] = valid[tok[r]]]
  /\ UNCHANGED <<tok, spent, cache, channels, newapi, calm>>

VerifyFails(r) ==
  /\ pc[r] = "verifying"
  /\ pc' = [pc EXCEPT ![r] = "verified"]
  /\ answer' = [answer EXCEPT ![r] = FALSE]
  /\ calm' = 0
  /\ UNCHANGED <<tok, spent, cache, channels, newapi>>

(* The lifetime of a verdict; the variant gives a bad one that of a good one. *)
SameLifetime(ok) == AuthTTL
Lifetime(ok) == IF ok THEN AuthTTL ELSE NegTTL

(* put(): a cache grown past its cap is emptied first; the variant keeps it. *)
Kept == DOMAIN cache
Survivors == IF Cardinality(DOMAIN cache) > Cap THEN {} ELSE DOMAIN cache

Put(r) ==
  /\ pc[r] = "verified"
  /\ LET t == tok[r]
         v == [ok |-> answer[r], left |-> Lifetime(answer[r])]
     IN cache' = [u \in Survivors \cup {t} |-> IF u = t THEN v ELSE cache[u]]
  /\ Decided(r, answer[r])
  /\ tok' = [tok EXCEPT ![r] = None]
  /\ answer' = [answer EXCEPT ![r] = FALSE]
  /\ spent' = [spent EXCEPT ![r] = 0]
  /\ UNCHANGED <<channels, newapi, calm>>

-----------------------------------------------------------------------------
(* name(): refresh() and a look into the map. *)

stale == fetched >= ChannelTTL /\ tried >= RetryEvery

(* The list held is good enough: no lock is taken. *)
UseNames(r) ==
  /\ pc[r] = "admitted" /\ ~stale
  /\ pc' = [pc EXCEPT ![r] = "idle"]
  /\ UNCHANGED <<spent, auth, channels, newapi, calm>>

WantFetch(r) ==
  /\ pc[r] = "admitted" /\ stale
  /\ pc' = [pc EXCEPT ![r] = "waiting"]
  /\ UNCHANGED <<spent, auth, channels, newapi, calm>>

(* The test repeated under fetchMu; the variant does without. *)
NoSecondTest == TRUE
StillStale == stale

Lock(r) ==
  /\ pc[r] = "waiting" /\ holder = None
  /\ IF StillStale
     THEN /\ holder' = r /\ pc' = [pc EXCEPT ![r] = "fetching"]
          /\ spent' = [spent EXCEPT ![r] = 0]
     ELSE /\ pc' = [pc EXCEPT ![r] = "idle"]
          /\ UNCHANGED <<holder, spent>>
  /\ UNCHANGED <<auth, names, fetched, tried, snapshot, failed, newapi, calm>>

(* The list arrives, or fetch() fails: the names stay, and `tried' keeps    *)
(* the next request from asking again at once.                              *)
Release(r) ==
  /\ holder' = None
  /\ pc' = [pc EXCEPT ![r] = "idle"]
  /\ spent' = [spent EXCEPT ![r] = 0]

Fetched(r) ==
  /\ pc[r] = "fetching"
  /\ names' = TRUE /\ tried' = 0 /\ fetched' = 0
  /\ snapshot' = spent[r] /\ failed' = FALSE
  /\ Release(r)
  /\ UNCHANGED <<auth, newapi, calm>>

(* In the variant a failure takes the names away. *)
NamesDropped == FALSE
NamesAfterFailure == names
FetchFails(r) ==
  /\ pc[r] = "fetching"
  /\ tried' = 0 /\ failed' = TRUE
  /\ names' = NamesAfterFailure
  /\ Release(r)
  /\ UNCHANGED <<auth, fetched, snapshot, newapi, calm>>

-----------------------------------------------------------------------------
(* A token is revoked or granted at New API. *)
Change(t) ==
  /\ changes < MaxChanges /\ changes' = changes + 1
  /\ valid' = [valid EXCEPT ![t] = ~@]
  /\ since' = [since EXCEPT ![t] = 0]
  /\ UNCHANGED <<pc, spent, auth, channels, calm>>

(* Time passes, but not past the timeout of a call. *)
Asking(r) == pc[r] \in {"verifying", "verified"}
Tick ==
  /\ \A r \in Req : /\ Asking(r) => spent[r] < AuthTimeout
                    /\ pc[r] = "fetching" => spent[r] < FetchTimeout
  /\ spent' = [r \in Req |-> IF Asking(r) \/ pc[r] = "fetching" THEN spent[r] + 1
                             ELSE spent[r]]
  /\ cache' = [t \in DOMAIN cache |->
                 [cache[t] EXCEPT !.left = IF @ < 0 THEN @ ELSE @ - 1]]
  /\ fetched' = Later(fetched, ChannelTTL) /\ tried' = Later(tried, RetryEvery)
  /\ since' = [t \in Token |-> Later(since[t], FarChange)]
  /\ calm' = Later(calm, FarFailure) /\ snapshot' = Later(snapshot, FarSnapshot)
  /\ UNCHANGED <<pc, tok, answer, holder, names, failed, valid, changes>>

Step(r) ==
  \/ Verified(r) \/ VerifyFails(r) \/ Put(r)
  \/ UseNames(r) \/ WantFetch(r) \/ Fetched(r) \/ FetchFails(r)

Next ==
  \/ Tick
  \/ \E t \in Token : Change(t)
  \/ \E r \in Req : Step(r) \/ Lock(r) \/ \E t \in Token : Hit(r, t) \/ Miss(r, t)

Spec == Init /\ [][Next]_vars

-----------------------------------------------------------------------------
(* Types; the verdict cache has at most one entry more than its cap. *)
TypeOK ==
  /\ pc \in [Req -> {"idle", "verifying", "verified", "admitted", "waiting", "fetching"}]
  /\ tok \in [Req -> Token \cup {None}] /\ answer \in [Req -> BOOLEAN]
  /\ spent \in [Req -> 0..AuthTimeout + FetchTimeout]
  /\ DOMAIN cache \subseteq Token /\ \A t \in DOMAIN cache : cache[t] \in Verdict
  /\ Cardinality(DOMAIN cache) <= Cap + 1
  /\ holder \in Req \cup {None} /\ names \in BOOLEAN
  /\ fetched \in 0..ChannelTTL /\ tried \in 0..RetryEvery
  /\ snapshot \in 0..FarSnapshot
  /\ valid \in [Token -> BOOLEAN] /\ since \in [Token -> 0..FarChange]
  /\ changes \in 0..MaxChanges /\ calm \in 0..FarFailure /\ failed \in BOOLEAN

(* A revoked token opens nothing for longer than the lifetime of a verdict  *)
(* and the timeout of the call that asked for it, whatever slow answers     *)
(* overtake one another on the way into the cache (README.md:392).          *)
Says(ok) == {t \in Token : Cached(t) /\ cache[t].ok = ok}
      \cup {tok[r] : r \in {q \in Req : pc[q] = "verified" /\ answer[q] = ok}}
RevocationHolds ==
  \A t \in Says(TRUE) : valid[t] \/ since[t] <= AuthTTL + AuthTimeout

(* A good token is refused only within the shorter lifetime after it was    *)
(* bad or a call to verify a token failed.                                  *)
RefusalPasses ==
  \A t \in Says(FALSE) :
     ~valid[t] \/ since[t] <= NegTTL + AuthTimeout \/ calm <= NegTTL + AuthTimeout

(* The list of channels is never asked for within RetryEvery of the end of  *)
(* the last attempt, by any request, nor while another one is asking.       *)
NoStampede ==
  [][\A r \in Req : (pc[r] # "fetching" /\ pc'[r] = "fetching") =>
       /\ tried >= RetryEvery
       /\ \A q \in Req : pc[q] # "fetching"]_vars

(* Names are served that are older than their lifetime and the time it took *)
(* to fetch them only while New API is failing; a failure never takes the   *)
(* names away.                                                              *)
Resolves(r) == pc[r] \in {"admitted", "waiting", "fetching"} /\ pc'[r] = "idle"
NamesAreCurrent ==
  [][/\ names => names'
     /\ \A r \in Req : Resolves(r) =>
          failed' \/ snapshot' <= ChannelTTL + FetchTimeout]_vars
=============================================================================
