----------------------------- MODULE JwksCache -----------------------------
(***************************************************************************)
(* The gateway's cache of the keys its identity provider signs tokens      *)
(* with.  Concurrent requests look a key up; those that find none, or a    *)
(* cache of more than a day ago, share one fetch of the whole key set,     *)
(* which replaces the cache, and look again.  The provider publishes       *)
(* other keys from time to time.                                           *)
(*                                                                         *)
(* lookup[r].at is where request r is in GetKey: look, join (before        *)
(* singleflight), wait (in it), reread, done.  flight[r] is the fetch that *)
(* the goroutine of r carries out for all that wait for it.                *)
(***************************************************************************)
EXTENDS Naturals, Sequences

CONSTANTS
  Kid,            \* key ids
  Caller,         \* HTTP requests with a token to validate
  MaxRotations    \* bound: changes of the published key set

ASSUME JwksAssumption == Kid # {} /\ MaxRotations \in Nat

VARIABLES
  published,  \* the key sets the provider has published, the present one last
  cached,     \* keys, and which of those sets the provider had when it sent them
  expired,    \* fetchedAt is longer ago than the TTL
  lookup, flight

jwksVars == << published, cached, expired, lookup, flight >>

Version == 0 .. MaxRotations + 1
Now == Len(published)
KeySet == [keys : SUBSET Kid, version : Version]

\* stale: it saw an expired cache.  asked: the version there was when the fetch it
\* waited for was sent.  from: the version of the cache it got its key from.
Lookup ==
  [at : {"new", "look", "join", "wait", "reread", "done"}, kid : Kid, leader : Caller,
   stale : BOOLEAN, asked : Version, answer : {"none", "key", "unknown", "error"}, from : Version]

Flight == [at : {"none", "asked", "answered", "stored", "failed"}, asked : Version, got : KeySet]

JwksTypeOK ==
  /\ published \in Seq((SUBSET Kid) \ {{}}) /\ Now \in 1 .. MaxRotations + 1
  /\ cached \in KeySet /\ expired \in BOOLEAN
  /\ lookup \in [Caller -> Lookup] /\ flight \in [Caller -> Flight]

Landed == [at |-> "none", asked |-> 0, got |-> [keys |-> {}, version |-> 0]]

JwksInit ==
  /\ published = << Kid >>
  /\ cached = [keys |-> {}, version |-> 0] /\ expired = TRUE
  /\ lookup = [r \in Caller |-> [at |-> "new", kid |-> CHOOSE k \in Kid : TRUE, leader |-> r,
                                stale |-> FALSE, asked |-> 0, answer |-> "none", from |-> 0]]
  /\ flight = [r \in Caller |-> Landed]

-----------------------------------------------------------------------------
(* Outside.                                                                *)

Rotate(S) ==
  /\ Now <= MaxRotations
  /\ S \notin {{}, published[Now]}
  /\ published' = Append(published, S)
  /\ UNCHANGED << cached, expired, lookup, flight >>

\* A day passes.
Expire ==
  /\ ~expired /\ expired' = TRUE
  /\ UNCHANGED << published, cached, lookup, flight >>

\* ValidateToken, of a token that names key k.
Validate(r, k) ==
  /\ lookup[r].at = "new"
  /\ lookup' = [lookup EXCEPT ![r] = [@ EXCEPT !.at = "look", !.kid = k, !.asked = Now]]
  /\ UNCHANGED << published, cached, expired, flight >>

-----------------------------------------------------------------------------
(* GetKey.                                                                 *)

HasKey(r) == lookup[r].kid \in cached.keys

\* What request r returns with.  (Of its history the rest is of no further interest.)
Return(r, answer) ==
  IF answer = "key" /\ lookup[r].stale
  THEN [lookup[r] EXCEPT !.at = "done", !.answer = answer, !.leader = r, !.from = cached.version]
  ELSE [lookup[r] EXCEPT !.at = "done", !.answer = answer, !.leader = r, !.asked = 0,
                         !.stale = FALSE]

\* Mutant: a fresh cache that lacks the key is the last word.
LookOnce(r) ==
  /\ lookup[r].at = "look"
  /\ lookup' = [lookup EXCEPT ![r] =
       IF expired THEN [@ EXCEPT !.at = "join", !.stale = TRUE]
                  ELSE Return(r, IF HasKey(r) THEN "key" ELSE "unknown")]
  /\ UNCHANGED << published, cached, expired, flight >>

Look(r) ==
  /\ lookup[r].at = "look"
  /\ lookup' = [lookup EXCEPT ![r] =
       IF HasKey(r) /\ ~expired THEN Return(r, "key")
                                ELSE [@ EXCEPT !.at = "join", !.stale = expired]]
  /\ UNCHANGED << published, cached, expired, flight >>

InFlight == { l \in Caller : flight[l].at # "none" }

\* Mutant: no singleflight: every request fetches for itself.
JoinOwn(r) ==
  /\ lookup[r].at = "join"
  /\ lookup' = [lookup EXCEPT ![r] = [@ EXCEPT !.at = "wait", !.asked = Now]]
  /\ flight' = [flight EXCEPT ![r] = [Landed EXCEPT !.at = "asked", !.asked = Now]]
  /\ UNCHANGED << published, cached, expired >>

\* singleflight's Do: wait for the fetch that is under way, or begin one.
Join(r) ==
  /\ lookup[r].at = "join"
  /\ \/ \E l \in InFlight :
          /\ lookup' = [lookup EXCEPT
               ![r] = [@ EXCEPT !.at = "wait", !.leader = l, !.asked = flight[l].asked]]
          /\ UNCHANGED flight
     \/ /\ InFlight = {}
        /\ lookup' = [lookup EXCEPT ![r] = [@ EXCEPT !.at = "wait", !.asked = Now]]
        /\ flight' = [flight EXCEPT ![r] = [Landed EXCEPT !.at = "asked", !.asked = Now]]
  /\ UNCHANGED << published, cached, expired >>

\* refresh.  The provider sends the keys of this moment, or an error whose JSON body has
\* none, which is not told from a key set; or there is no answer within 10 s, or no JSON.
Answer(l) ==
  /\ flight[l].at = "asked"
  /\ \E keys \in {published[Now], {}} :
       flight' = [flight EXCEPT
         ![l] = [@ EXCEPT !.at = "answered", !.got = [keys |-> keys, version |-> Now]]]
  /\ UNCHANGED << published, cached, expired, lookup >>

NoAnswer(l) ==
  /\ flight[l].at = "asked"
  /\ flight' = [flight EXCEPT ![l].at = "failed"]
  /\ UNCHANGED << published, cached, expired, lookup >>

Store(l) ==
  /\ flight[l].at = "answered"
  /\ cached' = flight[l].got /\ expired' = FALSE
  /\ flight' = [flight EXCEPT ![l].at = "stored"]
  /\ UNCHANGED << published, lookup >>

Waiting(l) == { r \in Caller : lookup[r].at = "wait" /\ lookup[r].leader = l }

\* Mutant: when the fetch fails, the key of the old cache is good enough.
LandOrFallBack(l) ==
  /\ flight[l].at \in {"stored", "failed"}
  /\ lookup' = [r \in Caller |->
       IF r \in Waiting(l) THEN [lookup[r] EXCEPT !.at = "reread"] ELSE lookup[r]]
  /\ flight' = [flight EXCEPT ![l] = Landed]
  /\ UNCHANGED << published, cached, expired >>

\* singleflight lets all go that waited, with the error if there is one.
Land(l) ==
  /\ flight[l].at \in {"stored", "failed"}
  /\ lookup' = [r \in Caller |->
       IF r \notin Waiting(l) THEN lookup[r]
       ELSE IF flight[l].at = "stored" THEN [lookup[r] EXCEPT !.at = "reread"]
       ELSE Return(r, "error")]
  /\ flight' = [flight EXCEPT ![l] = Landed]
  /\ UNCHANGED << published, cached, expired >>

Reread(r) ==
  /\ lookup[r].at = "reread"
  /\ lookup' = [lookup EXCEPT ![r] = Return(r, IF HasKey(r) THEN "key" ELSE "unknown")]
  /\ UNCHANGED << published, cached, expired, flight >>

GetKeyStep(r) ==
  \/ Look(r) \/ Join(r) \/ Reread(r)
  \/ Answer(r) \/ NoAnswer(r) \/ Store(r) \/ Land(r)

JwksNext ==
  \/ Expire
  \/ \E S \in SUBSET Kid : Rotate(S)
  \/ \E r \in Caller : GetKeyStep(r) \/ \E k \in Kid : Validate(r, k)

JwksSpec == JwksInit /\ [][JwksNext]_jwksVars

-----------------------------------------------------------------------------
\* A key the provider has withdrawn is accepted for the rest of its day and no longer: a
\* request that saw an expired cache takes its key from what the provider sent after the
\* fetch it waited for had been asked for, whoever asked and whatever failed.
ExpiredKeyIsNotUsed ==
  \A r \in Caller :
    lookup[r].answer = "key" /\ lookup[r].stale => lookup[r].from >= lookup[r].asked

\* The cache never goes back to an older key set, however many requests refresh it at once.
CacheNeverGoesBack == [][cached'.version >= cached.version]_jwksVars

\* A key the provider has published since the fetch was asked for, or the request came in,
\* is never "unknown", unless the provider sent an error that looks like an empty key set.
PublishedKeyIsKnown ==
  [][ \A r \in Caller :
        lookup'[r].answer = "unknown" /\ lookup[r].answer = "none" =>
          \/ \E v \in lookup[r].asked .. Now : lookup[r].kid \notin published[v]
          \/ cached.keys = {} ]_jwksVars
=============================================================================
