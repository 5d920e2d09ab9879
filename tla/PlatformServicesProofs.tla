----------------------- MODULE PlatformServicesProofs -----------------------
(***************************************************************************)
(* Theorems about the parts of PlatformServices, for any set of users,     *)
(* keys, requests, workers, paths, tasks and roles, and any bounds.        *)
(*                                                                         *)
(* Each part has an invariant of its own, kept by the steps of the part    *)
(* and by those that leave its variables alone; StepsOfParts says that the *)
(* steps of the composition are nothing else.                              *)
(***************************************************************************)
EXTENDS PlatformServices, RedisStreamProofs

LEMMA PartsBegin ==
  ASSUME ServicesInit
  PROVE  /\ NotifyInit /\ VaultInit /\ SyncInit
         /\ JwksInit /\ EphemeralInit /\ WatchdogInit
  BY DEF ServicesInit

LEMMA StepsOfParts ==
  ASSUME [ServicesNext]_serviceVars
  PROVE  /\ [NotifyNext]_notifyVars /\ [VaultNext]_vaultVars /\ [SyncNext]_syncVars
         /\ [JwksNext]_jwksVars /\ [EphemeralNext]_ephemeralVars
         /\ [WatchdogNext]_watchdogVars
  BY DEF ServicesNext, serviceVars

-----------------------------------------------------------------------------
(* Permissions: what is due was read, and so was written.                  *)

SyncInv ==
  /\ {copy, read, kept, due} \subseteq Permissions
  /\ \A u \in User : kept[u] \subseteq read[u] /\ due[u] \subseteq copy[u]

LEMMA SyncInvKept ==
  ASSUME SyncInv, [SyncNext]_syncVars, table \in Permissions
  PROVE  SyncInv' /\ table' \in Permissions
<1> USE DEF SyncInv, Permissions
<1>1. CASE ReadTable
  BY <1>1 DEF ReadTable
<1>2. ASSUME NEW u \in User, WriteUser(u) \/ SyncFails(u) PROVE SyncInv' /\ table' \in Permissions
  BY <1>2 DEF WriteUser, SyncFails, Written, Replaced
<1>3. ASSUME NEW u \in User, NEW S \in SUBSET Permission, ChangeTable(u, S)
      PROVE  SyncInv' /\ table' \in Permissions
  BY <1>3 DEF ChangeTable
<1>4. CASE UNCHANGED syncVars
  BY <1>4 DEF syncVars
<1> QED BY <1>1, <1>2, <1>3, <1>4 DEF SyncNext

\* Whoever has had a permission since before its hash was last written finds it there, at
\* every step of every sync, however often the table changes and syncs fail.
THEOREM NobodyIsRefusedInBetween == ServicesSpec => []NeverRefusedInBetween
<1> DEFINE I == SyncInv /\ table \in Permissions
<1>1. ServicesInit => I
  BY PartsBegin DEF SyncInit, SyncInv, Permissions, Nothing
<1>2. I /\ [ServicesNext]_serviceVars => I'
  BY StepsOfParts, SyncInvKept
<1>3. I => NeverRefusedInBetween
  BY DEF SyncInv, NeverRefusedInBetween, Permitted
<1> QED BY <1>1, <1>2, <1>3, PTL DEF ServicesSpec

-----------------------------------------------------------------------------
(* Keys: there is one fetch at a time, and what it stores is no older than *)
(* the moment any of those that wait for it came.                          *)

\* What request r may count on.
LookupInv(r) ==
  /\ lookup[r].at \in {"new", "look"} => ~lookup[r].stale
  /\ lookup[r].at \notin {"wait", "reread"} => lookup[r].leader = r
  /\ lookup[r].at = "wait" => /\ flight[lookup[r].leader].at # "none"
                              /\ lookup[r].asked = flight[lookup[r].leader].asked
  /\ lookup[r].at = "reread" => lookup[r].asked <= cached.version
  /\ lookup[r].answer # "none" => lookup[r].at = "done"

\* A key set is what the provider had published, or an error.
Genuine(set) ==
  /\ set.version <= Now
  /\ set.version = 0 => set.keys = {}
  /\ set.version # 0 => set.keys \in {published[set.version], {}}

FlightInv(l) ==
  /\ flight[l].at \in {"asked", "answered", "stored"} => flight[l].asked <= Now
  /\ flight[l].at = "answered" =>
       /\ Genuine(flight[l].got)
       /\ cached.version <= flight[l].got.version
       /\ flight[l].asked <= flight[l].got.version
  /\ flight[l].at = "stored" => flight[l].asked <= cached.version

LookupsInv == \A r \in Caller : LookupInv(r)
FlightsInv == \A l \in Caller : FlightInv(l)
OneFetch == \A l, m \in InFlight : l = m

JwksInv ==
  /\ JwksTypeOK
  /\ Genuine(cached) /\ LookupsInv /\ FlightsInv /\ OneFetch
  /\ ExpiredKeyIsNotUsed

LEMMA JwksBegins == JwksInit => JwksInv
<1> SUFFICES ASSUME JwksInit PROVE JwksInv
  OBVIOUS
<1>1. Len(published) = 1 /\ published \in Seq((SUBSET Kid) \ {{}})
  BY JwksAssumption DEF JwksInit
<1>2. JwksTypeOK
  BY <1>1, JwksAssumption DEF JwksInit, JwksTypeOK, KeySet, Lookup, Flight, Landed, Version, Now
<1> QED BY <1>1, <1>2 DEF JwksInit, JwksInv, Genuine, LookupsInv, LookupInv, FlightsInv,
                    FlightInv, OneFetch, InFlight, Landed, ExpiredKeyIsNotUsed, Now

\* A request, or a fetch, that moves on is still one.
LEMMA LookupMoves ==
  ASSUME NEW x \in Lookup,
         NEW at \in {"new", "look", "join", "wait", "reread", "done"}, NEW kid \in Kid,
         NEW leader \in Caller, NEW stale \in BOOLEAN, NEW asked \in Version
  PROVE  /\ [x EXCEPT !.at = at, !.kid = kid, !.asked = asked] \in Lookup
         /\ [x EXCEPT !.at = at, !.stale = stale] \in Lookup
         /\ [x EXCEPT !.at = at, !.leader = leader, !.asked = asked] \in Lookup
         /\ [x EXCEPT !.at = at, !.asked = asked] \in Lookup
         /\ [x EXCEPT !.at = at] \in Lookup
  BY DEF Lookup

LEMMA LookupReturns ==
  ASSUME NEW x \in Lookup, NEW r \in Caller, NEW v \in Version, 0 \in Version,
         NEW answer \in {"key", "unknown", "error"}
  PROVE  /\ [x EXCEPT !.at = "done", !.answer = answer, !.leader = r, !.from = v] \in Lookup
         /\ [x EXCEPT !.at = "done", !.answer = answer, !.leader = r, !.asked = 0,
                      !.stale = FALSE] \in Lookup
  BY DEF Lookup

LEMMA FlightMoves ==
  ASSUME NEW x \in Flight, NEW at \in {"none", "asked", "answered", "stored", "failed"},
         NEW asked \in Version, NEW keys \in KeySet
  PROVE  /\ [x EXCEPT !.at = at] \in Flight
         /\ [x EXCEPT !.at = at, !.asked = asked] \in Flight
         /\ [x EXCEPT !.at = at, !.got = keys] \in Flight
  BY DEF Flight

LEMMA JwksTypeKept == JwksTypeOK /\ [JwksNext]_jwksVars => JwksTypeOK'
<1> SUFFICES ASSUME JwksTypeOK, [JwksNext]_jwksVars PROVE JwksTypeOK'
  OBVIOUS
<1> USE JwksAssumption
<1>1. /\ Now \in Nat /\ Now \in Version /\ 0 \in Version
      /\ published[Now] \in SUBSET Kid
      /\ cached.version \in Version
      /\ \A r \in Caller : lookup[r] \in Lookup /\ lookup[r].kid \in Kid
                             /\ lookup[r].asked \in Version
      /\ \A l \in Caller : /\ flight[l] \in Flight
                           /\ flight[l].asked \in Version /\ flight[l].got \in KeySet
      /\ Landed \in Flight
  BY DEF JwksTypeOK, Now, Version, KeySet, Lookup, Flight, Landed
<1>2. ASSUME NEW S \in SUBSET Kid, Rotate(S) PROVE JwksTypeOK'
  <2>1. published' \in Seq((SUBSET Kid) \ {{}}) /\ Len(published') = Len(published) + 1
    BY <1>2, AppendProperties DEF Rotate, JwksTypeOK
  <2> QED BY <1>2, <2>1 DEF Rotate, Now, JwksTypeOK
<1>3. CASE Expire
  BY <1>3 DEF Expire, Now, JwksTypeOK
<1>4. ASSUME NEW r \in Caller, NEW k \in Kid, Validate(r, k) PROVE JwksTypeOK'
  BY <1>1, <1>4, LookupMoves DEF Validate, Now, JwksTypeOK
<1>5. ASSUME NEW r \in Caller, NEW answer \in {"key", "unknown", "error"}
      PROVE  Return(r, answer) \in Lookup
  BY <1>1, LookupReturns DEF Return
<1>6. ASSUME NEW r \in Caller, Look(r) \/ Reread(r) PROVE JwksTypeOK'
  <2>1. [lookup[r] EXCEPT !.at = "join", !.stale = expired] \in Lookup
    BY <1>1, LookupMoves DEF JwksTypeOK
  <2> QED BY <1>5, <1>6, <2>1 DEF Look, Reread, Now, JwksTypeOK
<1>7. ASSUME NEW r \in Caller, Join(r) PROVE JwksTypeOK'
  <2>1. [Landed EXCEPT !.at = "asked", !.asked = Now] \in Flight
    BY <1>1, FlightMoves
  <2>2. ASSUME NEW l \in Caller
        PROVE  [lookup[r] EXCEPT !.at = "wait", !.leader = l, !.asked = flight[l].asked]
                 \in Lookup
    BY <1>1, LookupMoves
  <2>3. [lookup[r] EXCEPT !.at = "wait", !.asked = Now] \in Lookup
    BY <1>1, LookupMoves
  <2> QED BY <1>7, <2>1, <2>2, <2>3 DEF Join, InFlight, Now, JwksTypeOK
<1>8. ASSUME NEW l \in Caller, Answer(l) PROVE JwksTypeOK'
  <2>1. ASSUME NEW keys \in {published[Now], {}}
        PROVE  [flight[l] EXCEPT !.at = "answered", !.got = [keys |-> keys, version |-> Now]]
                 \in Flight
    <3>1. [keys |-> keys, version |-> Now] \in KeySet
      BY <1>1 DEF KeySet
    <3> QED BY <1>1, <3>1, FlightMoves
  <2> QED BY <1>8, <2>1 DEF Answer, Now, JwksTypeOK
<1>9. ASSUME NEW l \in Caller, NoAnswer(l) \/ Store(l) PROVE JwksTypeOK'
  <2>1. /\ [flight[l] EXCEPT !.at = "failed"] \in Flight
        /\ [flight[l] EXCEPT !.at = "stored"] \in Flight
    BY <1>1, FlightMoves
  <2> QED BY <1>1, <1>9, <2>1 DEF NoAnswer, Store, Now, JwksTypeOK
<1>10. ASSUME NEW l \in Caller, Land(l) PROVE JwksTypeOK'
  <2>1. \A r \in Caller : [lookup[r] EXCEPT !.at = "reread"] \in Lookup
    BY <1>1, LookupMoves
  <2> QED BY <1>1, <1>5, <1>10, <2>1 DEF Land, Now, JwksTypeOK
<1>11. CASE UNCHANGED jwksVars
  BY <1>11 DEF jwksVars, Now, JwksTypeOK
<1> QED BY <1>2, <1>3, <1>4, <1>6, <1>7, <1>8, <1>9, <1>10, <1>11 DEF JwksNext, GetKeyStep

LEMMA JwksInvKept == JwksInv /\ [JwksNext]_jwksVars => JwksInv'
<1> SUFFICES ASSUME JwksInv, [JwksNext]_jwksVars PROVE JwksInv'
  OBVIOUS
<1>1. JwksTypeOK /\ JwksTypeOK'
  BY JwksTypeKept DEF JwksInv
<1>2. /\ Now \in Nat \ {0} /\ cached.version \in Nat
      /\ \A r \in Caller : /\ lookup[r] \in Lookup /\ lookup[r].asked \in Nat
                           /\ lookup[r].leader \in Caller
      /\ \A l \in Caller : /\ flight[l] \in Flight
                           /\ flight[l].asked \in Nat /\ flight[l].got.version \in Nat
  BY <1>1 DEF JwksTypeOK, Now, Version, KeySet, Lookup, Flight
<1>3. Genuine(cached) /\ LookupsInv /\ FlightsInv /\ OneFetch /\ ExpiredKeyIsNotUsed
  BY DEF JwksInv
<1>4. ASSUME NEW S \in SUBSET Kid, Rotate(S) PROVE JwksInv'
  <2>1. /\ Now' = Now + 1 /\ \A v \in 1 .. Now : published'[v] = published[v]
        /\ UNCHANGED << cached, expired, lookup, flight >>
    BY <1>1, <1>4, AppendProperties DEF Rotate, JwksTypeOK, Now
  <2>2. ASSUME NEW set, set.version \in Nat, Genuine(set)
        PROVE  /\ set.version <= Now'
               /\ set.version = 0 => set.keys = {}
               /\ set.version # 0 => set.keys \in {published'[set.version], {}}
    BY <1>2, <2>1, <2>2 DEF Genuine
  <2>3. Genuine(cached)'
    BY <1>2, <1>3, <2>1, <2>2 DEF Genuine
  <2>4. FlightsInv'
    BY <1>2, <1>3, <2>1, <2>2 DEF Genuine, FlightsInv, FlightInv
  <2>5. LookupsInv' /\ OneFetch' /\ ExpiredKeyIsNotUsed'
    BY <1>3, <2>1 DEF LookupsInv, LookupInv, OneFetch, InFlight, ExpiredKeyIsNotUsed
  <2> QED BY <1>1, <2>3, <2>4, <2>5 DEF JwksInv
<1>5. ASSUME NEW r \in Caller, (\E k \in Kid : Validate(r, k)) \/ Look(r) \/ Reread(r)
      PROVE  JwksInv'
  <2>1. /\ \A q \in Caller \ {r} : lookup'[q] = lookup[q]
        /\ UNCHANGED << published, cached, flight >>
    BY <1>1, <1>5 DEF Validate, Look, Reread, JwksTypeOK
  <2>2. Genuine(cached)' /\ FlightsInv' /\ OneFetch'
    BY <1>3, <2>1 DEF Genuine, FlightsInv, FlightInv, OneFetch, InFlight, Now
  <2>3. LookupInv(r) /\ (lookup[r].answer = "key" /\ lookup[r].stale
                           => lookup[r].from >= lookup[r].asked)
    BY <1>3 DEF LookupsInv, ExpiredKeyIsNotUsed
  <2>4. LookupInv(r)' /\ (lookup'[r].answer = "key" /\ lookup'[r].stale
                            => lookup'[r].from >= lookup'[r].asked)
    <3>1. CASE \E k \in Kid : Validate(r, k)
      BY <1>1, <1>2, <2>3, <3>1 DEF Validate, JwksTypeOK, LookupInv, Lookup
    <3>2. CASE Look(r)
      BY <1>1, <1>2, <2>3, <3>2 DEF Look, Return, JwksTypeOK, LookupInv, Lookup
    <3>3. CASE Reread(r)
      BY <1>1, <1>2, <2>3, <3>3 DEF Reread, Return, JwksTypeOK, LookupInv, Lookup
    <3> QED BY <1>5, <3>1, <3>2, <3>3
  <2>5. LookupsInv' /\ ExpiredKeyIsNotUsed'
    BY <1>3, <2>1, <2>4 DEF LookupsInv, LookupInv, ExpiredKeyIsNotUsed
  <2> QED BY <1>1, <2>2, <2>5 DEF JwksInv
<1>6. ASSUME NEW r \in Caller, Join(r) PROVE JwksInv'
  <2>1. /\ lookup[r].at = "join" /\ lookup[r].leader = r /\ lookup[r].answer = "none"
        /\ UNCHANGED << published, cached >>
    BY <1>3, <1>6 DEF Join, LookupsInv, LookupInv
  <2>2. PICK l \in Caller :
          /\ lookup' = [lookup EXCEPT
               ![r] = [@ EXCEPT !.at = "wait", !.leader = l, !.asked = flight'[l].asked]]
          /\ \/ l \in InFlight /\ UNCHANGED flight
             \/ /\ InFlight = {} /\ l = r
                /\ flight' = [flight EXCEPT ![r] = [Landed EXCEPT !.at = "asked", !.asked = Now]]
    <3>1. CASE InFlight = {}
      <4>1. /\ lookup' = [lookup EXCEPT ![r] = [@ EXCEPT !.at = "wait", !.asked = Now]]
            /\ flight' = [flight EXCEPT ![r] = [Landed EXCEPT !.at = "asked", !.asked = Now]]
        BY <1>6, <3>1 DEF Join
      <4>2. flight'[r].asked = Now
        BY <1>1, <4>1 DEF JwksTypeOK, Landed
      <4>3. [lookup[r] EXCEPT !.at = "wait", !.asked = Now]
              = [lookup[r] EXCEPT !.at = "wait", !.leader = r, !.asked = flight'[r].asked]
        BY <1>2, <2>1, <4>2 DEF Lookup
      <4> QED BY <3>1, <4>1, <4>3
    <3>2. CASE InFlight # {}
      BY <1>6, <3>2 DEF Join, InFlight
    <3> QED BY <3>1, <3>2
  <2>3. /\ \A q \in Caller \ {r} : lookup'[q] = lookup[q]
        /\ lookup'[r] = [lookup[r] EXCEPT !.at = "wait", !.leader = l, !.asked = flight'[l].asked]
    BY <1>1, <2>2 DEF JwksTypeOK
  <2>4. /\ lookup'[r].at = "wait" /\ lookup'[r].leader = l
        /\ lookup'[r].asked = flight'[l].asked /\ lookup'[r].answer = "none"
    BY <1>2, <2>1, <2>3 DEF Lookup
  <2>5. /\ flight'[l].at # "none"
        /\ \A m \in InFlight : flight'[m] = flight[m]
        /\ \A m \in Caller : flight'[m] = flight[m] \/ (flight'[m].at = "asked" /\ flight'[m].asked = Now)
        /\ InFlight = {} \/ UNCHANGED flight
        /\ \A m \in Caller : flight'[m].at # "none" => m = l \/ flight'[m] = flight[m]
    BY <1>1, <2>2 DEF JwksTypeOK, InFlight, Landed
  <2>6. Genuine(cached)' /\ FlightsInv'
    BY <1>2, <1>3, <2>1, <2>5 DEF Genuine, FlightsInv, FlightInv, Now
  <2>7. OneFetch'
    BY <1>3, <2>5 DEF OneFetch, InFlight
  <2>8. LookupsInv'
    <3>1. \A q \in Caller \ {r} : LookupInv(q)'
      BY <1>2, <1>3, <2>1, <2>3, <2>5 DEF LookupsInv, LookupInv, InFlight
    <3>2. LookupInv(r)'
      BY <2>4, <2>5 DEF LookupInv
    <3> QED BY <3>1, <3>2 DEF LookupsInv
  <2>9. ExpiredKeyIsNotUsed'
    BY <1>3, <2>3, <2>4 DEF ExpiredKeyIsNotUsed
  <2> QED BY <1>1, <2>6, <2>7, <2>8, <2>9 DEF JwksInv
<1>7. ASSUME NEW l \in Caller, Answer(l) \/ NoAnswer(l) \/ Store(l) PROVE JwksInv'
  <2>1. /\ flight[l].at # "none" /\ \A m \in Caller \ {l} : flight[m].at = "none"
        /\ UNCHANGED << published, lookup >>
    BY <1>3, <1>7 DEF Answer, NoAnswer, Store, OneFetch, InFlight
  <2>2. CASE Answer(l)
    <3>1. PICK keys \in {published[Now], {}} :
            flight' = [flight EXCEPT
              ![l] = [@ EXCEPT !.at = "answered", !.got = [keys |-> keys, version |-> Now]]]
      BY <2>2 DEF Answer
    <3>2. /\ \A m \in Caller \ {l} : flight'[m] = flight[m]
          /\ flight'[l].at = "answered" /\ flight'[l].asked = flight[l].asked
          /\ flight'[l].got = [keys |-> keys, version |-> Now]
          /\ flight[l].at = "asked" /\ UNCHANGED << published, cached >>
      BY <1>1, <1>2, <2>2, <3>1, ZenonT(60) DEF Answer, JwksTypeOK, Flight
    <3>3. FlightInv(l)'
      BY <1>2, <1>3, <3>2 DEF FlightsInv, FlightInv, Genuine, Now
    <3>4. Genuine(cached)' /\ FlightsInv' /\ OneFetch'
      BY <1>3, <2>1, <3>2, <3>3 DEF Genuine, FlightsInv, FlightInv, OneFetch, InFlight, Now
    <3>5. LookupsInv' /\ ExpiredKeyIsNotUsed'
      BY <1>2, <1>3, <2>1, <3>2 DEF LookupsInv, LookupInv, ExpiredKeyIsNotUsed
    <3> QED BY <1>1, <3>4, <3>5 DEF JwksInv
  <2>3. CASE NoAnswer(l) \/ Store(l)
    <3>1. /\ \A m \in Caller \ {l} : flight'[m] = flight[m]
          /\ flight'[l].asked = flight[l].asked
          /\ \/ flight'[l].at = "failed" /\ UNCHANGED << published, cached >>
             \/ /\ flight[l].at = "answered" /\ flight'[l].at = "stored"
                /\ cached' = flight[l].got
      BY <1>1, <1>2, <2>3 DEF NoAnswer, Store, JwksTypeOK, Flight
    <3>2. Genuine(cached)' /\ cached.version <= cached'.version
      BY <1>2, <1>3, <2>1, <3>1 DEF FlightsInv, FlightInv, Genuine, Now
    <3>3. FlightInv(l)'
      BY <1>2, <1>3, <2>1, <3>1 DEF FlightsInv, FlightInv, Now
    <3>4. FlightsInv' /\ OneFetch'
      BY <1>3, <2>1, <3>1, <3>3 DEF FlightsInv, FlightInv, OneFetch, InFlight
    <3>5. cached'.version \in Nat
      BY <1>1 DEF JwksTypeOK, KeySet, Version
    <3>6. ASSUME NEW r \in Caller PROVE LookupInv(r)'
      <4>1. LookupInv(r) /\ flight'[lookup[r].leader].asked = flight[lookup[r].leader].asked
        BY <1>2, <1>3, <3>1 DEF LookupsInv
      <4>2. flight[lookup[r].leader].at # "none" => flight'[lookup[r].leader].at # "none"
        BY <1>2, <3>1
      <4> QED BY <1>2, <2>1, <3>2, <3>5, <4>1, <4>2 DEF LookupInv
    <3>7. ExpiredKeyIsNotUsed'
      BY <1>3, <2>1 DEF ExpiredKeyIsNotUsed
    <3> QED BY <1>1, <3>2, <3>4, <3>6, <3>7 DEF JwksInv, LookupsInv
  <2> QED BY <1>7, <2>2, <2>3
<1>8. ASSUME NEW l \in Caller, Land(l) PROVE JwksInv'
  <2>1. /\ l \in InFlight /\ \A m \in Caller \ {l} : flight[m].at = "none"
        /\ \A m \in Caller : flight'[m].at = "none"
        /\ UNCHANGED << published, cached >>
    BY <1>1, <1>3, <1>8 DEF Land, Landed, OneFetch, InFlight, JwksTypeOK
  <2>2. Genuine(cached)' /\ FlightsInv' /\ OneFetch'
    BY <1>3, <2>1 DEF Genuine, FlightsInv, FlightInv, OneFetch, InFlight, Now
  <2>3. ASSUME NEW r \in Caller
        PROVE  LookupInv(r)' /\ (lookup'[r].answer = "key" => lookup'[r] = lookup[r])
    <3>1. LookupInv(r)
      BY <1>3 DEF LookupsInv
    <3>2. CASE r \notin Waiting(l)
      <4>1. lookup'[r] = lookup[r]
        BY <1>8, <3>2 DEF Land
      <4> QED BY <1>2, <2>1, <3>1, <3>2, <4>1 DEF LookupInv, Waiting
    <3>3. CASE r \in Waiting(l) /\ flight[l].at = "stored"
      <4>1. lookup'[r] = [lookup[r] EXCEPT !.at = "reread"]
        BY <1>8, <3>3 DEF Land
      <4>2. /\ lookup'[r].at = "reread" /\ lookup'[r].asked = lookup[r].asked
            /\ lookup'[r].answer = lookup[r].answer
        BY <1>2, <4>1 DEF Lookup
      <4>3. lookup[r].asked <= cached.version
        BY <1>3, <3>1, <3>3 DEF LookupInv, FlightsInv, FlightInv, Waiting
      <4> QED BY <2>1, <3>1, <3>3, <4>2, <4>3 DEF LookupInv, Waiting
    <3>4. CASE r \in Waiting(l) /\ flight[l].at # "stored"
      <4>1. lookup'[r] = Return(r, "error")
        BY <1>8, <3>4 DEF Land
      <4>2. /\ lookup'[r].at = "done" /\ lookup'[r].leader = r
            /\ lookup'[r].answer = "error"
        BY <1>2, <4>1 DEF Return, Lookup
      <4> QED BY <4>2 DEF LookupInv
    <3> QED BY <3>2, <3>3, <3>4
  <2>4. LookupsInv' /\ ExpiredKeyIsNotUsed'
    BY <1>3, <2>3 DEF LookupsInv, ExpiredKeyIsNotUsed
  <2> QED BY <1>1, <2>2, <2>4 DEF JwksInv
<1>9. CASE UNCHANGED jwksVars
  BY <1>1, <1>3, <1>9 DEF jwksVars, JwksInv, Genuine, LookupsInv, LookupInv, FlightsInv,
     FlightInv, OneFetch, InFlight, Now, ExpiredKeyIsNotUsed
<1>10. CASE Expire
  BY <1>1, <1>3, <1>10 DEF Expire, JwksInv, Genuine, LookupsInv, LookupInv, FlightsInv,
     FlightInv, OneFetch, InFlight, Now, ExpiredKeyIsNotUsed
<1> QED BY <1>4, <1>5, <1>6, <1>7, <1>8, <1>9, <1>10 DEF JwksNext, GetKeyStep

\* A withdrawn key is accepted for the rest of its day and no longer: whoever finds the cache
\* too old gets its key from what the provider sent after that, however many requests fetch
\* and wait, whatever fails, and however often the keys change meanwhile.
THEOREM ExpiredKeysAreNotUsed == ServicesSpec => []ExpiredKeyIsNotUsed
<1>1. ServicesInit => JwksInv
  BY PartsBegin, JwksBegins
<1>2. JwksInv /\ [ServicesNext]_serviceVars => JwksInv'
  BY StepsOfParts, JwksInvKept
<1>3. JwksInv => ExpiredKeyIsNotUsed
  BY DEF JwksInv
<1> QED BY <1>1, <1>2, <1>3, PTL DEF ServicesSpec

LEMMA CacheOnlyMovesOn ==
  ASSUME JwksInv, [JwksNext]_jwksVars
  PROVE  [cached'.version >= cached.version]_jwksVars
<1>1. cached.version \in Nat /\ \A l \in Caller : flight[l].got.version \in Nat
  BY DEF JwksInv, JwksTypeOK, KeySet, Version, Flight
<1>2. ASSUME NEW l \in Caller, Store(l) PROVE cached'.version >= cached.version
  BY <1>1, <1>2 DEF Store, JwksInv, FlightsInv, FlightInv
<1>3. CASE UNCHANGED cached
  BY <1>1, <1>3
<1> QED BY <1>2, <1>3 DEF JwksNext, GetKeyStep, Expire, Rotate, Validate, Look, Join, Reread,
           Answer, NoAnswer, Land, jwksVars

\* Fetches do not overtake each other: the cache never goes back to an older key set.
THEOREM CacheMovesOn == ServicesSpec => CacheNeverGoesBack
<1>1. ServicesInit => JwksInv
  BY PartsBegin, JwksBegins
<1>2. JwksInv /\ [ServicesNext]_serviceVars => JwksInv'
  BY StepsOfParts, JwksInvKept
<1>3. JwksInv /\ [ServicesNext]_serviceVars => [cached'.version >= cached.version]_jwksVars
  BY StepsOfParts, CacheOnlyMovesOn
<1> QED BY <1>1, <1>2, <1>3, PTL DEF ServicesSpec, CacheNeverGoesBack

LEMMA UnknownKeysAreUnpublished ==
  ASSUME JwksInv, [JwksNext]_jwksVars, NEW r \in Caller,
         lookup'[r].answer = "unknown", lookup[r].answer = "none"
  PROVE  \/ \E v \in lookup[r].asked .. Now : lookup[r].kid \notin published[v]
         \/ cached.keys = {}
<1>1. /\ lookup[r] \in Lookup /\ lookup[r].asked \in Nat /\ cached.version \in Nat
      /\ Now \in Nat \ {0} /\ LookupInv(r) /\ Genuine(cached)
  BY DEF JwksInv, JwksTypeOK, Lookup, KeySet, Version, LookupsInv, Now
<1>2. lookup'[r] # lookup[r]
  OBVIOUS
<1>3. CASE Reread(r)
  <2>1. lookup[r].asked <= cached.version /\ ~HasKey(r)
    <3>1. lookup'[r] = Return(r, IF HasKey(r) THEN "key" ELSE "unknown")
      BY <1>3 DEF Reread, JwksInv, JwksTypeOK
    <3> QED BY <1>1, <1>3, <3>1 DEF Reread, Return, Lookup, LookupInv
  <2> QED BY <1>1, <2>1 DEF Genuine, HasKey
<1>4. ASSUME NEW q \in Caller, (\E k \in Kid : Validate(q, k)) \/ Look(q) \/ Join(q)
      PROVE  FALSE
  <2>1. q = r
    BY <1>2, <1>4 DEF Validate, Look, Join, JwksInv, JwksTypeOK
  <2>2. ASSUME NEW k \in Kid, Validate(r, k) PROVE FALSE
    BY <1>1, <2>2 DEF Validate, JwksInv, JwksTypeOK, Lookup
  <2>3. CASE Look(r)
    BY <1>1, <2>3 DEF Look, Return, JwksInv, JwksTypeOK, Lookup
  <2>4. CASE Join(r)
    <3>1. \E l \in Caller : \E v :
            \/ lookup'[r] = [lookup[r] EXCEPT !.at = "wait", !.asked = v]
            \/ lookup'[r] = [lookup[r] EXCEPT !.at = "wait", !.leader = l, !.asked = v]
      BY <2>4, ZenonT(60) DEF Join, InFlight, JwksInv, JwksTypeOK
    <3> QED BY <1>1, <3>1 DEF Lookup
  <2> QED BY <1>4, <2>1, <2>2, <2>3, <2>4
<1>5. ASSUME NEW l \in Caller, Land(l) PROVE FALSE
  BY <1>1, <1>5 DEF Land, Return, Lookup
<1>6. CASE UNCHANGED lookup
  BY <1>2, <1>6
<1>7. ASSUME NEW q \in Caller, Reread(q) PROVE q = r
  BY <1>2, <1>7 DEF Reread, JwksInv, JwksTypeOK
<1> QED BY <1>3, <1>4, <1>5, <1>6, <1>7
        DEF JwksNext, GetKeyStep, Expire, Rotate, Answer, NoAnswer, Store, jwksVars

\* A key published since the fetch was asked for, or the request came in, is never "unknown",
\* unless the provider sent an error that looks like an empty key set.
THEOREM PublishedKeysAreKnown == ServicesSpec => PublishedKeyIsKnown
<1> DEFINE Known ==
      \A r \in Caller :
        lookup'[r].answer = "unknown" /\ lookup[r].answer = "none" =>
          \/ \E v \in lookup[r].asked .. Now : lookup[r].kid \notin published[v]
          \/ cached.keys = {}
<1>1. ServicesInit => JwksInv
  BY PartsBegin, JwksBegins
<1>2. JwksInv /\ [ServicesNext]_serviceVars => JwksInv'
  BY StepsOfParts, JwksInvKept
<1>3. JwksInv /\ [ServicesNext]_serviceVars => [Known]_jwksVars
  BY StepsOfParts, UnknownKeysAreUnpublished
<1> QED BY <1>1, <1>2, <1>3, PTL DEF ServicesSpec, PublishedKeyIsKnown

-----------------------------------------------------------------------------
(* Vault: whoever is at a file has its lock, and so the temporary file to  *)
(* itself; of a lock nobody is under, a failure is the reason.             *)

\* No two workers hold one operation.
EntriesApart ==
  \A v, w \in VaultWorker : entry[v] = entry[w] /\ entry[v] # 0 => v = w

\* What each worker has in hand.
VaultHands ==
  /\ vpc \in [VaultWorker -> UnderLock \cup {"idle", "lock", "ack", "down"}]
  /\ entry \in [VaultWorker -> Nat]
  /\ \A w \in VaultWorker :
       IF vpc[w] \in {"idle", "down"} THEN entry[w] = 0 ELSE entry[w] \in vaultOps.pending
  /\ EntriesApart

LocksHeld == \A w \in VaultWorker : vpc[w] \in UnderLock => lock[OpPath(w)] = w

LocksNeeded ==
  vaultFailures = 0 =>
    \A p \in Path, w \in VaultWorker : lock[p] = w => vpc[w] \in UnderLock /\ OpPath(w) = p

\* What a worker has made of the temporary file it is at.
TemporaryInv(w) ==
  LET t == temporary[OpPath(w)]
  IN /\ vpc[w] \in {"open", "write", "rename"} => Op(w).kind = "write"
     /\ vpc[w] = "write" => t # None /\ t.by = entry[w]
     /\ vpc[w] = "rename" => t # None /\ t.by = entry[w] /\ t.whole

FilesInv ==
  \A p \in Path : files[p] # None =>
    /\ files[p].whole /\ files[p].by \in 1 .. Len(vaultOps.log)
    /\ vaultOps.log[files[p].by] = [kind |-> "write", path |-> p]

VaultInv ==
  /\ VaultTypeOK
  /\ EntriesApart /\ LocksHeld /\ LocksNeeded /\ FilesInv
  /\ \A w \in VaultWorker : TemporaryInv(w)

\* The worker that moves, and the parts of its operation.
LEMMA VaultParts ==
  ASSUME VaultTypeOK
  PROVE  /\ vaultOps \in Stream(VaultOp)
         /\ Len(vaultOps.log) \in Nat /\ Len(vaultOps.log) <= MaxVaultOps
         /\ \A w \in VaultWorker :
              /\ entry[w] \in Nat
              /\ vpc[w] \notin {"idle", "down"} =>
                   /\ entry[w] \in vaultOps.pending /\ entry[w] \in 1 .. Len(vaultOps.log)
                   /\ Op(w) \in VaultOp /\ OpPath(w) \in Path
                   /\ Op(w) = [kind |-> Op(w).kind, path |-> OpPath(w)]
<1>1. /\ vaultOps \in Stream(VaultOp) /\ Len(vaultOps.log) <= MaxVaultOps
      /\ \A w \in VaultWorker : /\ entry[w] \in Nat
                                /\ vpc[w] \notin {"idle", "down"} => entry[w] \in vaultOps.pending
  BY DEF VaultTypeOK
<1>2. ASSUME NEW w \in VaultWorker, vpc[w] \notin {"idle", "down"}
      PROVE  /\ entry[w] \in 1 .. Len(vaultOps.log) /\ Op(w) \in VaultOp
             /\ OpPath(w) \in Path /\ Op(w) = [kind |-> Op(w).kind, path |-> OpPath(w)]
  <2>1. entry[w] \in 1 .. Len(vaultOps.log) /\ Op(w) \in VaultOp
    BY <1>1, <1>2, PendingEntry DEF Op
  <2> QED BY <2>1 DEF VaultOp, OpPath
<1> QED BY <1>1, <1>2, StreamParts

\* A content is not "no content", nor is what becomes of it.
LEMMA ContentParts ==
  /\ \A n \in Nat : [by |-> n, whole |-> FALSE] # None /\ [by |-> n, whole |-> TRUE] # None
  /\ \A t \in Content : t.by \in Nat /\ [by |-> t.by, whole |-> TRUE] \in Content
<1>1. ASSUME NEW n \in Nat, NEW b \in BOOLEAN PROVE [by |-> n, whole |-> b] # None
  <2>1. [by |-> n, whole |-> b] \in [by : Nat, whole : BOOLEAN]
    OBVIOUS
  <2> QED BY <2>1, VaultAssumption
<1>2. \A t \in Content : t.by \in Nat /\ [by |-> t.by, whole |-> TRUE] \in Content
  BY VaultAssumption DEF Content
<1> QED BY <1>1, <1>2

LEMMA VaultBegins == VaultInit => VaultInv
  BY VaultAssumption DEF VaultInit, VaultInv, VaultTypeOK, NewStream, Stream, EntriesApart,
     LocksHeld, LocksNeeded, FilesInv, TemporaryInv, UnderLock, FileOps

\* Steps on the stream: nobody's operation changes, and what is read is new.
LEMMA VaultStreamSteps ==
  ASSUME VaultInv,
         \/ \E o \in VaultOp : SendVaultOp(o)
         \/ \E w \in VaultWorker : ReadVaultOp(w) \/ VaultReadFails(w) \/ AckVaultOp(w)
  PROVE  VaultInv'
<1>1. /\ VaultTypeOK /\ EntriesApart /\ LocksHeld /\ LocksNeeded /\ FilesInv
      /\ \A v \in VaultWorker : TemporaryInv(v)
      /\ vaultOps \in Stream(VaultOp)
  BY DEF VaultInv, VaultTypeOK
<1>2. /\ vaultOps' \in Stream(VaultOp) /\ Len(vaultOps'.log) <= MaxVaultOps
      /\ Len(vaultOps.log) <= Len(vaultOps'.log)
      /\ \A i \in 1 .. Len(vaultOps.log) : vaultOps'.log[i] = vaultOps.log[i]
      /\ UNCHANGED << files, temporary, lock >>
      /\ vaultFailures' \in 0 .. MaxVaultFailures
      /\ vaultFailures' = 0 => vaultFailures = 0
  <2>1. ASSUME NEW o \in VaultOp, SendVaultOp(o)
        PROVE  /\ vaultOps' \in Stream(VaultOp) /\ Len(vaultOps'.log) = Len(vaultOps.log) + 1
               /\ \A i \in 1 .. Len(vaultOps.log) : vaultOps'.log[i] = vaultOps.log[i]
    <3>1. vaultOps.log \in Seq(VaultOp) /\ vaultOps' \in Stream(VaultOp)
          /\ vaultOps'.log = Append(vaultOps.log, o)
      BY <1>1, <2>1, StreamParts, XADDStream DEF SendVaultOp
    <3> QED BY <3>1, AppendProperties
  <2>2. ASSUME NEW w \in VaultWorker, ReadVaultOp(w) \/ VaultReadFails(w) \/ AckVaultOp(w)
        PROVE  vaultOps' \in Stream(VaultOp) /\ vaultOps'.log = vaultOps.log
    BY <1>1, <2>2, XREADGROUPStream, XACKStream DEF ReadVaultOp, VaultReadFails, AckVaultOp
  <2>3. /\ Len(vaultOps.log) \in Nat /\ Len(vaultOps.log) <= MaxVaultOps
        /\ vaultFailures \in 0 .. MaxVaultFailures
    BY <1>1, StreamParts DEF VaultTypeOK
  <2> QED BY <2>1, <2>2, <2>3, VaultAssumption
          DEF SendVaultOp, ReadVaultOp, VaultReadFails, AckVaultOp, CountVaultFailure
<1>3. \A w \in VaultWorker :
        \/ vpc'[w] = vpc[w] /\ entry'[w] = entry[w]
        \/ vpc[w] \notin UnderLock /\ vpc'[w] \in {"idle", "lock"}
  BY <1>1 DEF SendVaultOp, ReadVaultOp, VaultReadFails, AckVaultOp, VaultGoto, Forget,
     VaultTypeOK, UnderLock, FileOps
<1>4. VaultHands'
  <2>1. VaultHands /\ vaultOps.pending \subseteq 1 .. vaultOps.cursor
    BY <1>1, StreamParts DEF VaultTypeOK, VaultHands
  <2>2. CASE \E o \in VaultOp : SendVaultOp(o)
    BY <1>1, <2>1, <2>2, XADDStream DEF SendVaultOp, VaultHands, EntriesApart
  <2>3. ASSUME NEW w \in VaultWorker, ReadVaultOp(w) PROVE VaultHands'
    <3>1. /\ vpc' = [vpc EXCEPT ![w] = "lock"] /\ entry' = [entry EXCEPT ![w] = NextId(vaultOps)]
          /\ vaultOps'.pending = vaultOps.pending \cup {NextId(vaultOps)}
          /\ NextId(vaultOps) \in Nat /\ NextId(vaultOps) \notin vaultOps.pending
          /\ NextId(vaultOps) # 0
      BY <1>1, <2>3, XREADGROUPStream, StreamParts DEF ReadVaultOp, VaultGoto
    <3> QED BY <2>1, <3>1 DEF VaultHands, EntriesApart
  <2>4. ASSUME NEW w \in VaultWorker, VaultReadFails(w) PROVE VaultHands'
    <3>1. /\ UNCHANGED << vpc, entry >>
          /\ vaultOps'.pending = vaultOps.pending \cup {NextId(vaultOps)}
      BY <1>1, <2>4, XREADGROUPStream DEF VaultReadFails
    <3> QED BY <2>1, <3>1 DEF VaultHands, EntriesApart
  <2>5. ASSUME NEW w \in VaultWorker, AckVaultOp(w) PROVE VaultHands'
    <3>1. /\ vpc' = [vpc EXCEPT ![w] = "idle"] /\ entry' = [entry EXCEPT ![w] = 0]
          /\ vaultOps'.pending = vaultOps.pending \ {entry[w]}
          /\ entry[w] \in vaultOps.pending /\ entry[w] # 0
      BY <1>1, <2>1, <2>5, XACKStream, PendingEntry DEF AckVaultOp, Forget, VaultHands
    <3> QED BY <2>1, <3>1 DEF VaultHands, EntriesApart
  <2> QED BY <2>2, <2>3, <2>4, <2>5
<1>5. VaultTypeOK'
  BY <1>1, <1>2, <1>4 DEF VaultTypeOK, VaultHands
<1>6. \A w \in VaultWorker :
        vpc[w] \in UnderLock \/ vpc'[w] \in UnderLock =>
          vpc'[w] = vpc[w] /\ entry'[w] = entry[w] /\ Op(w)' = Op(w) /\ OpPath(w)' = OpPath(w)
  <2>1. \A w \in VaultWorker : vpc[w] \in UnderLock => entry[w] \in 1 .. Len(vaultOps.log)
    BY <1>1, VaultParts DEF UnderLock, FileOps
  <2> QED BY <1>2, <1>3, <2>1 DEF UnderLock, FileOps, Op, OpPath
<1>7. LocksHeld' /\ LocksNeeded'
  <2>1. \A p \in Path : lock[p] \in VaultWorker \cup {None}
    BY <1>1 DEF VaultTypeOK
  <2> QED BY <1>1, <1>2, <1>6, <2>1 DEF LocksHeld, LocksNeeded
<1>8. FilesInv'
  BY <1>1, <1>2, StreamParts DEF FilesInv
<1>9. ASSUME NEW w \in VaultWorker PROVE TemporaryInv(w)'
  BY <1>1, <1>2, <1>6 DEF TemporaryInv, UnderLock, FileOps
<1> QED BY <1>4, <1>5, <1>7, <1>8, <1>9 DEF VaultInv, VaultHands

\* Steps of one worker at its operation.
LEMMA VaultWorkSteps ==
  ASSUME VaultInv, NEW w \in VaultWorker,
         \/ AcquireLock(w) \/ LockIsTaken(w) \/ AcquireFails(w)
         \/ OpenTemporary(w) \/ WriteTemporary(w) \/ RenameTemporary(w) \/ RemoveFile(w)
         \/ FileOpFails(w) \/ ReleaseLock(w) \/ ReleaseFails(w)
  PROVE  VaultInv'
<1>1. /\ VaultTypeOK /\ EntriesApart /\ LocksHeld /\ LocksNeeded /\ FilesInv
      /\ \A v \in VaultWorker : TemporaryInv(v)
  BY DEF VaultInv
<1>2. /\ vpc[w] \notin {"idle", "down"}
      /\ UNCHANGED << vaultOps, entry >>
      /\ \E to \in UnderLock \cup {"ack"} : vpc' = [vpc EXCEPT ![w] = to]
      /\ vaultFailures' = vaultFailures \/ CountVaultFailure
  BY <1>1 DEF AcquireLock, LockIsTaken, AcquireFails, OpenTemporary, WriteTemporary,
     RenameTemporary, RemoveFile, FileOpFails, ReleaseLock, ReleaseFails, VaultGoto, UnderLock,
     FileOps, VaultTypeOK
<1>3. /\ OpPath(w) \in Path /\ entry[w] \in Nat /\ entry[w] \in 1 .. Len(vaultOps.log) /\ entry[w] \in 1 .. MaxVaultOps
      /\ Op(w) \in VaultOp /\ Op(w) = [kind |-> Op(w).kind, path |-> OpPath(w)]
      /\ \A v \in VaultWorker : Op(v)' = Op(v) /\ OpPath(v)' = OpPath(v)
  BY <1>1, <1>2, VaultParts, VaultAssumption DEF Op, OpPath
<1>4. /\ \A v \in VaultWorker \ {w} : vpc'[v] = vpc[v]
      /\ EntriesApart'
      /\ vaultFailures' \in 0 .. MaxVaultFailures
      /\ vaultFailures' = 0 => vaultFailures = 0
  BY <1>1, <1>2, VaultAssumption DEF VaultTypeOK, CountVaultFailure, EntriesApart
<1>5. /\ vpc' \in [VaultWorker -> UnderLock \cup {"idle", "lock", "ack", "down"}]
      /\ vpc'[w] \in UnderLock \cup {"ack"}
      /\ \A v \in VaultWorker : IF vpc'[v] \in {"idle", "down"} THEN entry'[v] = 0
                                                          ELSE entry'[v] \in vaultOps'.pending
  BY <1>1, <1>2, <1>4 DEF VaultTypeOK, UnderLock, FileOps
<1>6. \A v \in VaultWorker \ {w} :
        OpPath(v) \in Path \/ vpc[v] \in {"idle", "down"}
  BY <1>1, VaultParts
<1>7. CASE AcquireLock(w) \/ LockIsTaken(w) \/ AcquireFails(w)
  <2>1. /\ vpc[w] = "lock" /\ UNCHANGED << files, temporary >>
        /\ lock' \in [Path -> VaultWorker \cup {None}]
        /\ \A p \in Path \ {OpPath(w)} : lock'[p] = lock[p]
        /\ lock[OpPath(w)] = None \/ UNCHANGED lock
    BY <1>1, <1>3, <1>7 DEF AcquireLock, LockIsTaken, AcquireFails, VaultGoto, FreePaths,
       VaultTypeOK
  <2>2. VaultTypeOK' /\ FilesInv'
    BY <1>1, <1>2, <1>4, <1>5, <2>1 DEF VaultTypeOK, FilesInv
  <2>3. \/ /\ vpc'[w] \in {"open", "remove"} /\ lock'[OpPath(w)] = w
           /\ vpc'[w] = "open" => Op(w).kind = "write"
           /\ UNCHANGED vaultFailures
        \/ vpc'[w] = "ack" /\ lock[OpPath(w)] # None /\ UNCHANGED << lock, vaultFailures >>
        \/ vpc'[w] = "ack" /\ vaultFailures' > 0
    BY <1>1, <1>3, <1>7, VaultAssumption DEF AcquireLock, LockIsTaken, AcquireFails, VaultGoto,
       CountVaultFailure, VaultTypeOK
  <2>4. LocksHeld'
    BY <1>1, <1>3, <1>4, <1>6, <2>1, <2>3, VaultAssumption DEF LocksHeld, UnderLock, FileOps
  <2>5. LocksNeeded'
    BY <1>1, <1>3, <1>4, <2>1, <2>3 DEF LocksNeeded, UnderLock, FileOps, VaultTypeOK
  <2>6. \A v \in VaultWorker : TemporaryInv(v)'
    BY <1>1, <1>2, <1>3, <1>4, <2>1, <2>3 DEF TemporaryInv
  <2> QED BY <1>4, <2>2, <2>4, <2>5, <2>6 DEF VaultInv
<1>8. CASE OpenTemporary(w) \/ WriteTemporary(w) \/ RenameTemporary(w) \/ RemoveFile(w)
             \/ FileOpFails(w)
  <2> DEFINE p == OpPath(w)
  <2>1. /\ temporary \in [Path -> Content \cup {None}] /\ files \in [Path -> Content \cup {None}]
        /\ temporary[p] \in Content \cup {None} /\ TemporaryInv(w) /\ p \in Path
    BY <1>1, <1>3 DEF VaultTypeOK
  <2>2. \/ /\ vpc[w] = "open" /\ vpc'[w] = "write" /\ UNCHANGED files
           /\ temporary' = [temporary EXCEPT ![p] = [by |-> entry[w], whole |-> FALSE]]
        \/ /\ vpc[w] = "write" /\ vpc'[w] = "rename" /\ UNCHANGED files
           /\ temporary' = [temporary EXCEPT ![p] = [by |-> temporary[p].by, whole |-> TRUE]]
        \/ /\ vpc[w] = "rename" /\ vpc'[w] = "release"
           /\ files' = [files EXCEPT ![p] = temporary[p]]
           /\ temporary' = [temporary EXCEPT ![p] = None]
        \/ /\ vpc[w] = "remove" /\ vpc'[w] = "release" /\ UNCHANGED temporary
           /\ files' = [files EXCEPT ![p] = None]
        \/ vpc[w] \in FileOps /\ vpc'[w] = "release" /\ UNCHANGED << files, temporary >>
    <3>1. CASE OpenTemporary(w)
      BY <1>1, <3>1 DEF OpenTemporary, VaultGoto, VaultTypeOK
    <3>2. CASE WriteTemporary(w)
      <4>1. temporary[p] # None /\ temporary[p].by = entry[w]
        BY <2>1, <3>2 DEF WriteTemporary, VaultGoto, TemporaryInv
      <4> QED BY <1>1, <3>2, <4>1 DEF WriteTemporary, VaultGoto, VaultTypeOK
    <3>3. CASE RenameTemporary(w)
      BY <1>1, <2>1, <3>3 DEF RenameTemporary, VaultGoto, VaultTypeOK, TemporaryInv
    <3>4. CASE RemoveFile(w)
      BY <1>1, <3>4 DEF RemoveFile, VaultGoto, VaultTypeOK
    <3>5. CASE FileOpFails(w)
      BY <1>1, <3>5 DEF FileOpFails, VaultTypeOK
    <3> QED BY <1>8, <3>1, <3>2, <3>3, <3>4, <3>5
  <2>3. /\ vpc[w] \in UnderLock /\ vpc'[w] \in UnderLock /\ UNCHANGED lock
        /\ \A q \in Path \ {p} : temporary'[q] = temporary[q] /\ files'[q] = files[q]
    BY <1>8, <2>1, <2>2 DEF UnderLock, FileOps, OpenTemporary, WriteTemporary, RenameTemporary,
       RemoveFile, FileOpFails
  <2>4. [by |-> entry[w], whole |-> FALSE] \in Content
    BY <1>3 DEF Content
  <2>5. ASSUME temporary[p] # None
        PROVE  \E t \in Content : /\ t = [by |-> temporary[p].by, whole |-> TRUE]
                                  /\ t.by = temporary[p].by /\ t.whole /\ t # None
    <3>1. temporary[p] \in Content
      BY <2>1, <2>5
    <3> HIDE DEF p
    <3> QED BY <3>1, ContentParts
  <2>6. temporary' \in [Path -> Content \cup {None}] /\ files' \in [Path -> Content \cup {None}]
    BY <2>1, <2>2, <2>4, <2>5, ZenonT(60) DEF TemporaryInv
  <2>7. VaultTypeOK'
    BY <1>1, <1>2, <1>4, <1>5, <2>3, <2>6 DEF VaultTypeOK
  <2>8. LocksHeld' /\ LocksNeeded'
    <3>1. \A v \in VaultWorker : vpc'[v] \in UnderLock <=> vpc[v] \in UnderLock
      BY <1>4, <2>3
    <3>2. \A q \in Path : lock[q] \in VaultWorker \cup {None}
      BY <1>1 DEF VaultTypeOK
    <3> QED BY <1>1, <1>3, <1>4, <2>3, <3>1, <3>2 DEF LocksHeld, LocksNeeded
  <2>9. TemporaryInv(w)'
    <3>1. CASE vpc'[w] = "write"
      <4>1. temporary'[p] = [by |-> entry[w], whole |-> FALSE] /\ vpc[w] = "open"
        BY <2>1, <2>2, <3>1
      <4>2. temporary'[p] # None /\ temporary'[p].by = entry[w]
        <5>1. [by |-> entry[w], whole |-> FALSE] # None
          BY <1>3, ContentParts
        <5> HIDE DEF p
        <5> QED BY <4>1, <5>1
      <4> QED BY <1>2, <1>3, <2>1, <3>1, <4>1, <4>2 DEF TemporaryInv
    <3>2. CASE vpc'[w] = "rename"
      <4>1. /\ temporary'[p] = [by |-> temporary[p].by, whole |-> TRUE] /\ vpc[w] = "write"
        BY <2>1, <2>2, <3>2
      <4>2. temporary'[p] # None /\ temporary'[p].by = entry[w] /\ temporary'[p].whole
        BY <2>1, <2>5, <4>1 DEF TemporaryInv
      <4> QED BY <1>2, <1>3, <2>1, <3>2, <4>1, <4>2 DEF TemporaryInv
    <3>3. CASE vpc'[w] = "release"
      BY <3>3 DEF TemporaryInv
    <3> QED BY <2>2, <3>1, <3>2, <3>3
  <2>10. ASSUME NEW v \in VaultWorker \ {w} PROVE TemporaryInv(v)'
    <3>1. vpc[v] \in UnderLock => OpPath(v) # p /\ OpPath(v) \in Path
      BY <1>1, <1>6, <2>3 DEF LocksHeld, UnderLock, FileOps
    <3> QED BY <1>1, <1>2, <1>3, <1>4, <2>3, <3>1 DEF TemporaryInv, UnderLock, FileOps
  <2>11. FilesInv'
    <3>1. CASE vpc[w] = "rename" /\ files'[p] = temporary[p]
      <4>1. temporary[p].whole /\ temporary[p].by = entry[w] /\ Op(w).kind = "write"
        BY <2>1, <3>1 DEF TemporaryInv
      <4>2. vaultOps.log[temporary[p].by] = [kind |-> "write", path |-> p]
        BY <1>3, <4>1 DEF Op
      <4> QED BY <1>1, <1>2, <1>3, <2>3, <3>1, <4>1, <4>2 DEF FilesInv
    <3>2. CASE files'[p] = None \/ files'[p] = files[p]
      BY <1>1, <1>2, <2>3, <3>2 DEF FilesInv
    <3> QED BY <2>1, <2>2, <3>1, <3>2
  <2> QED BY <1>4, <2>7, <2>8, <2>9, <2>10, <2>11 DEF VaultInv
<1>9. CASE ReleaseLock(w) \/ ReleaseFails(w)
  <2>1. /\ vpc[w] = "release" /\ vpc'[w] = "ack" /\ UNCHANGED << files, temporary >>
        /\ lock' \in [Path -> VaultWorker \cup {None}]
        /\ \A p \in Path \ {OpPath(w)} : lock'[p] = lock[p]
        /\ lock'[OpPath(w)] = None \/ (vaultFailures' > 0 /\ UNCHANGED lock)
    <3>1. CASE ReleaseLock(w)
      BY <1>1, <1>3, <3>1 DEF ReleaseLock, VaultGoto, VaultTypeOK
    <3>2. CASE ReleaseFails(w)
      BY <1>1, <1>3, <3>2, VaultAssumption DEF ReleaseFails, VaultGoto, CountVaultFailure, VaultTypeOK
    <3> QED BY <1>9, <3>1, <3>2
  <2>2. VaultTypeOK' /\ FilesInv'
    BY <1>1, <1>2, <1>4, <1>5, <2>1 DEF VaultTypeOK, FilesInv
  <2>3. LocksHeld'
    BY <1>1, <1>3, <1>4, <1>6, <2>1 DEF LocksHeld, UnderLock, FileOps
  <2>4. LocksNeeded'
    <3>1. CASE vaultFailures' = 0
      <4>1. lock'[OpPath(w)] = None /\ vaultFailures = 0
        BY <1>4, <2>1, <3>1
      <4>2. ASSUME NEW p \in Path, NEW v \in VaultWorker, lock'[p] = v
            PROVE  vpc'[v] \in UnderLock /\ OpPath(v)' = p
        <5>1. p # OpPath(w) /\ lock[p] = v
          BY <2>1, <4>1, <4>2, VaultAssumption
        <5>2. vpc[v] \in UnderLock /\ OpPath(v) = p
          BY <1>1, <4>1, <5>1 DEF LocksNeeded
        <5> QED BY <1>3, <1>4, <5>1, <5>2
      <4> QED BY <4>2 DEF LocksNeeded
    <3> QED BY <3>1 DEF LocksNeeded
  <2>5. \A v \in VaultWorker : TemporaryInv(v)'
    BY <1>1, <1>2, <1>3, <1>4, <2>1 DEF TemporaryInv
  <2> QED BY <1>4, <2>2, <2>3, <2>4, <2>5 DEF VaultInv
<1> QED BY <1>7, <1>8, <1>9

\* Deaths, restarts, and locks that expire.
LEMMA VaultOtherSteps ==
  ASSUME VaultInv,
         \/ \E w \in VaultWorker : CrashVault(w) \/ StartVault(w)
         \/ \E p \in Path : LockExpires(p)
         \/ UNCHANGED vaultVars
  PROVE  VaultInv'
<1>1. /\ VaultTypeOK /\ EntriesApart /\ LocksHeld /\ LocksNeeded /\ FilesInv
      /\ \A v \in VaultWorker : TemporaryInv(v)
  BY DEF VaultInv
<1>2. ASSUME NEW w \in VaultWorker, CrashVault(w) \/ StartVault(w) PROVE VaultInv'
  <2>1. /\ \A v \in VaultWorker \ {w} : vpc'[v] = vpc[v] /\ entry'[v] = entry[v]
        /\ vpc'[w] \in {"idle", "down"} /\ entry'[w] = 0
        /\ UNCHANGED << vaultOps, files, temporary, lock >>
        /\ vaultFailures' = 0 => vaultFailures = 0 /\ vpc[w] = "down"
    BY <1>1, <1>2, VaultAssumption DEF CrashVault, StartVault, Forget, VaultGoto,
       CountVaultFailure, VaultTypeOK
  <2>2. VaultTypeOK'
    <3>1. /\ vpc' \in [VaultWorker -> UnderLock \cup {"idle", "lock", "ack", "down"}]
          /\ entry' \in [VaultWorker -> Nat] /\ vaultFailures' \in 0 .. MaxVaultFailures
      <4>1. CASE CrashVault(w)
        <5>1. /\ vpc' = [vpc EXCEPT ![w] = "down"] /\ entry' = [entry EXCEPT ![w] = 0]
              /\ vaultFailures < MaxVaultFailures /\ vaultFailures' = vaultFailures + 1
          BY <4>1 DEF CrashVault, Forget, CountVaultFailure
        <5>2. vaultFailures' \in 0 .. MaxVaultFailures
          BY <1>1, <5>1, VaultAssumption DEF VaultTypeOK
        <5> QED BY <1>1, <5>1, <5>2 DEF VaultTypeOK
      <4>2. CASE StartVault(w)
        <5>1. vpc' = [vpc EXCEPT ![w] = "idle"] /\ UNCHANGED << entry, vaultFailures >>
          BY <4>2 DEF StartVault, VaultGoto
        <5> QED BY <1>1, <5>1 DEF VaultTypeOK
      <4> QED BY <1>2, <4>1, <4>2
    <3>2. \A v \in VaultWorker : IF vpc'[v] \in {"idle", "down"} THEN entry'[v] = 0
                                                        ELSE entry'[v] \in vaultOps'.pending
      BY <1>1, <2>1 DEF VaultTypeOK
    <3> QED BY <1>1, <2>1, <3>1, <3>2 DEF VaultTypeOK
  <2>3. EntriesApart' /\ FilesInv'
    BY <1>1, <2>1 DEF EntriesApart, FilesInv
  <2>4. \A v \in VaultWorker \ {w} : Op(v)' = Op(v) /\ OpPath(v)' = OpPath(v)
    BY <2>1 DEF Op, OpPath
  <2>5. LocksHeld'
    BY <1>1, <2>1, <2>4 DEF LocksHeld, UnderLock, FileOps
  <2>6. LocksNeeded'
    <3>1. \A p \in Path : lock[p] \in VaultWorker \cup {None}
      BY <1>1 DEF VaultTypeOK
    <3> QED BY <1>1, <2>1, <2>4, <3>1 DEF LocksNeeded, UnderLock, FileOps
  <2>7. \A v \in VaultWorker : TemporaryInv(v)'
    BY <1>1, <2>1, <2>4 DEF TemporaryInv
  <2> QED BY <2>2, <2>3, <2>5, <2>6, <2>7 DEF VaultInv
<1>3. ASSUME NEW p \in Path, LockExpires(p) PROVE VaultInv'
  <2>1. /\ UNCHANGED << vaultOps, files, temporary, vpc, entry, vaultFailures >>
        /\ lock[p] # None /\ lock' = [lock EXCEPT ![p] = None]
        /\ ~(vpc[lock[p]] \in UnderLock /\ OpPath(lock[p]) = p)
    BY <1>3 DEF LockExpires
  <2>2. VaultTypeOK' /\ EntriesApart' /\ FilesInv'
    BY <1>1, <2>1 DEF VaultTypeOK, EntriesApart, FilesInv
  <2>3. \A v \in VaultWorker : Op(v)' = Op(v) /\ OpPath(v)' = OpPath(v)
    BY <2>1 DEF Op, OpPath
  <2>4. LocksHeld' /\ LocksNeeded'
    BY <1>1, <2>1, <2>3 DEF LocksHeld, LocksNeeded, VaultTypeOK
  <2>5. \A v \in VaultWorker : TemporaryInv(v)'
    BY <1>1, <2>1, <2>3 DEF TemporaryInv
  <2> QED BY <2>2, <2>4, <2>5 DEF VaultInv
<1>4. CASE UNCHANGED vaultVars
  BY <1>1, <1>4 DEF vaultVars, VaultInv, VaultTypeOK, EntriesApart, LocksHeld, LocksNeeded,
     FilesInv, TemporaryInv, Op, OpPath
<1> QED BY <1>2, <1>3, <1>4

LEMMA VaultInvKept == VaultInv /\ [VaultNext]_vaultVars => VaultInv'
  BY VaultStreamSteps, VaultWorkSteps, VaultOtherSteps DEF VaultNext, VaultStep

\* A reader finds the whole of what some operation wrote to that path, however many workers
\* share the temporary file of the path, and whoever dies in the middle.
THEOREM VaultFilesAreWhole == ServicesSpec => []VaultFileIsWhole
<1>1. ServicesInit => VaultInv
  BY PartsBegin, VaultBegins
<1>2. VaultInv /\ [ServicesNext]_serviceVars => VaultInv'
  BY StepsOfParts, VaultInvKept
<1>3. VaultInv => VaultFileIsWhole
  BY DEF VaultInv, FilesInv, VaultFileIsWhole
<1> QED BY <1>1, <1>2, <1>3, PTL DEF ServicesSpec

LEMMA DropsAreForAnother ==
  ASSUME VaultInv, [VaultNext]_vaultVars, NEW w \in VaultWorker, vpc[w] = "lock", vpc'[w] = "ack"
  PROVE  \/ vaultFailures' > 0
         \/ \E v \in VaultWorker \ {w} : vpc[v] \in UnderLock /\ OpPath(v) = OpPath(w)
<1>1. /\ VaultTypeOK /\ LocksNeeded
      /\ OpPath(w) \in Path /\ lock[OpPath(w)] \in VaultWorker \cup {None}
      /\ vaultFailures \in Nat
  BY VaultParts, VaultAssumption DEF VaultInv, VaultTypeOK
<1>2. LockIsTaken(w) \/ AcquireFails(w)
  <2>1. vpc \in [VaultWorker -> UnderLock \cup {"idle", "lock", "ack", "down"}]
    BY <1>1 DEF VaultTypeOK
  <2>2. PICK v \in VaultWorker :
          \/ VaultStep(v) \/ VaultReadFails(v) \/ AcquireFails(v) \/ FileOpFails(v)
          \/ ReleaseFails(v) \/ CrashVault(v) \/ StartVault(v)
    BY DEF VaultNext, SendVaultOp, LockExpires, vaultVars
  <2>3. vpc'[w] = "ack" /\ vpc[w] = "lock" /\ vpc' # vpc
    BY <2>1
  <2>4. CASE ReadVaultOp(v) \/ VaultReadFails(v) \/ AckVaultOp(v) \/ CrashVault(v) \/ StartVault(v)
    BY <2>1, <2>3, <2>4 DEF ReadVaultOp, VaultReadFails, AckVaultOp, CrashVault, StartVault,
       VaultGoto, Forget
  <2>5. CASE \/ AcquireLock(v) \/ OpenTemporary(v) \/ WriteTemporary(v) \/ RenameTemporary(v)
             \/ RemoveFile(v) \/ FileOpFails(v) \/ ReleaseLock(v) \/ ReleaseFails(v)
    BY <2>1, <2>3, <2>5 DEF AcquireLock, OpenTemporary, WriteTemporary, RenameTemporary,
       RemoveFile, FileOpFails, ReleaseLock, ReleaseFails, VaultGoto, FileOps
  <2>6. CASE LockIsTaken(v) \/ AcquireFails(v)
    BY <2>1, <2>3, <2>6 DEF LockIsTaken, AcquireFails, VaultGoto
  <2> QED BY <2>2, <2>4, <2>5, <2>6 DEF VaultStep
<1>3. CASE AcquireFails(w)
  BY <1>1, <1>3 DEF AcquireFails, CountVaultFailure
<1>4. CASE LockIsTaken(w) /\ vaultFailures = 0
  <2>1. PICK v \in VaultWorker : lock[OpPath(w)] = v
    BY <1>1, <1>4 DEF LockIsTaken
  <2>2. vpc[v] \in UnderLock /\ OpPath(v) = OpPath(w)
    BY <1>1, <1>4, <2>1 DEF LocksNeeded
  <2> QED BY <2>2 DEF UnderLock, FileOps
<1> QED BY <1>1, <1>2, <1>3, <1>4 DEF LockIsTaken

\* An operation is dropped for the lock only when another worker is at an operation on the same
\* path, or something has failed before.
THEOREM OperationsComeThrough == ServicesSpec => DroppedOnlyForAnother
<1> DEFINE ForAnother ==
      \A w \in VaultWorker :
        vpc[w] = "lock" /\ vpc'[w] = "ack" =>
          \/ vaultFailures' > 0
          \/ \E v \in VaultWorker \ {w} : vpc[v] \in UnderLock /\ OpPath(v) = OpPath(w)
<1>1. ServicesInit => VaultInv
  BY PartsBegin, VaultBegins
<1>2. VaultInv /\ [ServicesNext]_serviceVars => VaultInv'
  BY StepsOfParts, VaultInvKept
<1>3. VaultInv /\ [ServicesNext]_serviceVars => [ForAnother]_vaultVars
  BY StepsOfParts, DropsAreForAnother
<1> QED BY <1>1, <1>2, <1>3, PTL DEF ServicesSpec, DroppedOnlyForAnother

-----------------------------------------------------------------------------
(* Notifications: what is about to be acknowledged is accounted for, what  *)
(* is still to be sent has not been.                                       *)

AccountedFor(i) ==
  \/ sent[i] > 0
  \/ \E j \in 1 .. Len(failedStream) : failedStream[j] = i
  \/ i \in refused

NotifyInv ==
  /\ NotifyTypeOK
  /\ \A i \in Notification : i > notifications.cursor => sent[i] = 0
  /\ npc = "send" => sent[current] = 0
  /\ npc = "ack" => AccountedFor(current)
  /\ NotificationIsAccountedFor

LEMMA NotifyBegins == NotifyInit => NotifyInv
  BY NotifyAssumption DEF NotifyInit, NotifyInv, NotifyTypeOK, NotificationIsAccountedFor,
     NewStream, Stream, Notification

LEMMA NotifyInvKept == NotifyInv /\ [NotifyNext]_notifyVars => NotifyInv'
<1> SUFFICES ASSUME NotifyInv, [NotifyNext]_notifyVars PROVE NotifyInv'
  OBVIOUS
<1>1. /\ NotifyTypeOK /\ NotificationIsAccountedFor
      /\ notifications \in Stream({"request"}) /\ Len(notifications.log) <= MaxNotifications
      /\ Len(notifications.log) \in Nat /\ notifications.cursor \in Nat
      /\ notifications.cursor <= Len(notifications.log)
      /\ notifications.pending \subseteq 1 .. notifications.cursor
  BY StreamParts DEF NotifyInv, NotifyTypeOK
<1>2. npc \notin {"idle", "down"} =>
        current \in notifications.pending /\ current \in Notification /\ current # 0
  BY <1>1, NotifyAssumption DEF NotifyTypeOK, Notification
<1>3. CASE Notify
  <2>1. notifications' \in Stream({"request"}) /\ Len(notifications'.log) <= MaxNotifications
        /\ notifications'.cursor = notifications.cursor
        /\ notifications'.pending = notifications.pending
    <3>1. /\ notifications' \in Stream({"request"})
          /\ notifications'.log = Append(notifications.log, "request")
          /\ notifications'.cursor = notifications.cursor
          /\ notifications'.pending = notifications.pending
      BY <1>1, <1>3, XADDStream DEF Notify
    <3>2. Len(notifications'.log) = Len(notifications.log) + 1
      <4>1. notifications.log \in Seq({"request"})
        BY <1>1, StreamParts
      <4> QED BY <3>1, <4>1, AppendProperties
    <3> QED BY <1>1, <1>3, <3>1, <3>2, NotifyAssumption DEF Notify
  <2> QED BY <1>1, <1>3, <2>1 DEF Notify, NotifyInv, NotifyTypeOK, NotificationIsAccountedFor,
             AccountedFor
<1>4. CASE ReadNotification \/ NotifyReadFails
  <2>1. /\ notifications' \in Stream({"request"}) /\ notifications'.log = notifications.log
        /\ notifications'.cursor = notifications.cursor + 1
        /\ notifications'.pending = notifications.pending \cup {notifications.cursor + 1}
        /\ notifications.cursor + 1 \in Notification
        /\ UNCHANGED << failedStream, sent, refused >>
        /\ notifyFailures' \in 0 .. MaxNotifyFailures
    <3>1. HasUnread(notifications) /\ notifications' = XREADGROUP(notifications)
      BY <1>4 DEF ReadNotification, NotifyReadFails
    <3>2. /\ notifications' \in Stream({"request"}) /\ notifications'.log = notifications.log
          /\ notifications'.cursor = notifications.cursor + 1
          /\ notifications'.pending = notifications.pending \cup {notifications.cursor + 1}
          /\ notifications.cursor + 1 \in 1 .. Len(notifications.log)
      BY <1>1, <3>1, XREADGROUPStream DEF NextId
    <3> QED BY <1>1, <1>4, <3>2, NotifyAssumption, SMTT(30)
            DEF ReadNotification, NotifyReadFails, CountNotifyFailure, NotifyTypeOK, Notification
  <2>2. NotifyTypeOK'
    BY <1>1, <1>4, <2>1 DEF ReadNotification, NotifyReadFails, NotifyGoto, NextId, NotifyTypeOK
  <2>3. NotificationIsAccountedFor'
    BY <1>1, <2>1 DEF NotificationIsAccountedFor, Notification
  <2> QED BY <1>1, <1>2, <1>4, <2>1, <2>2, <2>3
          DEF ReadNotification, NotifyReadFails, NotifyGoto, NextId, NotifyInv, AccountedFor,
              Notification
<1>5. CASE SendNotification
  <2>1. PICK raised \in BOOLEAN, reached \in {0, 1} :
          /\ npc = "send" /\ npc' = IF raised THEN "move" ELSE "ack"
          /\ ~raised => reached = 1
          /\ sent' = [sent EXCEPT ![current] = @ + reached]
          /\ UNCHANGED << notifications, failedStream, current, refused, notifyFailures >>
    BY <1>5 DEF SendNotification, NotifyGoto
  <2>2. /\ current \in Notification /\ current \in notifications.pending
        /\ sent'[current] = reached
        /\ \A i \in Notification \ {current} : sent'[i] = sent[i]
        /\ sent' \in [Notification -> Nat]
    BY <1>1, <1>2, <2>1 DEF NotifyInv, NotifyTypeOK
  <2>3. NotifyTypeOK'
    BY <1>1, <2>1, <2>2 DEF NotifyTypeOK
  <2>4. NotificationIsAccountedFor'
    BY <1>1, <2>1, <2>2 DEF NotificationIsAccountedFor
  <2> QED BY <1>1, <2>1, <2>2, <2>3, <2>4 DEF NotifyInv, AccountedFor
<1>6. CASE MoveToFailed \/ MoveFails \/ MoveFailsAgain
  <2>1. /\ npc \in {"move", "again"} /\ npc' \in {"again", "ack"}
        /\ UNCHANGED << notifications, sent, current >>
        /\ failedStream' \in {failedStream, Append(failedStream, current)}
        /\ refused' \in {refused, refused \cup {current}}
        /\ notifyFailures' \in 0 .. MaxNotifyFailures
        /\ npc' = "ack" => failedStream' = Append(failedStream, current) \/ current \in refused'
    BY <1>1, <1>6, NotifyAssumption, SMTT(30)
    DEF MoveToFailed, MoveFails, MoveFailsAgain, NotifyGoto,
       CountNotifyFailure, NotifyTypeOK
  <2>2. current \in Notification /\ failedStream \in Seq(Notification)
    BY <1>1, <1>2, <2>1 DEF NotifyTypeOK
  <2>3. failedStream' \in Seq(Notification)
    BY <2>1, <2>2
  <2>4. NotifyTypeOK'
    BY <1>1, <2>1, <2>2, <2>3 DEF NotifyTypeOK
  <2>5. /\ Len(failedStream) <= Len(failedStream') /\ Len(failedStream) \in Nat
        /\ \A j \in 1 .. Len(failedStream) : failedStream'[j] = failedStream[j]
        /\ failedStream' = Append(failedStream, current) =>
             Len(failedStream') = Len(failedStream) + 1
               /\ failedStream'[Len(failedStream) + 1] = current
    BY <2>1, <2>2, AppendProperties
  <2>6. \A i \in Notification : AccountedFor(i) => AccountedFor(i)'
    BY <2>1, <2>5 DEF AccountedFor
  <2>7. npc' = "ack" => AccountedFor(current)'
    BY <2>1, <2>5 DEF AccountedFor
  <2>8. NotificationIsAccountedFor'
    BY <1>1, <2>1, <2>6 DEF NotificationIsAccountedFor, AccountedFor
  <2>9. /\ \A i \in Notification : i > notifications'.cursor => sent'[i] = 0
        /\ npc' # "send" /\ current' = current
    BY <2>1 DEF NotifyInv
  <2> QED BY <2>4, <2>7, <2>8, <2>9 DEF NotifyInv, AccountedFor
<1>7. CASE AckNotification
  <2>1. /\ npc = "ack" /\ npc' = "idle" /\ current' = 0
        /\ notifications' \in Stream({"request"}) /\ notifications'.log = notifications.log
        /\ notifications'.cursor = notifications.cursor
        /\ notifications'.pending = notifications.pending \ {current}
        /\ UNCHANGED << failedStream, sent, refused, notifyFailures >>
    BY <1>1, <1>7, XACKStream DEF AckNotification, NotifyGoto
  <2>2. NotifyTypeOK'
    BY <1>1, <2>1 DEF NotifyTypeOK
  <2>3. AccountedFor(current)
    BY <2>1 DEF NotifyInv
  <2>4. NotificationIsAccountedFor'
    BY <1>1, <2>1, <2>3 DEF NotificationIsAccountedFor, AccountedFor
  <2> QED BY <2>1, <2>2, <2>4 DEF NotifyInv
<1>8. CASE NotifyAckFails \/ CrashNotify \/ StartNotify
  <2>1. /\ npc' \in {"idle", "down"} /\ current' = 0
        /\ UNCHANGED << notifications, failedStream, sent, refused >>
        /\ notifyFailures' \in 0 .. MaxNotifyFailures
    BY <1>1, <1>8, NotifyAssumption DEF NotifyAckFails, CrashNotify, StartNotify, NotifyGoto,
       CountNotifyFailure, NotifyTypeOK
  <2> QED BY <1>1, <2>1 DEF NotifyInv, NotifyTypeOK, NotificationIsAccountedFor
<1>9. CASE UNCHANGED notifyVars
  BY <1>9 DEF notifyVars, NotifyInv, NotifyTypeOK, NotificationIsAccountedFor, AccountedFor
<1> QED BY <1>3, <1>4, <1>5, <1>6, <1>7, <1>8, <1>9 DEF NotifyNext, NotifyStep

\* An acknowledged request was sent, or is in the dead-letter stream, unless Redis refused it
\* there twice; none is sent twice, whatever raises and whenever the service restarts.
THEOREM NotificationsAreAccountedFor == ServicesSpec => []NotificationIsAccountedFor
<1>1. ServicesInit => NotifyInv
  BY PartsBegin, NotifyBegins
<1>2. NotifyInv /\ [ServicesNext]_serviceVars => NotifyInv'
  BY StepsOfParts, NotifyInvKept
<1>3. NotifyInv => NotificationIsAccountedFor
  BY DEF NotifyInv
<1> QED BY <1>1, <1>2, <1>3, PTL DEF ServicesSpec

-----------------------------------------------------------------------------
(* Watchdog: from the first hot reading on, what runs was excused or is    *)
(* still to be killed.                                                     *)

WatchdogInv ==
  /\ wdpc \in {"read", "down", "kill", "notice", "exited"}
  /\ peak \in Level /\ heat \in Level /\ up \subseteq Role
  /\ peak = EMERGENCY => wdpc \in {"down", "exited"}
  /\ wdpc = "kill" => peak = STAGE1
  /\ wdpc = "read" /\ stage1_triggered => peak = STAGE1
  /\ wdpc = "kill" => up \ toKill \subseteq excused
  /\ wdpc \in {"read", "notice"} /\ peak = STAGE1 => up \subseteq excused
  /\ wdpc = "notice" /\ stage1_triggered => peak = STAGE1
  /\ wdpc = "kill" => stage1_triggered

LEMMA WatchdogBegins == WatchdogInit => WatchdogInv
  BY DEF WatchdogInit, WatchdogInv, Level, EMERGENCY, STAGE1

LEMMA WatchdogInvKept == WatchdogInv /\ [WatchdogNext]_watchdogVars => WatchdogInv'
<1> SUFFICES ASSUME WatchdogInv, [WatchdogNext]_watchdogVars PROVE WatchdogInv'
  OBVIOUS
<1> USE DEF WatchdogInv, Level, EMERGENCY, STAGE1
<1>1. ASSUME NEW h \in Level, NEW b \in BOOLEAN, Heat(h, b) PROVE WatchdogInv'
  BY <1>1 DEF Heat
<1>2. ASSUME NEW r \in Role, StartContainers(r) PROVE WatchdogInv'
  BY <1>2 DEF StartContainers
<1>3. CASE ReadTemps
  <2>1. PICK reading \in Level :
          /\ wdpc = "read" /\ peak' = reading
          /\ wdpc' = CommandAfter(reading)
          /\ stage1_triggered' = Stage1After(reading)
          /\ toKill' = IF wdpc' = "kill" THEN Role ELSE {}
          /\ excused' = IF reading < STAGE1 THEN {} ELSE excused
          /\ UNCHANGED << heat, up >>
    BY <1>3 DEF ReadTemps
  <2>2. CASE reading = EMERGENCY
    BY <2>1, <2>2 DEF CommandAfter
  <2>3. CASE reading = STAGE1 /\ ~stage1_triggered
    <3>1. wdpc' = "kill"
      BY <2>1, <2>3 DEF CommandAfter
    <3>2. Stage1After(reading)
      BY <2>3 DEF Stage1After
    <3>3. stage1_triggered'
      BY <2>1, <3>2, Zenon
    <3> QED BY <2>1, <2>3, <3>1, <3>3
  <2>4. CASE reading = STAGE1 /\ stage1_triggered
    <3>1. wdpc' = "notice"
      BY <2>1, <2>4 DEF CommandAfter
    <3> QED BY <2>1, <2>4, <3>1
  <2>5. CASE reading < STAGE1
    <3>1. wdpc' = "notice"
      BY <2>1, <2>5 DEF CommandAfter
    <3>2. ~Stage1After(reading)
      BY <2>5 DEF Stage1After
    <3>3. ~stage1_triggered'
      BY <2>1, <3>2, Zenon
    <3> QED BY <2>1, <2>5, <3>1, <3>3
  <2> QED BY <2>2, <2>3, <2>4, <2>5
<1>4. ASSUME NEW r \in Role, KillContainers(r) PROVE WatchdogInv'
  BY <1>4 DEF KillContainers
<1>5. CASE Notice \/ ComposeDown
  BY <1>5 DEF Notice, ComposeDown
<1>6. CASE UNCHANGED watchdogVars
  BY <1>6 DEF watchdogVars
<1> QED BY <1>1, <1>2, <1>3, <1>4, <1>5, <1>6 DEF WatchdogNext, WatchdogStep

\* Between two rounds no container of a heavy role runs while it is hot that was there when it
\* became so, unless docker failed to kill it: for any course of temperatures.
THEOREM HeatStopsTheWork == ServicesSpec => []HotStopsTheWork
<1>1. ServicesInit => WatchdogInv
  BY PartsBegin, WatchdogBegins
<1>2. WatchdogInv /\ [ServicesNext]_serviceVars => WatchdogInv'
  BY StepsOfParts, WatchdogInvKept
<1>3. WatchdogInv => HotStopsTheWork
  BY DEF WatchdogInv, HotStopsTheWork, Level, EMERGENCY, STAGE1
<1> QED BY <1>1, <1>2, <1>3, PTL DEF ServicesSpec

-----------------------------------------------------------------------------
(* Containers: of a task in which nothing has failed, directory and        *)
(* container are those of the call the controller is at.                   *)

\* A call of t that has been begun.
Begun(t, c) == c \in RunCall /\ c.task = t /\ c.seq <= begun[t]

\* An output that call c may be answered with.
Acceptable(c, output) ==
  output \in RunCall /\ output.task = c.task
    /\ (output = c \/ (output.seq < c.seq /\ c.task \in littered))

DirInv(t) ==
  dirs[t] # Absent =>
    /\ Begun(t, dirs[t].input)
    /\ dirs[t].output # Absent => Begun(t, dirs[t].output)
    /\ t \notin littered =>
         /\ erpc \notin {"idle", "down"} /\ ecall.task = t
         /\ dirs[t].input = ecall /\ dirs[t].output \in {Absent, ecall}

ContainerInv(t) ==
  containers[t] # Absent =>
    /\ containers[t].mounted => dirs[t] # Absent
    /\ containers[t].input # Absent => Begun(t, containers[t].input)
    /\ t \notin littered =>
         /\ erpc \in {"wait", "remove"} /\ ecall.task = t
         /\ containers[t].input \in {Absent, ecall}

ControllerInv ==
  /\ erpc \in {"idle", "run", "wait", "remove", "read", "clean", "down"}
  /\ IF erpc \in {"idle", "down"} THEN ecall = Absent ELSE ecall \in RunCall
  /\ erpc \notin {"idle", "down"} => ecall.seq = begun[ecall.task] /\ dirs[ecall.task] # Absent
  /\ pending \in Outcome \cup {Absent}
  /\ pending # Absent /\ pending.success =>
       erpc = "clean" /\ Acceptable(ecall, pending.output)

OutcomesInv ==
  \A c \in RunCall : outcomes[c] # Absent /\ outcomes[c].success => Acceptable(c, outcomes[c].output)

EphemeralTypes ==
  /\ begun \in [RunTask -> 0 .. MaxRunCalls]
  /\ dirs \in [RunTask -> Dir \cup {Absent}]
  /\ containers \in [RunTask -> Container \cup {Absent}]
  /\ outcomes \in [RunCall -> Outcome \cup {Absent}]
  /\ littered \subseteq RunTask

EphemeralInv ==
  /\ EphemeralTypes /\ ControllerInv /\ OutcomesInv
  /\ \A t \in RunTask : DirInv(t) /\ ContainerInv(t)

LEMMA FailureIsNoSuccess == Failure \in Outcome /\ ~Failure.success
  BY DEF Failure, Outcome, RunCallOrNone

LEMMA EphemeralBegins == EphemeralInit => EphemeralInv
  BY EphemeralAssumption DEF EphemeralInit, EphemeralInv, EphemeralTypes, ControllerInv,
     OutcomesInv, DirInv, ContainerInv

\* The controller takes up a call, or runs its container.
LEMMA RunBegins ==
  ASSUME EphemeralInv, (\E t \in RunTask : BeginRun(t)) \/ DockerRun
  PROVE  EphemeralInv'
<1>1. /\ EphemeralTypes /\ ControllerInv /\ OutcomesInv
      /\ \A t \in RunTask : DirInv(t) /\ ContainerInv(t)
  BY DEF EphemeralInv
<1>2. ASSUME NEW t \in RunTask, BeginRun(t) PROVE EphemeralInv'
  <2>1. PICK call, out, dir :
          /\ call = [task |-> t, seq |-> begun[t] + 1]
          /\ out = IF dirs[t] = Absent THEN Absent ELSE dirs[t].output
          /\ dir = [input |-> call, output |-> out]
    OBVIOUS
  <2>2. /\ erpc = "idle" /\ erpc' = "run" /\ ecall' = call
        /\ begun' = [begun EXCEPT ![t] = @ + 1] /\ dirs' = [dirs EXCEPT ![t] = dir]
        /\ UNCHANGED << pending, containers, outcomes, littered >>
    BY <1>1, <1>2, <2>1 DEF BeginRun, EphemeralTypes
  <2>3. /\ call \in RunCall /\ begun' \in [RunTask -> 0 .. MaxRunCalls]
        /\ call.task = t /\ call.seq = begun'[t]
        /\ begun'[t] = begun[t] + 1 /\ begun[t] \in Nat
        /\ \A u \in RunTask \ {t} : begun'[u] = begun[u]
    BY <1>1, <1>2, <2>1, <2>2, EphemeralAssumption DEF BeginRun, EphemeralTypes, RunCall
  <2>4. out \in RunCallOrNone /\ (t \notin littered => out = Absent)
    BY <1>1, <2>1, <2>2 DEF EphemeralTypes, Dir, DirInv, RunCallOrNone
  <2>5. dir \in Dir /\ dir # Absent /\ dir.input = call /\ dir.output = out
    BY <2>1, <2>3, <2>4, AbsentAssumption DEF Dir
  <2>6. EphemeralTypes'
    BY <1>1, <2>2, <2>3, <2>5 DEF EphemeralTypes
  <2>7. \A u \in RunTask : \A c : Begun(u, c) => Begun(u, c)'
    BY <1>1, <2>2, <2>3 DEF Begun, RunCall, EphemeralTypes
  <2>8. dirs'[t] = dir /\ \A u \in RunTask \ {t} : dirs'[u] = dirs[u]
    BY <1>1, <2>2 DEF EphemeralTypes
  <2>9. ControllerInv'
    BY <1>1, <2>2, <2>3, <2>5, <2>8 DEF ControllerInv, Acceptable
  <2>10. OutcomesInv'
    BY <1>1, <2>2 DEF OutcomesInv, Acceptable
  <2>11. DirInv(t)'
    <3>1. Begun(t, call)'
      BY <2>3 DEF Begun, RunCall
    <3>2. out # Absent => Begun(t, out)'
      BY <1>1, <2>1, <2>7 DEF DirInv
    <3> QED BY <2>2, <2>3, <2>4, <2>5, <2>8, <3>1, <3>2 DEF DirInv
  <2>12. \A u \in RunTask \ {t} : DirInv(u)'
    BY <1>1, <2>2, <2>7, <2>8 DEF DirInv
  <2>13. \A u \in RunTask : ContainerInv(u)'
    BY <1>1, <2>2, <2>5, <2>7, <2>8 DEF ContainerInv
  <2> QED BY <2>6, <2>9, <2>10, <2>11, <2>12, <2>13 DEF EphemeralInv
<1>3. CASE DockerRun
  <2>1. /\ erpc = "run" /\ UNCHANGED << ecall, begun, dirs, outcomes, littered >>
        /\ \/ /\ erpc' = "wait" /\ pending' = Absent /\ containers[ecall.task] = Absent
              /\ containers' = [containers EXCEPT ![ecall.task] = [input |-> Absent, mounted |-> TRUE]]
           \/ erpc' = "clean" /\ pending' = Failure /\ UNCHANGED containers
    BY <1>3 DEF DockerRun, Goto
  <2>2. ecall \in RunCall /\ ecall.task \in RunTask
    BY <1>1, <2>1 DEF ControllerInv, RunCall
  <2>3. PICK fresh : fresh = [input |-> Absent, mounted |-> TRUE]
    OBVIOUS
  <2>4. fresh \in Container /\ fresh.input = Absent
    BY <2>3 DEF Container, RunCallOrNone
  <2>5. /\ containers' \in [RunTask -> Container \cup {Absent}]
        /\ \A t \in RunTask :
             containers'[t] = containers[t]
               \/ (t = ecall.task /\ erpc' = "wait" /\ containers'[t] = fresh)
    BY <1>1, <2>1, <2>2, <2>3, <2>4 DEF EphemeralTypes
  <2>6. EphemeralTypes' /\ OutcomesInv' /\ \A t \in RunTask : DirInv(t)'
    BY <1>1, <2>1, <2>5 DEF EphemeralTypes, OutcomesInv, Acceptable, DirInv, Begun
  <2>7. ControllerInv'
    BY <1>1, <2>1, FailureIsNoSuccess DEF ControllerInv
  <2>8. \A t \in RunTask : ContainerInv(t)'
    BY <1>1, <2>1, <2>2, <2>4, <2>5 DEF ContainerInv, ControllerInv, Begun
  <2> QED BY <2>6, <2>7, <2>8 DEF EphemeralInv
<1> QED BY <1>2, <1>3

\* The controller goes on, and changes nothing but what it is to say.
LEMMA RunGoesOn ==
  ASSUME EphemeralInv, Timeout \/ RunRaises \/ ReadOutput \/ RestartRunner
  PROVE  EphemeralInv'
<1>1. /\ EphemeralTypes /\ ControllerInv /\ OutcomesInv
      /\ \A t \in RunTask : DirInv(t) /\ ContainerInv(t)
  BY DEF EphemeralInv
<1>2. UNCHANGED << ecall, begun, dirs, containers, outcomes, littered >>
  BY DEF Timeout, RunRaises, ReadOutput, RestartRunner, Goto
<1>3. EphemeralTypes' /\ OutcomesInv'
  BY <1>1, <1>2 DEF EphemeralTypes, OutcomesInv, Acceptable
<1>4. CASE ReadOutput
  <2>1. PICK outcome \in {Failure} \cup { [success |-> TRUE, output |-> c] : c \in Outputs } :
          erpc = "read" /\ erpc' = "clean" /\ pending' = outcome
    BY <1>4 DEF ReadOutput, Goto
  <2>2. ecall \in RunCall /\ ecall.task \in RunTask /\ ecall.seq = begun[ecall.task]
    BY <1>1, <2>1 DEF ControllerInv, RunCall
  <2>3. ASSUME NEW c \in Outputs PROVE Acceptable(ecall, c)
    <3>1. Begun(ecall.task, c) /\ (ecall.task \notin littered => c = ecall)
      BY <1>1, <2>1, <2>2, <2>3 DEF Outputs, DirInv, ControllerInv
    <3>2. c.seq = ecall.seq => c = ecall
      BY <2>2, <3>1 DEF Begun, RunCall
    <3>3. c.seq \in Nat /\ ecall.seq \in Nat
      BY <2>2, <3>1, EphemeralAssumption DEF Begun, RunCall
    <3> QED BY <2>2, <3>1, <3>2, <3>3 DEF Begun, Acceptable
  <2>4. outcome \in Outcome /\ (outcome.success => Acceptable(ecall, outcome.output))
    <3>1. CASE outcome = Failure
      BY <3>1, FailureIsNoSuccess
    <3>2. ASSUME NEW c \in Outputs, outcome = [success |-> TRUE, output |-> c]
          PROVE  outcome \in Outcome /\ Acceptable(ecall, outcome.output)
      BY <2>3, <3>2 DEF Acceptable, Outcome, RunCallOrNone
    <3> QED BY <2>1, <3>1, <3>2
  <2>5. ControllerInv'
    BY <1>1, <1>2, <2>1, <2>2, <2>4 DEF ControllerInv, Acceptable
  <2>6. \A t \in RunTask : DirInv(t)' /\ ContainerInv(t)'
    BY <1>1, <1>2, <2>1 DEF DirInv, ContainerInv, Begun
  <2> QED BY <1>3, <2>5, <2>6 DEF EphemeralInv
<1>5. CASE Timeout \/ RunRaises
  <2>1. \/ erpc = "wait" /\ erpc' = "remove" /\ pending' = Failure
        \/ erpc = "run" /\ erpc' = "clean" /\ pending' = Absent
    BY <1>5 DEF Timeout, RunRaises, Goto
  <2>2. ControllerInv'
    BY <1>1, <1>2, <2>1, FailureIsNoSuccess DEF ControllerInv
  <2>3. \A t \in RunTask : DirInv(t)' /\ ContainerInv(t)'
    BY <1>1, <1>2, <2>1 DEF DirInv, ContainerInv, Begun
  <2> QED BY <1>3, <2>2, <2>3 DEF EphemeralInv
<1>6. CASE RestartRunner
  <2>1. erpc = "down" /\ erpc' = "idle" /\ UNCHANGED pending
    BY <1>6 DEF RestartRunner
  <2>2. ControllerInv' /\ \A t \in RunTask : DirInv(t)' /\ ContainerInv(t)'
    BY <1>1, <1>2, <2>1 DEF ControllerInv, DirInv, ContainerInv, Begun
  <2> QED BY <1>3, <2>2 DEF EphemeralInv
<1> QED BY <1>4, <1>5, <1>6

\* The controller is done with a call, or dies.
LEMMA RunEnds ==
  ASSUME EphemeralInv, RemoveContainer \/ CleanUp \/ CrashInRun
  PROVE  EphemeralInv'
<1>1. /\ EphemeralTypes /\ ControllerInv /\ OutcomesInv
      /\ \A t \in RunTask : DirInv(t) /\ ContainerInv(t)
  BY DEF EphemeralInv
<1>2. CASE RemoveContainer
  <2>1. /\ erpc = "remove" /\ erpc' = "clean"
        /\ UNCHANGED << ecall, begun, pending, dirs, outcomes >>
        /\ \/ containers' = [containers EXCEPT ![ecall.task] = Absent] /\ UNCHANGED littered
           \/ littered' = littered \cup {ecall.task} /\ UNCHANGED containers
    BY <1>2 DEF RemoveContainer, Goto
  <2>2. ecall \in RunCall /\ ecall.task \in RunTask
    BY <1>1, <2>1 DEF ControllerInv, RunCall
  <2>3. littered \subseteq littered' /\ EphemeralTypes' /\ OutcomesInv'
    BY <1>1, <2>1, <2>2 DEF EphemeralTypes, OutcomesInv, Acceptable
  <2>4. ControllerInv' /\ \A t \in RunTask : DirInv(t)'
    BY <1>1, <2>1, <2>2, <2>3 DEF ControllerInv, Acceptable, DirInv, Begun
  <2>5. \A t \in RunTask : ContainerInv(t)'
    BY <1>1, <2>1, <2>2, <2>3 DEF ContainerInv, EphemeralTypes, Begun
  <2> QED BY <2>3, <2>4, <2>5 DEF EphemeralInv
<1>3. CASE CleanUp
  <2>1. /\ erpc = "clean" /\ erpc' = "idle" /\ ecall' = Absent /\ pending' = Absent
        /\ outcomes' = [outcomes EXCEPT ![ecall] = pending] /\ UNCHANGED begun
        /\ \/ DirRemoved(ecall.task) /\ UNCHANGED littered
           \/ littered' = littered \cup {ecall.task} /\ UNCHANGED << dirs, containers >>
    BY <1>3 DEF CleanUp, Report
  <2>2. /\ ecall \in RunCall /\ ecall.task \in RunTask
        /\ pending \in Outcome \cup {Absent}
        /\ pending # Absent /\ pending.success => Acceptable(ecall, pending.output)
    BY <1>1, <2>1 DEF ControllerInv, RunCall
  <2>3. ControllerInv' /\ littered \subseteq littered'
    BY <2>1, <2>2 DEF ControllerInv
  <2>4. /\ dirs' \in [RunTask -> Dir \cup {Absent}]
        /\ \A t \in RunTask :
             dirs'[t] = Absent \/ (dirs'[t] = dirs[t] /\ (t # ecall.task \/ t \in littered'))
    <3>1. CASE dirs' = [dirs EXCEPT ![ecall.task] = Absent]
      BY <1>1, <2>2, <3>1 DEF EphemeralTypes
    <3>2. CASE dirs' = dirs /\ littered' = littered \cup {ecall.task}
      BY <1>1, <2>2, <3>2 DEF EphemeralTypes
    <3> QED BY <2>1, <3>1, <3>2 DEF DirRemoved
  <2>5. /\ containers' \in [RunTask -> Container \cup {Absent}]
        /\ \A t \in RunTask :
             /\ containers'[t] # Absent => containers[t] # Absent /\ containers'[t].input = containers[t].input
             /\ containers'[t] # Absent /\ containers'[t].mounted =>
                  containers[t].mounted /\ dirs'[t] = dirs[t]
    <3>1. CASE UNCHANGED << dirs, containers >>
      BY <1>1, <3>1 DEF EphemeralTypes
    <3>2. CASE DirRemoved(ecall.task) /\ containers[ecall.task] = Absent
      BY <1>1, <2>2, <3>2 DEF EphemeralTypes, DirRemoved
    <3>3. CASE DirRemoved(ecall.task) /\ containers[ecall.task] # Absent
      <4>1. PICK left : left = [containers[ecall.task] EXCEPT !.mounted = FALSE]
        OBVIOUS
      <4>2. left \in Container /\ left.input = containers[ecall.task].input /\ ~left.mounted
        <5>1. containers[ecall.task] \in Container
          BY <1>1, <2>2, <3>3 DEF EphemeralTypes
        <5> QED BY <4>1, <5>1 DEF Container
      <4>3. containers' = [containers EXCEPT ![ecall.task] = left]
        BY <1>1, <2>2, <3>3, <4>1 DEF DirRemoved, EphemeralTypes
      <4>4. \A t \in RunTask \ {ecall.task} : dirs'[t] = dirs[t]
        BY <1>1, <2>2, <3>3 DEF DirRemoved, EphemeralTypes
      <4>5. /\ containers' \in [RunTask -> Container \cup {Absent}]
            /\ containers'[ecall.task] = left
            /\ \A t \in RunTask \ {ecall.task} : containers'[t] = containers[t]
        BY <1>1, <2>2, <4>2, <4>3 DEF EphemeralTypes
      <4> QED BY <3>3, <4>2, <4>4, <4>5
    <3> QED BY <2>1, <3>1, <3>2, <3>3
  <2>6. EphemeralTypes'
    BY <1>1, <2>1, <2>2, <2>4, <2>5 DEF EphemeralTypes
  <2>7. OutcomesInv'
    BY <1>1, <2>1, <2>2, <2>3 DEF OutcomesInv, Acceptable, EphemeralTypes
  <2>8. \A t \in RunTask : DirInv(t)'
    BY <1>1, <2>1, <2>3, <2>4 DEF DirInv, Begun
  <2>9. \A t \in RunTask : ContainerInv(t)'
    BY <1>1, <2>1, <2>3, <2>5 DEF ContainerInv, Begun
  <2> QED BY <2>3, <2>6, <2>7, <2>8, <2>9 DEF EphemeralInv
<1>4. CASE CrashInRun
  <2>1. /\ erpc # "down" /\ erpc' = "down" /\ ecall' = Absent /\ pending' = Absent
        /\ littered' = IF ecall = Absent THEN littered ELSE littered \cup {ecall.task}
        /\ UNCHANGED << begun, dirs, containers, outcomes >>
    BY <1>4 DEF CrashInRun
  <2>2. ControllerInv' /\ littered \subseteq littered'
    BY <2>1 DEF ControllerInv
  <2>3. /\ erpc = "idle" => ecall = Absent
        /\ erpc # "idle" => ecall \in RunCall /\ ecall # Absent /\ ecall.task \in RunTask
    BY <1>1, <2>1, AbsentAssumption DEF ControllerInv, RunCall
  <2>4. EphemeralTypes' /\ OutcomesInv'
    BY <1>1, <2>1, <2>2, <2>3 DEF EphemeralTypes, OutcomesInv, Acceptable
  <2>5. \A t \in RunTask : DirInv(t)' /\ ContainerInv(t)'
    BY <1>1, <2>1, <2>3 DEF DirInv, ContainerInv, Begun
  <2> QED BY <2>2, <2>4, <2>5 DEF EphemeralInv
<1> QED BY <1>2, <1>3, <1>4

\* A container does something.
LEMMA ContainerGoesOn ==
  ASSUME EphemeralInv, NEW t \in RunTask,
         ReadsInput(t) \/ WritesOutput(t) \/ \E success \in BOOLEAN : Exits(t, success)
  PROVE  EphemeralInv'
<1>1. /\ EphemeralTypes /\ ControllerInv /\ OutcomesInv
      /\ \A u \in RunTask : DirInv(u) /\ ContainerInv(u)
  BY DEF EphemeralInv
<1>2. CASE ReadsInput(t)
  <2>1. /\ containers[t] # Absent /\ containers[t].mounted
        /\ UNCHANGED << erpc, ecall, pending, begun, dirs, outcomes, littered >>
    BY <1>2 DEF ReadsInput
  <2>2. dirs[t] # Absent /\ dirs[t] \in Dir /\ containers[t] \in Container
    BY <1>1, <2>1 DEF ContainerInv, EphemeralTypes
  <2>3. PICK now : now = [containers[t] EXCEPT !.input = dirs[t].input]
    OBVIOUS
  <2>4. now \in Container /\ now.input = dirs[t].input
    BY <2>2, <2>3 DEF Container, Dir, RunCallOrNone
  <2>5. containers' = [containers EXCEPT ![t] = now]
    BY <1>1, <1>2, <2>3 DEF ReadsInput, EphemeralTypes
  <2>6. EphemeralTypes' /\ ControllerInv' /\ OutcomesInv' /\ \A u \in RunTask : DirInv(u)'
    BY <1>1, <2>1, <2>4, <2>5
       DEF EphemeralTypes, ControllerInv, OutcomesInv, Acceptable, DirInv, Begun
  <2>7. \A u \in RunTask \ {t} : ContainerInv(u)'
    BY <1>1, <2>1, <2>5 DEF ContainerInv, Begun, EphemeralTypes
  <2>8. ContainerInv(t)'
    BY <1>1, <2>1, <2>2, <2>4, <2>5 DEF ContainerInv, DirInv, Begun, EphemeralTypes
  <2> QED BY <2>6, <2>7, <2>8 DEF EphemeralInv
<1>3. CASE WritesOutput(t)
  <2>1. /\ containers[t] # Absent /\ containers[t].mounted /\ containers[t].input # Absent
        /\ UNCHANGED << erpc, ecall, pending, begun, containers, outcomes, littered >>
    BY <1>3 DEF WritesOutput
  <2>2. dirs[t] # Absent /\ dirs[t] \in Dir /\ Begun(t, containers[t].input)
    BY <1>1, <2>1 DEF ContainerInv, EphemeralTypes
  <2>3. PICK now : now = [dirs[t] EXCEPT !.output = containers[t].input]
    OBVIOUS
  <2>4. now \in Dir /\ now # Absent /\ now.input = dirs[t].input /\ now.output = containers[t].input
    BY <2>2, <2>3, AbsentAssumption DEF Dir, RunCallOrNone, Begun
  <2>5. dirs' = [dirs EXCEPT ![t] = now]
    BY <1>1, <1>3, <2>3 DEF WritesOutput, EphemeralTypes
  <2>6. EphemeralTypes' /\ OutcomesInv' /\ ControllerInv'
    BY <1>1, <2>1, <2>4, <2>5
       DEF EphemeralTypes, ControllerInv, OutcomesInv, Acceptable, RunCall
  <2>7. \A u \in RunTask : ContainerInv(u)'
    BY <1>1, <2>1, <2>4, <2>5 DEF ContainerInv, Begun, EphemeralTypes
  <2>8. \A u \in RunTask \ {t} : DirInv(u)'
    BY <1>1, <2>1, <2>5 DEF DirInv, Begun, EphemeralTypes
  <2>9. DirInv(t)'
    BY <1>1, <2>1, <2>2, <2>4, <2>5 DEF ContainerInv, DirInv, Begun, EphemeralTypes
  <2> QED BY <2>6, <2>7, <2>8, <2>9 DEF EphemeralInv
<1>4. ASSUME NEW success \in BOOLEAN, Exits(t, success) PROVE EphemeralInv'
  <2>1. /\ containers' = [containers EXCEPT ![t] = Absent]
        /\ UNCHANGED << ecall, begun, dirs, outcomes, littered >>
        /\ \/ /\ erpc = "wait" /\ ecall.task = t /\ erpc' \in {"read", "clean"}
              /\ pending' \in {Absent, Failure}
           \/ ~(erpc = "wait" /\ ecall.task = t) /\ UNCHANGED << erpc, pending >>
    BY <1>4 DEF Exits, Goto
  <2>2. EphemeralTypes' /\ OutcomesInv'
    BY <1>1, <2>1 DEF EphemeralTypes, OutcomesInv, Acceptable
  <2>3. ControllerInv'
    BY <1>1, <2>1, FailureIsNoSuccess DEF ControllerInv, Acceptable
  <2>4. \A u \in RunTask : DirInv(u)'
    BY <1>1, <2>1 DEF DirInv, Begun
  <2>5. containers'[t] = Absent /\ \A u \in RunTask \ {t} : containers'[u] = containers[u]
    BY <1>1, <2>1 DEF EphemeralTypes
  <2>6. \A u \in RunTask : ContainerInv(u)'
    BY <1>1, <2>1, <2>5 DEF ContainerInv, Begun
  <2> QED BY <2>2, <2>3, <2>4, <2>6 DEF EphemeralInv
<1> QED BY <1>2, <1>3, <1>4

LEMMA EphemeralInvKept == EphemeralInv /\ [EphemeralNext]_ephemeralVars => EphemeralInv'
<1> SUFFICES ASSUME EphemeralInv, [EphemeralNext]_ephemeralVars PROVE EphemeralInv'
  OBVIOUS
<1>1. CASE UNCHANGED ephemeralVars
  BY <1>1 DEF ephemeralVars, EphemeralInv, EphemeralTypes, ControllerInv, OutcomesInv, DirInv,
     ContainerInv, Acceptable, Begun
<1> QED BY <1>1, RunBegins, RunGoesOn, RunEnds, ContainerGoesOn
        DEF EphemeralNext, RunnerStepOf

\* The calls of a task share the name of a directory and of a container, and do not meet:
\* whatever times out, dies or raises, an output that is given back was computed from the input
\* of its own call, or after a failure from that of an earlier one of the same task.
THEOREM CallsStayApart == ServicesSpec => []CallsOfATaskAreApart
<1>1. ServicesInit => EphemeralInv
  BY PartsBegin, EphemeralBegins
<1>2. EphemeralInv /\ [ServicesNext]_serviceVars => EphemeralInv'
  BY StepsOfParts, EphemeralInvKept
<1>3. EphemeralInv => CallsOfATaskAreApart
  BY DEF EphemeralInv, OutcomesInv, Acceptable, ContainerInv, CallsOfATaskAreApart
<1> QED BY <1>1, <1>2, <1>3, PTL DEF ServicesSpec

-----------------------------------------------------------------------------
(* Types.  Three of the parts have theirs in their invariants.             *)

LEMMA SyncTypeKept == SyncTypeOK /\ [SyncNext]_syncVars => SyncTypeOK'
<1> SUFFICES ASSUME SyncTypeOK, [SyncNext]_syncVars PROVE SyncTypeOK'
  OBVIOUS
<1> USE SyncAssumption DEF SyncTypeOK, Permissions
<1>1. CASE ReadTable
  BY <1>1 DEF ReadTable
<1>2. ASSUME NEW u \in User, WriteUser(u) \/ SyncFails(u) PROVE SyncTypeOK'
  BY <1>2 DEF WriteUser, SyncFails, Written, Replaced
<1>3. ASSUME NEW u \in User, NEW S \in SUBSET Permission, ChangeTable(u, S) PROVE SyncTypeOK'
  BY <1>3 DEF ChangeTable
<1>4. CASE UNCHANGED syncVars
  BY <1>4 DEF syncVars
<1> QED BY <1>1, <1>2, <1>3, <1>4 DEF SyncNext

LEMMA WatchdogTypeKept == WatchdogTypeOK /\ [WatchdogNext]_watchdogVars => WatchdogTypeOK'
<1> SUFFICES ASSUME WatchdogTypeOK, [WatchdogNext]_watchdogVars PROVE WatchdogTypeOK'
  OBVIOUS
<1> USE WatchdogAssumption DEF WatchdogTypeOK, Level, EMERGENCY, STAGE1
<1>1. ASSUME NEW h \in Level, NEW b \in BOOLEAN, Heat(h, b) PROVE WatchdogTypeOK'
  BY <1>1 DEF Heat
<1>2. ASSUME NEW r \in Role, StartContainers(r) PROVE WatchdogTypeOK'
  BY <1>2 DEF StartContainers, CountDockerEvent
<1>3. CASE ReadTemps
  <2>1. stage1_triggered' \in BOOLEAN
    <3>1. \E reading \in Level : stage1_triggered' = Stage1After(reading)
      BY <1>3 DEF ReadTemps
    <3>2. ASSUME NEW reading PROVE Stage1After(reading) \in BOOLEAN
      <4>1. CASE reading = EMERGENCY
        BY <4>1 DEF Stage1After
      <4>2. CASE reading # EMERGENCY
        <5>1. Stage1After(reading) = (reading >= STAGE1)
          BY <4>2 DEF Stage1After
        <5> QED BY <5>1
      <4> QED BY <4>1, <4>2
    <3> QED BY <3>1, <3>2, Zenon
  <2>2. wdpc' \in {"down", "kill", "notice"}
    BY <1>3 DEF ReadTemps, CommandAfter
  <2>3. peak' \in Level /\ toKill' = (IF wdpc' = "kill" THEN Role ELSE {})
        /\ excused' \in {{}, excused}
        /\ UNCHANGED << heat, blind, warned, up, heatEvents, dockerEvents >>
    BY <1>3 DEF ReadTemps
  <2> QED BY <2>1, <2>2, <2>3
<1>4. ASSUME NEW r \in Role, KillContainers(r) PROVE WatchdogTypeOK'
  BY <1>4 DEF KillContainers, CountDockerEvent
<1>5. CASE Notice
  <2>1. warned' \in BOOLEAN
    BY <1>5 DEF Notice
  <2> QED BY <1>5, <2>1 DEF Notice
<1>6. CASE ComposeDown
  BY <1>6 DEF ComposeDown, CountDockerEvent
<1>7. CASE UNCHANGED watchdogVars
  BY <1>7 DEF watchdogVars
<1> QED BY <1>1, <1>2, <1>3, <1>4, <1>5, <1>6, <1>7 DEF WatchdogNext, WatchdogStep

LEMMA RunFailuresCounted ==
  ASSUME runFailures \in 0 .. MaxRunFailures, [EphemeralNext]_ephemeralVars
  PROVE  runFailures' \in 0 .. MaxRunFailures
BY EphemeralAssumption DEF EphemeralNext, RunnerStepOf, DockerRun, Timeout, RemoveContainer,
   ReadOutput, CleanUp, RunRaises, CrashInRun, RestartRunner, BeginRun, ReadsInput, WritesOutput,
   Exits, CountRunFailure, ephemeralVars

\* Every part of the platform keeps its types, the bounds of its counters included: what a
\* worker has in hand is pending in its stream, only what has rows is written, and a
\* container whose directory is gone is not mounted.
THEOREM ServicesTypeCorrect == ServicesSpec => []ServicesTypeOK
<1> DEFINE I == /\ NotifyInv /\ VaultInv /\ SyncTypeOK /\ JwksInv /\ WatchdogTypeOK
                /\ EphemeralInv /\ runFailures \in 0 .. MaxRunFailures
<1>1. ServicesInit => I
  <2> SUFFICES ASSUME ServicesInit PROVE I
    OBVIOUS
  <2>1. SyncTypeOK
    BY PartsBegin, SyncAssumption DEF SyncInit, SyncTypeOK, Permissions, Nothing
  <2>2. WatchdogTypeOK
    BY PartsBegin, WatchdogAssumption DEF WatchdogInit, WatchdogTypeOK, Level
  <2>3. runFailures \in 0 .. MaxRunFailures
    BY PartsBegin, EphemeralAssumption DEF EphemeralInit
  <2> QED BY <2>1, <2>2, <2>3, PartsBegin, NotifyBegins, VaultBegins, JwksBegins,
             EphemeralBegins
<1>2. I /\ [ServicesNext]_serviceVars => I'
  BY StepsOfParts, NotifyInvKept, VaultInvKept, SyncTypeKept, JwksInvKept, WatchdogTypeKept,
     EphemeralInvKept, RunFailuresCounted
<1>3. I => ServicesTypeOK
  <2>1. EphemeralInv /\ runFailures \in 0 .. MaxRunFailures => EphemeralTypeOK
    BY DEF EphemeralInv, EphemeralTypes, ControllerInv, ContainerInv, EphemeralTypeOK
  <2> QED BY <2>1 DEF ServicesTypeOK, NotifyInv, VaultInv, JwksInv
<1> QED BY <1>1, <1>2, <1>3, PTL DEF ServicesSpec
=============================================================================
