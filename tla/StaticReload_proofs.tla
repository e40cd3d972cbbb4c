------------------------- MODULE StaticReload_proofs -------------------------
(***************************************************************************)
(* The reload, the cache that follows it, and the clients whose copies it  *)
(* outdates.                                                               *)
(*                                                                         *)
(* For any set of stops, any sequence of files and any number of crashes:  *)
(* what is derived from the database belongs to the feed it is used with.  *)
(*                                                                         *)
(* For any number of calls, stops and shapes: no call is answered from a   *)
(* feed older than the generation it found when it began, the current      *)
(* generation serves the current feed, and nothing is computed twice.      *)
(* Whatever is kept under a generation was read after that generation was  *)
(* born, and imports only grow.                                            *)
(*                                                                         *)
(* For every number of clients and of queries in a handler, and any files  *)
(* whose hashes differ: a client that is told "not modified" holds a body  *)
(* of the feed in the database. Files are loaded in the order in which     *)
(* they are published, so hashes are committed in that order, and a tag    *)
(* that was given out before a commit is the hash of an earlier file.      *)
(***************************************************************************)
EXTENDS DirectionCache, StaticETag, SequenceTheorems, TLAPS

-----------------------------------------------------------------------------
(* The reload. *)

Hashes == {HashOf[n] : n \in Files} \cup {NoFeed}

\* Imports only grow, and what was derived from one stays derived from it.
LEMMA ImportsGrow ==
    ASSUME ReloadTypeOK, imports' \in Nat, imports <= imports'
    PROVE  /\ Imports \subseteq Imports'
           /\ born \in Seq(Imports')
           /\ directions \in [Stops -> Imports' \cup {Nothing}]
           /\ reload.bounds \in Imports' \cup {Nothing}
           /\ regionBounds \in Imports' \cup {Nothing}
<1>1. Imports \subseteq Imports'
  BY DEF Imports, ReloadTypeOK
<1>2. born \in Seq(Imports')
  BY <1>1 DEF ReloadTypeOK
<1> QED BY <1>1, <1>2 DEF ReloadTypeOK

\* The generations of the cache after a reload is published.
LEMMA BornAfterPublish ==
    ASSUME ReloadTypeOK, PublishStatic
    PROVE  /\ born' \in Seq(Imports)
           /\ born' # <<>>
           /\ born'[Len(born')] \in {imports, born[Len(born)]}
           /\ born' # born => born'[Len(born')] = imports
<1>1. imports \in Imports /\ born \in Seq(Imports) /\ (serving <=> born # <<>>)
  BY DEF ReloadTypeOK, Imports
<1>2. CASE ~serving
  <2>1. born' = <<imports>>
    BY <1>2 DEF PublishStatic
  <2> QED BY <1>1, <2>1
<1>3. CASE serving /\ reload.changed
  <2>1. born' = Append(born, imports)
    BY <1>3 DEF PublishStatic
  <2>2. /\ born' \in Seq(Imports)
        /\ Len(born') = Len(born) + 1
        /\ born'[Len(born) + 1] = imports
    BY <1>1, <2>1
  <2> QED BY <1>1, <2>2
<1>4. CASE serving /\ ~reload.changed
  <2>1. born' = born
    BY <1>4 DEF PublishStatic
  <2> QED BY <1>1, <1>4, <2>1
<1> QED BY <1>2, <1>3, <1>4

\* No reload in progress.
LEMMA IdleType ==
    Idle \in [at : {"idle", "import", "count", "precompute", "bounds", "publish"},
              hash : Hashes, changed : BOOLEAN, left : SUBSET Stops,
              bounds : {Nothing}]
BY DEF Idle, Hashes

\* What a process that starts holds in memory.
LEMMA EmptyMemory == <<>> \in Seq(Imports) /\ Nothing \in Imports \cup {Nothing}
OBVIOUS

LEMMA ReloadTypeInit == ReloadInit => ReloadTypeOK
<1> SUFFICES ASSUME ReloadInit PROVE ReloadTypeOK
  OBVIOUS
<1>1. source \in Files /\ crashes \in 0..MaxCrashes /\ imports \in Nat
  BY SourceAssumption DEF ReloadInit, Files
<1>2. directions \in [Stops -> Imports \cup {Nothing}]
  BY DEF ReloadInit
<1>3. reload \in [at : {"idle", "import", "count", "precompute", "bounds", "publish"},
                  hash : Hashes, changed : BOOLEAN, left : SUBSET Stops,
                  bounds : Imports \cup {Nothing}]
  BY IdleType DEF ReloadInit
<1>4. born \in Seq(Imports) /\ regionBounds \in Imports \cup {Nothing}
  BY EmptyMemory DEF ReloadInit
<1> QED BY <1>1, <1>2, <1>3, <1>4 DEF ReloadInit, ReloadTypeOK, Hashes

\* Every step keeps the types.
LEMMA ReloadTypeStep == ReloadTypeOK /\ [ReloadNext]_reloadVars => ReloadTypeOK'
<1> SUFFICES ASSUME ReloadTypeOK, [ReloadNext]_reloadVars
             PROVE  ReloadTypeOK'
  OBVIOUS
<1> USE DEF database, memory
<1>1. CASE UNCHANGED reloadVars
  BY <1>1 DEF reloadVars, ReloadTypeOK, Imports
<1>2. CASE SourceChanges
  BY <1>2, SourceAssumption DEF SourceChanges, ReloadTypeOK, Imports, Files
<1>3. CASE LoadFeed
  BY <1>3 DEF LoadFeed, ReloadTypeOK, Imports, Idle
<1>4. CASE ImportSkipped
  BY <1>4 DEF ImportSkipped, ReloadTypeOK, Imports
<1>5. CASE ImportFails
  BY <1>5 DEF ImportFails, ReloadTypeOK, Imports, Idle
<1>6. CASE ImportCommits
  <2>1. imports' \in Nat /\ imports <= imports'
    BY <1>6 DEF ImportCommits, ReloadTypeOK
  <2>2. /\ born \in Seq(Imports')
        /\ reload.bounds \in Imports' \cup {Nothing}
        /\ regionBounds \in Imports' \cup {Nothing}
    BY <2>1, ImportsGrow
  <2>3. /\ directions' \in [Stops -> Imports' \cup {Nothing}]
        /\ feed' \in Hashes
    BY <1>6 DEF ImportCommits, ReloadTypeOK, Hashes
  <2>4. reload' \in [at : {"idle", "import", "count", "precompute", "bounds", "publish"},
                     hash : Hashes, changed : BOOLEAN, left : SUBSET Stops,
                     bounds : Imports' \cup {Nothing}]
    BY <1>6, <2>2 DEF ImportCommits, ReloadTypeOK, Hashes
  <2> QED BY <1>6, <2>1, <2>2, <2>3, <2>4 DEF ImportCommits, ReloadTypeOK, Hashes
<1>7. CASE TableCounts
  BY <1>7 DEF TableCounts, ReloadTypeOK, Imports
<1>8. CASE TableCountsFail
  BY <1>8 DEF TableCountsFail, ReloadTypeOK, Imports, Idle
<1>9. CASE PrecomputeBatch
  <2>0. PICK batch \in (SUBSET reload.left) \ {{}} : \E written \in SUBSET batch :
           /\ directions' = [s \in Stops |->
                                IF s \in written THEN imports ELSE directions[s]]
           /\ reload' = [reload EXCEPT !.left = @ \ batch]
    BY <1>9 DEF PrecomputeBatch
  <2>1. PICK written \in SUBSET batch :
           /\ directions' = [s \in Stops |->
                                IF s \in written THEN imports ELSE directions[s]]
           /\ reload' = [reload EXCEPT !.left = @ \ batch]
    BY <2>0
  <2>2. directions' \in [Stops -> Imports \cup {Nothing}]
    BY <2>1 DEF ReloadTypeOK, Imports
  <2>3. reload' \in [at : {"idle", "import", "count", "precompute", "bounds", "publish"},
                     hash : Hashes, changed : BOOLEAN, left : SUBSET Stops,
                     bounds : Imports \cup {Nothing}]
    BY <2>1 DEF ReloadTypeOK, Hashes
  <2> QED BY <1>9, <2>2, <2>3 DEF PrecomputeBatch, ReloadTypeOK, Hashes, Imports
<1>10. CASE PrecomputeEnds
  BY <1>10 DEF PrecomputeEnds, ReloadTypeOK, Imports
<1>11. CASE ComputeRegionBounds
  <2>1. imports \in Imports
    BY DEF ReloadTypeOK, Imports
  <2>2. reload' \in [at : {"idle", "import", "count", "precompute", "bounds", "publish"},
                     hash : Hashes, changed : BOOLEAN, left : SUBSET Stops,
                     bounds : Imports \cup {Nothing}]
    BY <1>11, <2>1 DEF ComputeRegionBounds, ReloadTypeOK, Hashes
  <2>3. Imports' = Imports
    BY <1>11 DEF ComputeRegionBounds, Imports
  <2> QED BY <1>11, <2>2, <2>3 DEF ComputeRegionBounds, ReloadTypeOK, Hashes
<1>12. CASE RegionBoundsFail
  BY <1>12 DEF RegionBoundsFail, ReloadTypeOK, Imports
<1>13. CASE PublishStatic
  <2>1. born' \in Seq(Imports) /\ born' # <<>>
    BY <1>13, BornAfterPublish
  <2> QED BY <1>13, <2>1 DEF PublishStatic, ReloadTypeOK, Imports, Idle
<1>14. CASE CrashAndRestart
  <2>1. Imports' = Imports
    BY <1>14 DEF CrashAndRestart, Imports
  <2>2. crashes' \in 0..MaxCrashes
    BY <1>14, SourceAssumption DEF CrashAndRestart, ReloadTypeOK
  <2>3. reload' \in [at : {"idle", "import", "count", "precompute", "bounds", "publish"},
                     hash : Hashes, changed : BOOLEAN, left : SUBSET Stops,
                     bounds : Imports \cup {Nothing}]
    BY <1>14, IdleType DEF CrashAndRestart
  <2>4. born' \in Seq(Imports) /\ regionBounds' \in Imports \cup {Nothing}
    BY <1>14, EmptyMemory DEF CrashAndRestart
  <2> QED BY <1>14, <2>1, <2>2, <2>3, <2>4 DEF CrashAndRestart, ReloadTypeOK, Hashes
<1> QED
  BY <1>1, <1>2, <1>3, <1>4, <1>5, <1>6, <1>7, <1>8, <1>9, <1>10, <1>11, <1>12,
     <1>13, <1>14 DEF ReloadNext, ReloadStep

\* ReloadTypeOK holds whatever fails and whenever the process crashes.
THEOREM ReloadTypeCorrect == ReloadSpec => []ReloadTypeOK
BY ReloadTypeInit, ReloadTypeStep, PTL DEF ReloadSpec

-----------------------------------------------------------------------------

\* Bounds that wait to be published are those of the import in the database.
PendingBoundsCurrent ==
    reload.at = "publish" => reload.bounds \in {imports, Nothing}

BoundsInv == PendingBoundsCurrent /\ BoundsNotOlderThanCache

\* The bounds in use are never of a feed older than the direction cache,
\* through failed bounds queries, failed imports and restarts.
THEOREM BoundsNeverOlderThanCache == ReloadSpec => []BoundsNotOlderThanCache
<1>1. ReloadInit => BoundsInv
  BY DEF ReloadInit, Idle, BoundsInv, PendingBoundsCurrent, BoundsNotOlderThanCache
<1>2. ReloadTypeOK /\ BoundsInv /\ [ReloadNext]_reloadVars => BoundsInv'
  <2> SUFFICES ASSUME ReloadTypeOK, BoundsInv, [ReloadNext]_reloadVars
               PROVE  BoundsInv'
    OBVIOUS
  <2> USE DEF database, memory, BoundsInv, PendingBoundsCurrent, BoundsNotOlderThanCache
  <2>1. CASE UNCHANGED reloadVars
    BY <2>1 DEF reloadVars
  <2>2. CASE SourceChanges
    BY <2>2 DEF SourceChanges
  <2>3. CASE LoadFeed
    BY <2>3 DEF LoadFeed, Idle
  <2>4. CASE ImportSkipped \/ TableCounts \/ PrecomputeEnds
    <3>1. reload'.at # "publish"
      BY <2>4 DEF ImportSkipped, TableCounts, PrecomputeEnds, ReloadTypeOK
    <3>2. UNCHANGED <<serving, regionBounds, born>>
      BY <2>4 DEF ImportSkipped, TableCounts, PrecomputeEnds
    <3> QED BY <3>1, <3>2
  <2>5. CASE ImportFails \/ TableCountsFail
    BY <2>5 DEF ImportFails, TableCountsFail, Idle
  <2>6. CASE ImportCommits
    BY <2>6 DEF ImportCommits, ReloadTypeOK
  <2>7. CASE PrecomputeBatch
    BY <2>7 DEF PrecomputeBatch, ReloadTypeOK
  <2>8. CASE ComputeRegionBounds \/ RegionBoundsFail
    <3>1. reload'.bounds \in {imports, Nothing}
      BY <2>8 DEF ComputeRegionBounds, RegionBoundsFail, ReloadTypeOK
    <3>2. UNCHANGED <<imports, serving, regionBounds, born>>
      BY <2>8 DEF ComputeRegionBounds, RegionBoundsFail
    <3> QED BY <3>1, <3>2
  <2>9. CASE PublishStatic
    <3>1. regionBounds' \in {imports, Nothing} /\ imports' = imports
      BY <2>9 DEF PublishStatic
    <3>2. born' \in Seq(Imports) /\ born' # <<>> /\ imports \in Nat
      BY <2>9, BornAfterPublish DEF ReloadTypeOK
    <3>3. born'[Len(born')] \in Imports
      BY <3>2
    <3>4. BoundsNotOlderThanCache'
      BY <3>1, <3>2, <3>3 DEF Imports
    <3>5. PendingBoundsCurrent'
      BY <2>9 DEF PublishStatic, Idle
    <3> QED BY <3>4, <3>5
  <2>10. CASE CrashAndRestart
    BY <2>10 DEF CrashAndRestart, Idle
  <2> QED
    BY <2>1, <2>2, <2>3, <2>4, <2>5, <2>6, <2>7, <2>8, <2>9, <2>10
       DEF ReloadNext, ReloadStep
<1>3. BoundsInv => BoundsNotOlderThanCache
  BY DEF BoundsInv
<1> QED BY <1>1, <1>2, <1>3, ReloadTypeCorrect, PTL DEF ReloadSpec

-----------------------------------------------------------------------------
(* The calls. *)

Direction == [from : SUBSET Nat, found : BOOLEAN, failed : BOOLEAN]
FlightType == [next : Nat, from : SUBSET Nat, found : BOOLEAN, failed : BOOLEAN]
CallType == [at : {"idle", "load", "lookup", "join", "wait", "compute", "done"},
             stop : Stops \cup {Nothing}, generation : Nat,
             direction : Direction \cup {Nothing}]

CacheTypeOK ==
    /\ results \in [DOMAIN results -> Direction]
    /\ distances \in [DOMAIN distances -> Nat]
    /\ flights \in [DOMAIN flights -> FlightType]
    /\ calls \in [Calls -> CallType]

\* Read since the generation was born.
Fresh(generation, from) ==
    generation \in 1..Len(born) /\ from \subseteq born[generation]..imports

MapsFresh ==
    /\ \A key \in DOMAIN results : Fresh(key[1], results[key].from)
    /\ \A key \in DOMAIN distances : Fresh(key[1], {distances[key]})
    /\ \A key \in DOMAIN flights : Fresh(key[1], flights[key].from)

GoodCall(call) ==
    /\ call.at # "idle" => serving
    /\ call.at \notin {"idle", "load"} => call.generation \in 1..Len(born)
    /\ call.at = "done" => Fresh(call.generation, call.direction.from)

CallsFresh ==
    \A c \in Calls : /\ GoodCall(calls[c])
                     /\ calls[c].at = "compute" => Key(c) \in DOMAIN flights

CacheInv == CacheTypeOK /\ MapsFresh /\ CallsFresh /\ NoRecomputation

IInv == ReloadTypeOK /\ CacheInv

-----------------------------------------------------------------------------

LEMMA KeyGeneration ==
    \A c \in Calls : Key(c)[1] = calls[c].generation /\ DistancesKey(c)[1] = calls[c].generation
BY DEF Key, DistancesKey

\* What the calls find at the start and after a crash.
LEMMA EmptyCache ==
    ASSUME results = Empty, distances = Empty, flights = Empty, calls = [c \in Calls |-> NoCall]
    PROVE  CacheInv
<1>1. DOMAIN Empty = {} /\ Empty \in [{} -> Direction] /\ Empty \in [{} -> Nat] /\ Empty \in [{} -> FlightType]
  BY DEF Empty
<1>2. NoCall \in CallType
  BY DEF NoCall, CallType
<1>3. CacheTypeOK
  BY <1>1, <1>2 DEF CacheTypeOK
<1>4. MapsFresh /\ NoRecomputation
  BY <1>1 DEF MapsFresh, NoRecomputation
<1>5. CallsFresh
  BY DEF CallsFresh, GoodCall, NoCall
<1>6. QED
  BY <1>3, <1>4, <1>5 DEF CacheInv

LEMMA InitInvariant == Init => IInv
BY ReloadTypeInit, EmptyCache DEF Init, IInv

LEMMA CrashKeeps == ASSUME Crash PROVE CacheInv'
<1>1. DOMAIN Empty = {} /\ Empty \in [{} -> Direction] /\ Empty \in [{} -> Nat] /\ Empty \in [{} -> FlightType]
  BY DEF Empty
<1>2. NoCall \in CallType
  BY DEF NoCall, CallType
<1>3. /\ results' = Empty /\ distances' = Empty /\ flights' = Empty
      /\ calls' = [c \in Calls |-> NoCall]
  BY DEF Crash
<1>4. CacheTypeOK'
  BY <1>1, <1>2, <1>3 DEF CacheTypeOK
<1>5. MapsFresh' /\ NoRecomputation'
  BY <1>1, <1>3 DEF MapsFresh, NoRecomputation
<1>6. CallsFresh'
  BY <1>3 DEF CallsFresh, GoodCall, NoCall
<1>7. QED
  BY <1>4, <1>5, <1>6 DEF CacheInv

\* Generations come and none goes while the process runs.
LEMMA GenerationsStay ==
    ASSUME ReloadTypeOK, ReloadStep
    PROVE  /\ imports' \in Nat /\ imports <= imports'
           /\ serving => serving'
           /\ \A g \in 1..Len(born) : g \in 1..Len(born') /\ born'[g] = born[g]
<1> USE DEF database, memory
<1>1. CASE PublishStatic
  <2>1. imports \in Imports /\ born \in Seq(Imports) /\ (serving <=> born # <<>>)
    BY DEF ReloadTypeOK, Imports
  <2>2. imports' = imports /\ serving'
    BY <1>1 DEF PublishStatic
  <2>3. CASE ~serving
    BY <2>1, <2>2, <2>3 DEF ReloadTypeOK
  <2>4. CASE serving /\ reload.changed
    <3>1. born' = Append(born, imports)
      BY <1>1, <2>4 DEF PublishStatic
    <3>2. QED
      BY <2>1, <2>2, <3>1 DEF ReloadTypeOK
  <2>5. CASE serving /\ ~reload.changed
    <3>1. born' = born
      BY <1>1, <2>5 DEF PublishStatic
    <3>2. QED
      BY <2>2, <3>1 DEF ReloadTypeOK
  <2>6. QED
    BY <2>3, <2>4, <2>5
<1>2. CASE ImportCommits
  BY <1>2 DEF ImportCommits, ReloadTypeOK
<1>3. CASE UNCHANGED <<imports, serving, born>>
  BY <1>3 DEF ReloadTypeOK
<1>4. QED
  BY <1>1, <1>2, <1>3
     DEF ReloadStep, SourceChanges, LoadFeed, ImportSkipped, ImportFails, TableCounts, TableCountsFail,
         PrecomputeBatch, PrecomputeEnds, ComputeRegionBounds, RegionBoundsFail

LEMMA BornBefore ==
    ASSUME ReloadTypeOK, NEW g \in 1..Len(born)
    PROVE  born[g] \in Nat /\ born[g] <= imports
<1>1. born \in Seq(Imports)
  BY DEF ReloadTypeOK
<1>2. born[g] \in Imports
  BY <1>1
<1>3. QED
  BY <1>2 DEF Imports, ReloadTypeOK

LEMMA FreshStays ==
    ASSUME ReloadTypeOK, ReloadStep, NEW g, NEW from, Fresh(g, from)
    PROVE  Fresh(g, from)'
<1>1. imports \in Nat /\ born[g] \in Nat
  BY BornBefore DEF Fresh, ReloadTypeOK
<1>2. born[g]..imports \subseteq born[g]..imports'
  BY <1>1, GenerationsStay
<1>3. QED
  BY <1>2, GenerationsStay DEF Fresh

LEMMA ReloadKeeps ==
    ASSUME ReloadTypeOK, CacheInv, ReloadStep, UNCHANGED cacheVars
    PROVE  CacheInv'
<1>1. UNCHANGED <<results, distances, flights, calls>>
  BY DEF cacheVars
<1>2. CacheTypeOK' /\ NoRecomputation'
  BY <1>1 DEF CacheInv, CacheTypeOK, NoRecomputation
<1>3. MapsFresh'
  <2>1. \A key \in DOMAIN results : Fresh(key[1], results[key].from)'
    BY <1>1, FreshStays DEF CacheInv, MapsFresh
  <2>2. \A key \in DOMAIN distances : Fresh(key[1], {distances[key]})'
    BY <1>1, FreshStays DEF CacheInv, MapsFresh
  <2>3. \A key \in DOMAIN flights : Fresh(key[1], flights[key].from)'
    BY <1>1, FreshStays DEF CacheInv, MapsFresh
  <2>4. QED
    BY <1>1, <2>1, <2>2, <2>3 DEF MapsFresh
<1>4. CallsFresh'
  <2> SUFFICES ASSUME NEW c \in Calls
               PROVE  GoodCall(calls[c])' /\ (calls'[c].at = "compute" => Key(c)' \in DOMAIN flights')
    BY DEF CallsFresh
  <2>1. GoodCall(calls[c]) /\ (calls[c].at = "compute" => Key(c) \in DOMAIN flights)
    BY DEF CacheInv, CallsFresh
  <2>2. Fresh(calls[c].generation, calls[c].direction.from) =>
        Fresh(calls[c].generation, calls[c].direction.from)'
    BY <1>1, FreshStays
  <2>3. GoodCall(calls[c])'
    BY <1>1, <2>1, <2>2, GenerationsStay DEF GoodCall
  <2>4. QED
    BY <1>1, <2>1, <2>3 DEF Key
<1>5. QED
  BY <1>2, <1>3, <1>4 DEF CacheInv

-----------------------------------------------------------------------------
(* The calls. *)

\* What the invariant says of one call.
LEMMA OneCall ==
    ASSUME CacheInv, NEW c \in Calls
    PROVE  calls[c] \in CallType /\ GoodCall(calls[c])
BY DEF CacheInv, CacheTypeOK, CallsFresh

\* One call goes on, and computes nothing.
LEMMA CallGoesOn ==
    ASSUME CacheInv, UNCHANGED <<reloadVars, results, distances, flights>>,
           NEW c \in Calls, NEW call \in CallType, GoodCall(call), call.at # "compute",
           calls' = [calls EXCEPT ![c] = call]
    PROVE  CacheInv'
<1>1. UNCHANGED <<imports, born, serving>>
  BY DEF reloadVars, database, memory
<1>2. \A d \in Calls : calls'[d] = IF d = c THEN call ELSE calls[d]
  BY DEF CacheInv, CacheTypeOK
<1>3. CacheTypeOK'
  BY DEF CacheInv, CacheTypeOK
<1>4. MapsFresh' /\ NoRecomputation'
  BY <1>1 DEF CacheInv, MapsFresh, Fresh, NoRecomputation
<1>5. CallsFresh'
  BY <1>1, <1>2 DEF CacheInv, CallsFresh, GoodCall, Fresh, Key
<1>6. QED
  BY <1>3, <1>4, <1>5 DEF CacheInv

\* Results are fresh for every call of their generation.
LEMMA FoundFresh ==
    ASSUME CacheInv, NEW c \in Calls, Key(c) \in DOMAIN results
    PROVE  results[Key(c)] \in Direction /\ Fresh(calls[c].generation, results[Key(c)].from)
BY KeyGeneration DEF CacheInv, CacheTypeOK, MapsFresh

LEMMA BeginKeeps ==
    ASSUME ReloadTypeOK, CacheInv, UNCHANGED reloadVars, NEW c \in Calls,
           Call(c) \/ LoadGeneration(c) \/ Lookup(c) \/ Join(c) \/ FoundAfterAll(c)
    PROVE  CacheInv'
<1>1. CASE Call(c)
  <2>1. PICK s \in Stops : calls' = [calls EXCEPT ![c] = [NoCall EXCEPT !.at = "load", !.stop = s]]
    BY <1>1 DEF Call
  <2> DEFINE call == [NoCall EXCEPT !.at = "load", !.stop = s]
  <2>2. call \in CallType /\ GoodCall(call) /\ call.at # "compute"
    BY <1>1 DEF Call, NoCall, CallType, GoodCall
  <2>3. QED
    BY <1>1, <2>1, <2>2, CallGoesOn DEF Call
<1>2. CASE LoadGeneration(c)
  <2> DEFINE call == [calls[c] EXCEPT !.at = "lookup", !.generation = Len(born)]
  <2>1. calls' = [calls EXCEPT ![c] = call]
    BY <1>2 DEF LoadGeneration
  <2>2. Len(born) \in Nat /\ (serving => Len(born) \in 1..Len(born))
    <3>1. born \in Seq(Imports) /\ (serving <=> born # <<>>)
      BY DEF ReloadTypeOK
    <3>2. QED
      BY <3>1
  <2>3. call \in CallType /\ call.at = "lookup" /\ call.generation = Len(born)
    BY <2>2, OneCall DEF CallType
  <2>4. GoodCall(call)
    BY <1>2, <2>2, <2>3, OneCall DEF LoadGeneration, GoodCall
  <2>5. QED
    BY <1>2, <2>1, <2>3, <2>4, CallGoesOn DEF LoadGeneration
<1>3. CASE (Lookup(c) /\ Key(c) \in DOMAIN results) \/ FoundAfterAll(c)
  <2> DEFINE call == [calls[c] EXCEPT !.at = "done", !.direction = results[Key(c)]]
  <2>1. /\ calls' = [calls EXCEPT ![c] = call]
        /\ calls[c].at \in {"lookup", "join"}
        /\ Key(c) \in DOMAIN results
    BY <1>3 DEF Lookup, FoundAfterAll
  <2>2. /\ call \in CallType /\ call.at = "done"
        /\ call.generation = calls[c].generation /\ call.direction = results[Key(c)]
    BY <2>1, OneCall, FoundFresh DEF CallType
  <2>3. GoodCall(call)
    BY <2>1, <2>2, OneCall, FoundFresh DEF GoodCall
  <2>4. QED
    BY <1>3, <2>1, <2>2, <2>3, CallGoesOn DEF Lookup, FoundAfterAll
<1>4. CASE (Lookup(c) /\ Key(c) \notin DOMAIN results) \/ Join(c)
  <2>1. PICK at \in {"join", "wait"} : calls' = [calls EXCEPT ![c].at = at]
    BY <1>4 DEF Lookup, Join
  <2> DEFINE call == [calls[c] EXCEPT !.at = at]
  <2>2. call \in CallType /\ call.at = at /\ call.generation = calls[c].generation
    BY <2>1, OneCall DEF CallType
  <2>3. GoodCall(call)
    BY <1>4, <2>1, <2>2, OneCall DEF GoodCall, Lookup, Join
  <2>4. QED
    BY <1>4, <2>1, <2>2, <2>3, CallGoesOn DEF Lookup, Join
<1>5. QED
  BY <1>1, <1>2, <1>3, <1>4 DEF Lookup

\* A call begins a computation that nobody began and nobody finished.
LEMMA LeadKeeps ==
    ASSUME CacheInv, UNCHANGED reloadVars, NEW c \in Calls, Lead(c)
    PROVE  CacheInv'
<1> DEFINE flight == [next |-> 0, from |-> {}, found |-> FALSE, failed |-> FALSE]
           call == [calls[c] EXCEPT !.at = "compute"]
<1>1. UNCHANGED <<imports, born, serving, results, distances>>
  BY DEF reloadVars, database, memory, Lead
<1>2. /\ DOMAIN flights' = DOMAIN flights \cup {Key(c)}
      /\ \A key \in DOMAIN flights' : flights'[key] = IF key = Key(c) THEN flight ELSE flights[key]
      /\ flights' = [key \in DOMAIN flights' |-> flights'[key]]
  BY DEF Lead, Update
<1>3. calls' = [calls EXCEPT ![c] = call] /\ calls[c].at = "join" /\ Key(c) \notin DOMAIN results
  BY DEF Lead
<1>4. call \in CallType /\ call.at = "compute" /\ call.generation = calls[c].generation /\ call.stop = calls[c].stop
  BY OneCall DEF CallType
<1>5. \A d \in Calls : calls'[d] = IF d = c THEN call ELSE calls[d]
  BY <1>3 DEF CacheInv, CacheTypeOK
<1>6. flight \in FlightType
  BY DEF FlightType
<1>7. CacheTypeOK'
  <2>1. flights' \in [DOMAIN flights' -> FlightType]
    BY <1>2, <1>6 DEF CacheInv, CacheTypeOK
  <2>2. calls' \in [Calls -> CallType]
    BY <1>3, <1>4 DEF CacheInv, CacheTypeOK
  <2>3. QED
    BY <1>1, <2>1, <2>2 DEF CacheInv, CacheTypeOK
<1>8. MapsFresh'
  <2>1. Fresh(Key(c)[1], flight.from)
    BY <1>3, OneCall, KeyGeneration DEF GoodCall, Fresh
  <2>2. \A key \in DOMAIN flights' : Fresh(key[1], flights'[key].from)
    BY <1>2, <2>1 DEF CacheInv, MapsFresh
  <2>3. QED
    BY <1>1, <2>2 DEF CacheInv, MapsFresh, Fresh
<1>9. CallsFresh'
  <2> SUFFICES ASSUME NEW d \in Calls
               PROVE  GoodCall(calls[d])' /\ (calls'[d].at = "compute" => Key(d)' \in DOMAIN flights')
    BY DEF CallsFresh
  <2>1. CASE d = c
    BY <1>1, <1>2, <1>3, <1>4, <1>5, <2>1, OneCall DEF GoodCall, Key
  <2>2. CASE d # c
    BY <1>1, <1>2, <1>5, <2>2 DEF CacheInv, CallsFresh, GoodCall, Fresh, Key
  <2>3. QED
    BY <2>1, <2>2
<1>10. NoRecomputation'
  BY <1>1, <1>2, <1>3 DEF CacheInv, NoRecomputation
<1>11. QED
  BY <1>7, <1>8, <1>9, <1>10 DEF CacheInv

\* The computation of a call that leads it.
LEMMA LedFlight ==
    ASSUME CacheInv, NEW c \in Calls, calls[c].at = "compute"
    PROVE  /\ Key(c) \in DOMAIN flights
           /\ flights[Key(c)] \in FlightType
           /\ Fresh(calls[c].generation, flights[Key(c)].from)
BY KeyGeneration DEF CacheInv, CacheTypeOK, MapsFresh, CallsFresh

\* A reading of the database now, or one that was kept.
LEMMA ReadFresh ==
    ASSUME ReloadTypeOK, CacheInv, NEW c \in Calls, calls[c].at = "compute"
    PROVE  /\ imports \in Nat
           /\ Fresh(calls[c].generation, {imports})
           /\ DistancesKey(c) \in DOMAIN distances =>
                 /\ distances[DistancesKey(c)] \in Nat
                 /\ Fresh(calls[c].generation, {distances[DistancesKey(c)]})
<1>1. calls[c].generation \in 1..Len(born)
  BY OneCall DEF GoodCall
<1>2. imports \in Nat /\ imports \in born[calls[c].generation]..imports
  BY <1>1, BornBefore DEF ReloadTypeOK
<1>3. QED
  BY <1>1, <1>2, KeyGeneration DEF Fresh, CacheInv, CacheTypeOK, MapsFresh

\* A computation goes on with what it read.
LEMMA FlightGoesOn ==
    ASSUME CacheInv, UNCHANGED <<reloadVars, results, calls>>,
           NEW c \in Calls, calls[c].at = "compute",
           NEW flight \in FlightType, Fresh(calls[c].generation, flight.from),
           flights' = [flights EXCEPT ![Key(c)] = flight],
           distances' \in [DOMAIN distances' -> Nat],
           \A key \in DOMAIN distances' : Fresh(key[1], {distances'[key]})
    PROVE  CacheInv'
<1>1. UNCHANGED <<imports, born, serving>>
  BY DEF reloadVars, database, memory
<1>2. /\ flights' \in [DOMAIN flights -> FlightType]
      /\ \A key \in DOMAIN flights : flights'[key] = IF key = Key(c) THEN flight ELSE flights[key]
  BY DEF CacheInv, CacheTypeOK
<1>3. CacheTypeOK'
  BY <1>2 DEF CacheInv, CacheTypeOK
<1>4. \A key \in DOMAIN flights : Fresh(key[1], flights'[key].from)
  BY <1>2, KeyGeneration DEF CacheInv, MapsFresh
<1>5. MapsFresh'
  BY <1>1, <1>2, <1>4 DEF CacheInv, MapsFresh, Fresh
<1>6. CallsFresh' /\ NoRecomputation'
  BY <1>1, <1>2 DEF CacheInv, CallsFresh, GoodCall, Fresh, Key, NoRecomputation
<1>7. QED
  BY <1>3, <1>5, <1>6 DEF CacheInv

LEMMA ReadingKeeps ==
    ASSUME ReloadTypeOK, CacheInv, UNCHANGED reloadVars, NEW c \in Calls,
           ReadTrips(c) \/ ReadDistances(c) \/ SkipDistances(c) \/ ReadPoints(c)
    PROVE  CacheInv'
<1> DEFINE led == flights[Key(c)]
<1>1. calls[c].at = "compute" /\ UNCHANGED <<results, calls>>
  BY DEF ReadTrips, ReadDistances, SkipDistances, ReadPoints, Reading
<1>2. /\ Key(c) \in DOMAIN flights
      /\ led \in FlightType
      /\ Fresh(calls[c].generation, led.from)
  BY <1>1, LedFlight
<1>3. led.next + 1 \in Nat /\ led.from \subseteq Nat /\ led.found \in BOOLEAN /\ led.failed \in BOOLEAN
  BY <1>2 DEF FlightType
<1>4. /\ imports \in Nat
      /\ Fresh(calls[c].generation, {imports})
      /\ Fresh(calls[c].generation, led.from \cup {imports})
  BY <1>1, <1>2, ReadFresh DEF Fresh
<1>5. ASSUME UNCHANGED distances
      PROVE  /\ distances' \in [DOMAIN distances' -> Nat]
             /\ \A key \in DOMAIN distances' : Fresh(key[1], {distances'[key]})
  BY <1>5 DEF CacheInv, CacheTypeOK, MapsFresh
<1>6. CASE ReadTrips(c)
  <2> DEFINE flight == [led EXCEPT !.next = 1, !.from = {imports}]
  <2>1. flights' = [flights EXCEPT ![Key(c)] = flight] /\ UNCHANGED distances
    BY <1>6 DEF ReadTrips
  <2>2. flight \in FlightType /\ flight.from = {imports}
    BY <1>2, <1>4 DEF FlightType
  <2>3. QED
    BY <1>1, <1>4, <1>5, <2>1, <2>2, FlightGoesOn
<1>7. CASE ReadDistances(c)
  <2> DEFINE import == IF DistancesKey(c) \in DOMAIN distances THEN distances[DistancesKey(c)] ELSE imports
             flight == [led EXCEPT !.next = @ + 1, !.from = @ \cup {import}]
  <2>1. import \in Nat /\ Fresh(calls[c].generation, {import})
    BY <1>1, <1>4, ReadFresh
  <2> HIDE DEF import
  <2>2. /\ flights' = [flights EXCEPT ![Key(c)] = flight]
        /\ distances' = Update(distances, DistancesKey(c), import)
    BY <1>7 DEF ReadDistances, import
  <2>3. led.from \cup {import} \in SUBSET Nat
    BY <1>3, <2>1
  <2>4. flight \in FlightType /\ flight.from = led.from \cup {import}
    BY <1>2, <1>3, <2>3 DEF FlightType
  <2>5. Fresh(calls[c].generation, flight.from)
    BY <1>2, <2>1, <2>4 DEF Fresh
  <2>6. /\ DOMAIN distances' = DOMAIN distances \cup {DistancesKey(c)}
        /\ \A key \in DOMAIN distances' :
              distances'[key] = IF key = DistancesKey(c) THEN import ELSE distances[key]
        /\ distances' = [key \in DOMAIN distances' |-> distances'[key]]
    BY <2>2 DEF Update
  <2>7. \A key \in DOMAIN distances' : distances'[key] \in Nat /\ Fresh(key[1], {distances'[key]})
    BY <2>1, <2>6, KeyGeneration DEF CacheInv, CacheTypeOK, MapsFresh
  <2>8. distances' \in [DOMAIN distances' -> Nat]
    BY <2>6, <2>7
  <2>9. QED
    BY <1>1, <2>2, <2>4, <2>5, <2>7, <2>8, FlightGoesOn
<1>8. CASE SkipDistances(c)
  <2> DEFINE flight == [led EXCEPT !.next = @ + 1]
  <2>1. flights' = [flights EXCEPT ![Key(c)] = flight] /\ UNCHANGED distances
    BY <1>8 DEF SkipDistances
  <2>2. flight \in FlightType /\ flight.from = led.from
    BY <1>2, <1>3 DEF FlightType
  <2>3. QED
    BY <1>1, <1>2, <1>5, <2>1, <2>2, FlightGoesOn
<1>9. CASE ReadPoints(c)
  <2>1. PICK outcome \in {"found", "none", "error"} :
          flights' = [flights EXCEPT ![Key(c)] =
              [next |-> @.next + 1,
               from |-> IF outcome = "error" THEN @.from ELSE @.from \cup {imports},
               found |-> @.found \/ outcome = "found",
               failed |-> @.failed \/ outcome = "error"]]
    BY <1>9 DEF ReadPoints
  <2> DEFINE flight ==
              [next |-> led.next + 1,
               from |-> IF outcome = "error" THEN led.from ELSE led.from \cup {imports},
               found |-> led.found \/ outcome = "found",
               failed |-> led.failed \/ outcome = "error"]
  <2>2. flights' = [flights EXCEPT ![Key(c)] = flight] /\ UNCHANGED distances
    BY <1>9, <2>1 DEF ReadPoints
  <2>3. /\ led.from \cup {imports} \in SUBSET Nat
        /\ (led.found \/ outcome = "found") \in BOOLEAN
        /\ (led.failed \/ outcome = "error") \in BOOLEAN
    BY <1>3, <1>4
  <2>4. flight.from \in {led.from, led.from \cup {imports}}
    BY <1>2 DEF FlightType
  <2>5. flight \in FlightType
    BY <1>2, <1>3, <2>3 DEF FlightType
  <2>6. Fresh(calls[c].generation, flight.from)
    BY <1>2, <1>4, <2>4
  <2>7. QED
    BY <1>1, <1>5, <2>2, <2>5, <2>6, FlightGoesOn
<1>10. QED
  BY <1>6, <1>7, <1>8, <1>9

-----------------------------------------------------------------------------
(* The end of a computation. *)

\* All who wait for it are answered, the leader included, and it is forgotten.
LEMMA AnsweredCalls ==
    ASSUME CacheInv, UNCHANGED reloadVars, NEW c \in Calls, calls[c].at = "compute",
           NEW direction \in Direction, Fresh(calls[c].generation, direction.from),
           calls' = Answered(Key(c), direction), flights' = Forget(flights, Key(c))
    PROVE  /\ calls' \in [Calls -> CallType] /\ flights' \in [DOMAIN flights' -> FlightType]
           /\ DOMAIN flights' = DOMAIN flights \ {Key(c)}
           /\ \A key \in DOMAIN flights' : Fresh(key[1], flights'[key].from)
           /\ CallsFresh'
<1>1. UNCHANGED <<imports, born, serving>>
  BY DEF reloadVars, database, memory
<1>2. /\ DOMAIN flights' = DOMAIN flights \ {Key(c)}
      /\ \A key \in DOMAIN flights' : flights'[key] = flights[key]
      /\ flights' = [key \in DOMAIN flights' |-> flights'[key]]
  BY DEF Forget
<1>3. ASSUME NEW d \in Calls
      PROVE  /\ calls'[d] \in CallType
             /\ GoodCall(calls[d])'
             /\ calls'[d].at = "compute" => Key(d)' \in DOMAIN flights'
  <2>1. CASE calls[d].at \in {"wait", "compute"} /\ Key(d) = Key(c)
    <3> DEFINE call == [calls[d] EXCEPT !.at = "done", !.direction = direction]
    <3>1. calls'[d] = call
      BY <2>1 DEF Answered
    <3>2. /\ call \in CallType /\ call.at = "done"
          /\ call.generation = calls[d].generation /\ call.direction = direction
      BY OneCall DEF CallType
    <3>3. calls[d].generation = calls[c].generation
      BY <2>1 DEF Key
    <3>4. calls'[d].at = "done" /\ Fresh(calls'[d].generation, calls'[d].direction.from)
      BY <3>1, <3>2, <3>3
    <3>5. serving /\ calls'[d].generation \in 1..Len(born)
      BY <2>1, <3>1, <3>2, OneCall DEF GoodCall
    <3>6. QED
      BY <1>1, <3>1, <3>2, <3>4, <3>5 DEF GoodCall, Fresh
  <2>2. CASE ~(calls[d].at \in {"wait", "compute"} /\ Key(d) = Key(c))
    <3>1. calls'[d] = calls[d]
      BY <2>2 DEF Answered
    <3>2. Key(d)' = Key(d)
      BY <3>1 DEF Key
    <3>3. QED
      BY <1>1, <1>2, <2>2, <3>1, <3>2, OneCall DEF GoodCall, Fresh, CacheInv, CallsFresh
  <2>3. QED
    BY <2>1, <2>2
<1>4. calls' \in [Calls -> CallType]
  BY <1>3 DEF Answered
<1>5. flights' \in [DOMAIN flights' -> FlightType]
  BY <1>2 DEF CacheInv, CacheTypeOK
<1>6. \A key \in DOMAIN flights' : Fresh(key[1], flights'[key].from)
  BY <1>2 DEF CacheInv, MapsFresh
<1>7. QED
  BY <1>2, <1>3, <1>4, <1>5, <1>6 DEF CallsFresh

LEMMA EndKeeps ==
    ASSUME CacheInv, UNCHANGED reloadVars, NEW c \in Calls, ComputeFails(c) \/ Finish(c)
    PROVE  CacheInv'
<1>1. calls[c].at = "compute" /\ UNCHANGED distances /\ flights' = Forget(flights, Key(c))
  BY DEF ComputeFails, Finish, Reading
<1>2. UNCHANGED <<imports, born>>
  BY DEF reloadVars, database, memory
<1>3. PICK direction \in Direction :
        /\ Fresh(calls[c].generation, direction.from)
        /\ calls' = Answered(Key(c), direction)
        /\ results' \in {results, Update(results, Key(c), direction)}
  <2>1. CASE ComputeFails(c)
    <3>1. Unknown \in Direction /\ Fresh(calls[c].generation, Unknown.from)
      BY <1>1, OneCall DEF Unknown, Direction, GoodCall, Fresh
    <3>2. QED
      BY <2>1, <3>1 DEF ComputeFails
  <2>2. CASE Finish(c)
    <3>1. Computed(c) \in Direction /\ Fresh(calls[c].generation, Computed(c).from)
      BY <1>1, LedFlight DEF Computed, Direction, FlightType
    <3>2. QED
      BY <2>2, <3>1 DEF Finish
  <2>3. QED
    BY <2>1, <2>2
<1>4. /\ calls' \in [Calls -> CallType] /\ flights' \in [DOMAIN flights' -> FlightType]
      /\ DOMAIN flights' = DOMAIN flights \ {Key(c)}
      /\ \A key \in DOMAIN flights' : Fresh(key[1], flights'[key].from)
      /\ CallsFresh'
  BY <1>1, <1>3, AnsweredCalls
<1>5. /\ results' \in [DOMAIN results' -> Direction]
      /\ \A key \in DOMAIN results' : Fresh(key[1], results'[key].from)
      /\ DOMAIN results' \subseteq DOMAIN results \cup {Key(c)}
  <2>1. CASE results' = results
    BY <2>1 DEF CacheInv, CacheTypeOK, MapsFresh
  <2>2. CASE results' = Update(results, Key(c), direction)
    <3>1. /\ DOMAIN results' = DOMAIN results \cup {Key(c)}
          /\ \A key \in DOMAIN results' : results'[key] = IF key = Key(c) THEN direction ELSE results[key]
          /\ results' = [key \in DOMAIN results' |-> results'[key]]
      BY <2>2 DEF Update
    <3>2. \A key \in DOMAIN results' : results'[key] \in Direction /\ Fresh(key[1], results'[key].from)
      BY <1>3, <3>1, KeyGeneration DEF CacheInv, CacheTypeOK, MapsFresh
    <3>3. QED
      BY <3>1, <3>2
  <2>3. QED
    BY <1>3, <2>1, <2>2
<1>6. CacheTypeOK'
  BY <1>1, <1>4, <1>5 DEF CacheInv, CacheTypeOK
<1>7. MapsFresh'
  BY <1>1, <1>2, <1>4, <1>5 DEF CacheInv, MapsFresh, Fresh
<1>8. NoRecomputation'
  BY <1>4, <1>5 DEF CacheInv, NoRecomputation
<1>9. QED
  BY <1>4, <1>6, <1>7, <1>8 DEF CacheInv

-----------------------------------------------------------------------------

LEMMA StepKeepsInvariant == IInv /\ [Next]_vars => IInv'
<1> SUFFICES ASSUME IInv, [Next]_vars PROVE IInv'
  OBVIOUS
<1>1. ReloadTypeOK /\ CacheInv /\ [ReloadNext]_reloadVars
  BY DEF IInv, Next, vars, Crash, ReloadNext
<1>2. ReloadTypeOK'
  BY <1>1, ReloadTypeStep
<1>3. CacheInv'
  <2>1. CASE ReloadStep /\ UNCHANGED cacheVars
    BY <1>1, <2>1, ReloadKeeps
  <2>2. CASE Crash
    BY <2>2, CrashKeeps
  <2>3. ASSUME NEW c \in Calls, Call(c) \/ CallStep(c), UNCHANGED reloadVars
        PROVE  CacheInv'
    BY <1>1, <2>3, BeginKeeps, LeadKeeps, ReadingKeeps, EndKeeps DEF CallStep
  <2>4. CASE UNCHANGED vars
    BY <1>1, <2>4 DEF vars, reloadVars, database, memory, cacheVars, CacheInv, CacheTypeOK, MapsFresh,
           CallsFresh, GoodCall, Fresh, Key, NoRecomputation
  <2>5. QED
    BY <2>1, <2>2, <2>3, <2>4 DEF Next
<1>4. QED
  BY <1>2, <1>3 DEF IInv

\* Whatever is kept under a generation was read since it was born.
THEOREM InvariantHolds == Spec => []IInv
BY InitInvariant, StepKeepsInvariant, PTL DEF Spec

\* A call is never answered from a feed older than the generation it found,
\* neither by the cache nor by a computation it waited for.
THEOREM AnswersAlwaysFresh == Spec => []AnswersNotOlderThanGeneration
<1>1. IInv => AnswersNotOlderThanGeneration
  <2> SUFFICES ASSUME IInv, NEW c \in Calls, calls[c].at = "done",
                      NEW import \in calls[c].direction.from
               PROVE  import >= born[calls[c].generation]
    BY DEF AnswersNotOlderThanGeneration
  <2>1. Fresh(calls[c].generation, calls[c].direction.from)
    BY OneCall DEF IInv, GoodCall
  <2>2. born[calls[c].generation] \in Nat /\ imports \in Nat
    BY <2>1, BornBefore DEF Fresh, IInv, ReloadTypeOK
  <2>3. import \in born[calls[c].generation]..imports
    BY <2>1 DEF Fresh
  <2>4. QED
    BY <2>2, <2>3
<1>2. QED
  BY <1>1, InvariantHolds, PTL

\* A cache that was replaced for the feed in the database serves only that
\* feed, however late computations of retired generations end.
THEOREM CacheAlwaysServesCurrentFeed == Spec => []CacheServesCurrentFeed
<1>1. IInv => CacheServesCurrentFeed
  <2> SUFFICES ASSUME IInv, born[Len(born)] = imports, NEW s \in Stops,
                      <<Len(born), s>> \in DOMAIN results
               PROVE  results[<<Len(born), s>>].from \subseteq {imports}
    BY DEF CacheServesCurrentFeed
  <2>1. Fresh(Len(born), results[<<Len(born), s>>].from)
    BY DEF IInv, CacheInv, MapsFresh
  <2>2. imports \in Nat
    BY DEF IInv, ReloadTypeOK
  <2>3. QED
    BY <2>1, <2>2 DEF Fresh
<1>2. QED
  BY <1>1, InvariantHolds, PTL

\* No computation begins for a result the generation holds.
THEOREM NeverRecomputed == Spec => []NoRecomputation
BY InvariantHolds, PTL DEF IInv, CacheInv

-----------------------------------------------------------------------------
(* The clients: their copies and the tags these came under. *)

Tags == {HashOf[n] : n \in Files} \cup {NoTag}

\* What clients depend on of a reload: the files and the numbers of imports.
ReloadType == [at : {"idle", "import", "count", "precompute", "bounds", "publish"},
               hash : {HashOf[n] : n \in Files} \cup {NoFeed}, changed : BOOLEAN,
               left : SUBSET Stops, bounds : Nat \cup {Nothing}]

FeedTypeOK ==
    /\ source \in Files
    /\ feed \in {HashOf[n] : n \in Files} \cup {NoFeed}
    /\ imports \in Nat
    /\ reload \in ReloadType

CopyType == [tag : Tags, body : SUBSET Nat]
RequestType == [at : {"idle", "asked", "handling"}, tag : Tags, body : SUBSET Nat, reads : 0..NumReads]

ClientTypeOK == copies \in [Clients -> CopyType] /\ requests \in [Clients -> RequestType]

\* The file of the feed, and the file that is being loaded, which is no
\* earlier one.
LoadsInOrder ==
    /\ \A n \in Files : HashOf[n] = feed => n <= source
    /\ reload.at = "import" =>
          \E n \in Files : /\ HashOf[n] = reload.hash /\ n <= source
                           /\ \A m \in Files : HashOf[m] = feed => m <= n

\* A tag was the hash of the feed at some time.
GivenOut(tag) ==
    tag # NoTag => \E m, n \in Files : HashOf[m] = tag /\ HashOf[n] = feed /\ m <= n

TagsGivenOut == \A c \in Clients : GivenOut(copies[c].tag) /\ GivenOut(requests[c].tag)

\* A body under the feed's tag has rows of the feed only, and a body that was
\* sent has some.
GoodCopy(copy) ==
    /\ copy.tag # NoTag => copy.body # {}
    /\ copy.tag = feed => copy.body \subseteq {imports}

\* The same for the body of an answer, which is empty until the handler reads.
GoodRequest(request) ==
    /\ request.reads # 0 => request.body # {}
    /\ request.at # "handling" => request.tag = NoTag /\ request.body = {} /\ request.reads = 0
    /\ request.tag = feed => request.body \subseteq {imports}

BodiesUnderTags == \A c \in Clients : GoodCopy(copies[c]) /\ GoodRequest(requests[c])

ClientInv == ClientTypeOK /\ LoadsInOrder /\ TagsGivenOut /\ BodiesUnderTags

ETagInv == FeedTypeOK /\ (HashesDiffer => ClientInv)

-----------------------------------------------------------------------------
(* What clients see of a reload. *)

LEMMA FeedTypeInit == ETagInit => FeedTypeOK
BY SourceAssumption DEF SourceAssumption, ETagInit, ReloadInit, FeedTypeOK, ReloadType, Idle, Files

LEMMA FeedTypeStep == FeedTypeOK /\ [ReloadNext]_reloadVars => FeedTypeOK'
<1> SUFFICES ASSUME FeedTypeOK, [ReloadNext]_reloadVars PROVE FeedTypeOK'
  OBVIOUS
<1> USE DEF FeedTypeOK, database
<1>1. CASE SourceChanges
  BY <1>1, SourceAssumption DEF SourceAssumption, SourceChanges, Files
<1>2. CASE LoadFeed
  BY <1>2 DEF LoadFeed, Idle, ReloadType
<1>3. CASE ImportCommits
  BY <1>3 DEF ImportCommits, ReloadType
<1>4. CASE ImportFails \/ TableCountsFail \/ PublishStatic \/ CrashAndRestart
  <2>1. reload' = Idle /\ UNCHANGED <<source, feed, imports>>
    BY <1>4 DEF ImportFails, TableCountsFail, PublishStatic, CrashAndRestart
  <2>2. QED
    BY <2>1 DEF Idle, ReloadType
<1>5. CASE ImportSkipped \/ TableCounts \/ PrecomputeEnds
  BY <1>5 DEF ImportSkipped, TableCounts, PrecomputeEnds, ReloadType
<1>6. CASE PrecomputeBatch
  BY <1>6 DEF PrecomputeBatch, ReloadType
<1>7. CASE ComputeRegionBounds \/ RegionBoundsFail
  BY <1>7 DEF ComputeRegionBounds, RegionBoundsFail, ReloadType
<1>8. CASE UNCHANGED reloadVars
  BY <1>8 DEF reloadVars
<1>9. QED
  BY <1>1, <1>2, <1>3, <1>4, <1>5, <1>6, <1>7, <1>8 DEF ReloadNext, ReloadStep

-----------------------------------------------------------------------------

LEMMA NoTags == NoTag \in Tags /\ NoFeed \notin Tags
BY SourceAssumption, ClientAssumption DEF SourceAssumption, ClientAssumption, Tags

LEMMA NoRequestType == NoRequest \in RequestType /\ NoCopy \in CopyType
<1>1. 0 \in 0..NumReads
  BY ClientAssumption DEF ClientAssumption
<1>2. QED
  BY <1>1, NoTags DEF NoRequest, RequestType, NoCopy, CopyType

LEMMA ETagInitInvariant == ETagInit => ETagInv
<1> SUFFICES ASSUME ETagInit PROVE ETagInv
  OBVIOUS
<1>1. FeedTypeOK
  BY FeedTypeInit
<1>2. ClientTypeOK
  BY NoRequestType DEF ETagInit, ClientTypeOK
<1>3. LoadsInOrder
  BY NoTags DEF ETagInit, ReloadInit, LoadsInOrder, Idle, Tags
<1>4. TagsGivenOut
  BY DEF ETagInit, TagsGivenOut, GivenOut, NoCopy, NoRequest
<1>5. BodiesUnderTags
  BY NoTags DEF ETagInit, BodiesUnderTags, GoodCopy, GoodRequest, NoCopy, NoRequest
<1>6. QED
  BY <1>1, <1>2, <1>3, <1>4, <1>5 DEF ETagInv, ClientInv

-----------------------------------------------------------------------------
(* The reload and the copies. *)

\* Steps that leave the feed and the loaded file as they are.
LEMMA OtherReloadStepsKeep ==
    ASSUME FeedTypeOK, ClientInv, ReloadStep, ~LoadFeed, ~ImportCommits, UNCHANGED clientVars
    PROVE  ClientInv'
<1>1. UNCHANGED <<feed, imports>>
  BY DEF ReloadStep, SourceChanges, ImportSkipped, ImportFails, TableCounts, TableCountsFail, PrecomputeBatch,
         PrecomputeEnds, ComputeRegionBounds, RegionBoundsFail, PublishStatic, database
<1>2. source' \in {source, source + 1}
  BY DEF ReloadStep, SourceChanges, ImportSkipped, ImportFails, TableCounts, TableCountsFail, PrecomputeBatch,
         PrecomputeEnds, ComputeRegionBounds, RegionBoundsFail, PublishStatic
<1>3. reload' = reload \/ reload'.at # "import"
  <2>1. CASE SourceChanges
    BY <2>1 DEF SourceChanges
  <2>2. CASE ImportFails \/ TableCountsFail \/ PublishStatic
    BY <2>2 DEF ImportFails, TableCountsFail, PublishStatic, Idle
  <2>3. CASE PrecomputeBatch
    BY <2>3 DEF PrecomputeBatch, FeedTypeOK, ReloadType
  <2>4. CASE ImportSkipped \/ TableCounts \/ PrecomputeEnds
    BY <2>4 DEF ImportSkipped, TableCounts, PrecomputeEnds, FeedTypeOK, ReloadType
  <2>5. CASE ComputeRegionBounds \/ RegionBoundsFail
    BY <2>5 DEF ComputeRegionBounds, RegionBoundsFail, FeedTypeOK, ReloadType
  <2>6. QED
    BY <2>1, <2>2, <2>3, <2>4, <2>5 DEF ReloadStep
<1>4. UNCHANGED <<copies, requests>>
  BY DEF clientVars
<1>5. \A n \in Files : n <= source => n <= source'
  BY <1>2 DEF FeedTypeOK, Files
<1>6. LoadsInOrder'
  BY <1>1, <1>3, <1>5 DEF ClientInv, LoadsInOrder
<1>7. ClientTypeOK' /\ TagsGivenOut' /\ BodiesUnderTags'
  BY <1>1, <1>4 DEF ClientInv, ClientTypeOK, TagsGivenOut, GivenOut, BodiesUnderTags, GoodCopy, GoodRequest
<1>8. QED
  BY <1>6, <1>7 DEF ClientInv

\* The file loaded is the one published last.
LEMMA LoadFeedKeeps ==
    ASSUME FeedTypeOK, ClientInv, LoadFeed, UNCHANGED clientVars
    PROVE  ClientInv'
<1>1. UNCHANGED <<source, feed, imports, copies, requests>>
  BY DEF LoadFeed, database, clientVars
<1>2. source \in Files /\ reload'.hash = HashOf[source]
  BY DEF LoadFeed, Idle, FeedTypeOK
<1>3. LoadsInOrder'
  BY <1>1, <1>2 DEF ClientInv, LoadsInOrder, Files
<1>4. ClientTypeOK' /\ TagsGivenOut' /\ BodiesUnderTags'
  BY <1>1 DEF ClientInv, ClientTypeOK, TagsGivenOut, GivenOut, BodiesUnderTags, GoodCopy, GoodRequest
<1>5. QED
  BY <1>3, <1>4 DEF ClientInv

\* The commit brings a later file, whose hash no client has a tag of.
LEMMA ImportKeeps ==
    ASSUME FeedTypeOK, HashesDiffer, ClientInv, ImportCommits, UNCHANGED clientVars
    PROVE  ClientInv'
<1>1. UNCHANGED <<source, copies, requests>> /\ feed' = reload.hash /\ feed # reload.hash
  BY DEF ImportCommits, clientVars
<1>2. PICK n \in Files : /\ HashOf[n] = reload.hash /\ n <= source
                         /\ \A m \in Files : HashOf[m] = feed => m <= n
  BY DEF ImportCommits, ClientInv, LoadsInOrder
<1>3. \A m \in Files : HashOf[m] = feed' <=> m = n
  BY <1>1, <1>2 DEF HashesDiffer
<1>4. ASSUME NEW tag \in Tags, GivenOut(tag)
      PROVE  GivenOut(tag)' /\ tag # feed'
  <2>1. CASE tag = NoTag
    BY <1>1, <1>2, <2>1, ClientAssumption DEF ClientAssumption, GivenOut
  <2>2. CASE tag # NoTag
    <3>1. PICK m, k \in Files : HashOf[m] = tag /\ HashOf[k] = feed /\ m <= k
      BY <1>4, <2>2 DEF GivenOut
    <3>2. k <= n /\ k # n
      BY <1>1, <1>2, <3>1
    <3>3. m < n
      BY <3>1, <3>2 DEF Files
    <3>4. m # n
      BY <3>3 DEF Files
    <3>5. GivenOut(tag)'
      BY <1>3, <3>1, <3>3 DEF GivenOut, Files
    <3>6. tag # feed'
      BY <1>3, <3>1, <3>4
    <3>7. QED
      BY <3>5, <3>6
  <2>3. QED
    BY <2>1, <2>2
<1>5. \A c \in Clients : copies[c].tag \in Tags /\ requests[c].tag \in Tags
  BY DEF ClientInv, ClientTypeOK, CopyType, RequestType
<1>6. ClientTypeOK'
  BY <1>1 DEF ClientInv, ClientTypeOK
<1>7. LoadsInOrder'
  <2>1. reload'.at # "import"
    BY DEF ImportCommits, FeedTypeOK, ReloadType
  <2>2. QED
    BY <1>1, <1>2, <1>3, <2>1 DEF LoadsInOrder
<1>8. TagsGivenOut'
  BY <1>1, <1>4, <1>5 DEF ClientInv, TagsGivenOut
<1>9. BodiesUnderTags'
  BY <1>1, <1>4, <1>5 DEF ClientInv, BodiesUnderTags, GoodCopy, GoodRequest, TagsGivenOut
<1>10. QED
  BY <1>6, <1>7, <1>8, <1>9 DEF ClientInv

\* A restart empties the requests and leaves the copies to the clients.
LEMMA LostRequestsKeep ==
    ASSUME FeedTypeOK, ClientInv, CrashLosesRequests
    PROVE  ClientInv'
<1>1. UNCHANGED <<source, feed, imports, copies>> /\ reload' = Idle
  BY DEF CrashLosesRequests, CrashAndRestart, database
<1>2. requests' = [c \in Clients |-> NoRequest]
  BY DEF CrashLosesRequests
<1>3. ClientTypeOK'
  BY <1>1, <1>2, NoRequestType DEF ClientInv, ClientTypeOK
<1>4. LoadsInOrder'
  BY <1>1 DEF ClientInv, LoadsInOrder, Idle
<1>5. TagsGivenOut'
  BY <1>1, <1>2 DEF ClientInv, TagsGivenOut, GivenOut, NoRequest
<1>6. \A c \in Clients : GoodRequest(requests[c])'
  BY <1>2 DEF GoodRequest, NoRequest
<1>7. BodiesUnderTags'
  BY <1>1, <1>6 DEF ClientInv, BodiesUnderTags, GoodCopy
<1>8. QED
  BY <1>3, <1>4, <1>5, <1>7 DEF ClientInv

-----------------------------------------------------------------------------
(* The clients and their requests. *)

\* One request and one copy change at a time.
LEMMA RequestChanges ==
    ASSUME ClientInv, UNCHANGED reloadVars, NEW c \in Clients,
           NEW copy \in CopyType, GivenOut(copy.tag), GoodCopy(copy),
           NEW request \in RequestType, GivenOut(request.tag), GoodRequest(request),
           copies' = [copies EXCEPT ![c] = copy],
           requests' = [requests EXCEPT ![c] = request]
    PROVE  ClientInv'
<1>1. UNCHANGED <<source, feed, imports, reload>>
  BY DEF reloadVars, database
<1>2. ClientTypeOK'
  BY DEF ClientInv, ClientTypeOK
<1>3. \A d \in Clients : /\ copies'[d] = IF d = c THEN copy ELSE copies[d]
                         /\ requests'[d] = IF d = c THEN request ELSE requests[d]
  BY DEF ClientInv, ClientTypeOK
<1>4. LoadsInOrder'
  BY <1>1 DEF ClientInv, LoadsInOrder
<1>5. TagsGivenOut'
  BY <1>1, <1>3 DEF ClientInv, TagsGivenOut, GivenOut
<1>6. BodiesUnderTags'
  BY <1>1, <1>3 DEF ClientInv, BodiesUnderTags, GoodCopy, GoodRequest
<1>7. QED
  BY <1>2, <1>4, <1>5, <1>6 DEF ClientInv

\* What the invariant says of one client.
LEMMA OneClient ==
    ASSUME ClientInv, NEW c \in Clients
    PROVE  /\ copies[c] \in CopyType /\ GivenOut(copies[c].tag) /\ GoodCopy(copies[c])
           /\ requests[c] \in RequestType /\ GivenOut(requests[c].tag) /\ GoodRequest(requests[c])
           /\ copies = [copies EXCEPT ![c] = copies[c]]
           /\ GivenOut(NoRequest.tag) /\ GoodRequest(NoRequest)
<1>1. GivenOut(NoRequest.tag) /\ GoodRequest(NoRequest)
  BY DEF GivenOut, GoodRequest, NoRequest
<1>2. QED
  BY <1>1 DEF ClientInv, ClientTypeOK, TagsGivenOut, BodiesUnderTags

LEMMA ClientStepKeeps ==
    ASSUME FeedTypeOK, ClientInv, UNCHANGED reloadVars,
           NEW c \in Clients, Ask(c) \/ ServerStep(c)
    PROVE  ClientInv'
<1>1. CASE Ask(c)
  <2> DEFINE asked == [requests[c] EXCEPT !.at = "asked"]
  <2>1. requests' = [requests EXCEPT ![c] = asked] /\ copies' = copies
    BY <1>1 DEF Ask
  <2>2. asked \in RequestType /\ asked.tag = requests[c].tag
    BY OneClient DEF RequestType
  <2>3. GoodRequest(asked)
    BY <1>1, OneClient DEF Ask, GoodRequest, RequestType
  <2>4. GivenOut(asked.tag)
    BY <2>2, OneClient
  <2>5. QED
    BY <2>1, <2>2, <2>3, <2>4, OneClient, RequestChanges
<1>2. CASE NotModified(c) \/ ReadFails(c)
  <2>1. requests' = [requests EXCEPT ![c] = NoRequest] /\ copies' = copies
    BY <1>2 DEF NotModified, ReadFails
  <2>2. QED
    BY <2>1, OneClient, NoRequestType, RequestChanges
<1>3. CASE SetETag(c)
  <2>1. PICK etag \in SystemETag :
            requests' = [requests EXCEPT ![c].at = "handling", ![c].tag = etag]
    BY <1>3 DEF SetETag
  <2> DEFINE tagged == [requests[c] EXCEPT !.at = "handling", !.tag = etag]
  <2>2. requests' = [requests EXCEPT ![c] = tagged] /\ copies' = copies
    BY <1>3, <2>1 DEF SetETag
  <2>3. etag \in Tags
    BY NoTags DEF SystemETag, FeedTypeOK, Tags
  <2>4. tagged \in RequestType /\ tagged.tag = etag
    BY <2>3, OneClient DEF RequestType
  <2>5. GoodRequest(tagged)
    BY <1>3, OneClient DEF SetETag, GoodRequest, RequestType
  <2>6. GivenOut(etag)
    BY <2>3 DEF SystemETag, GivenOut, Tags, FeedTypeOK, Files
  <2>7. QED
    BY <2>2, <2>4, <2>5, <2>6, OneClient, RequestChanges
<1>4. CASE Read(c)
  <2> DEFINE further == [requests[c] EXCEPT !.reads = @ + 1, !.body = @ \cup {imports}]
  <2>1. requests' = [requests EXCEPT ![c] = further] /\ copies' = copies
    BY <1>4 DEF Read
  <2>2. requests[c].reads + 1 \in 0..NumReads
    BY <1>4, OneClient, ClientAssumption DEF Read, RequestType, ClientAssumption
  <2>3. requests[c].body \cup {imports} \in SUBSET Nat
    BY OneClient DEF RequestType, FeedTypeOK
  <2>4. further \in RequestType /\ further.tag = requests[c].tag
    BY <2>2, <2>3, OneClient DEF RequestType
  <2>5. GoodRequest(further)
    BY <1>4, OneClient DEF Read, GoodRequest, RequestType
  <2>6. GivenOut(further.tag)
    BY <2>4, OneClient
  <2>7. QED
    BY <2>1, <2>4, <2>5, <2>6, OneClient, RequestChanges
<1>5. CASE Respond(c)
  <2> DEFINE copy == [tag |-> requests[c].tag, body |-> requests[c].body]
  <2>1. /\ copies' = [copies EXCEPT ![c] = copy]
        /\ requests' = [requests EXCEPT ![c] = NoRequest]
    BY <1>5 DEF Respond
  <2>2. copy \in CopyType /\ GivenOut(copy.tag)
    BY OneClient DEF RequestType, CopyType
  <2>3. GoodCopy(copy)
    BY <1>5, OneClient, ClientAssumption DEF Respond, GoodRequest, GoodCopy, ClientAssumption
  <2>4. QED
    BY <2>1, <2>2, <2>3, OneClient, NoRequestType, RequestChanges
<1>6. QED
  BY <1>1, <1>2, <1>3, <1>4, <1>5 DEF ServerStep

-----------------------------------------------------------------------------

LEMMA ETagStepKeepsInvariant == ETagInv /\ [ETagNext]_etagVars => ETagInv'
<1> SUFFICES ASSUME ETagInv, [ETagNext]_etagVars PROVE ETagInv'
  OBVIOUS
<1>1. FeedTypeOK /\ [ReloadNext]_reloadVars
  BY DEF ETagInv, ETagNext, etagVars, CrashLosesRequests, ReloadNext
<1>2. FeedTypeOK'
  BY <1>1, FeedTypeStep
<1>3. ASSUME HashesDiffer PROVE ClientInv'
  <2>1. ClientInv
    BY <1>3 DEF ETagInv
  <2>2. CASE ReloadStep /\ UNCHANGED clientVars
    BY <1>1, <1>3, <2>1, <2>2, OtherReloadStepsKeep, LoadFeedKeeps, ImportKeeps
  <2>3. CASE CrashLosesRequests
    BY <1>1, <2>1, <2>3, LostRequestsKeep
  <2>4. ASSUME NEW c \in Clients, Ask(c) \/ ServerStep(c), UNCHANGED reloadVars
        PROVE  ClientInv'
    BY <1>1, <2>1, <2>4, ClientStepKeeps
  <2>5. CASE UNCHANGED etagVars
    BY <2>1, <2>5 DEF etagVars, reloadVars, database, clientVars, ClientInv, ClientTypeOK, LoadsInOrder,
           TagsGivenOut, GivenOut, BodiesUnderTags, GoodCopy, GoodRequest
  <2>6. QED
    BY <2>2, <2>3, <2>4, <2>5 DEF ETagNext
<1>4. QED
  BY <1>2, <1>3 DEF ETagInv, HashesDiffer

\* The invariant behind the theorem below.
THEOREM ETagInvariantHolds == ETagSpec => []ETagInv
BY ETagInitInvariant, ETagStepKeepsInvariant, PTL DEF ETagSpec

\* A client that is told "not modified" goes on with rows of the feed in the
\* database and of no earlier one (ETagMiddleware), however reloads, crashes
\* and failing queries fall between its tag and its rows.
THEOREM NotModifiedIsCurrent == ETagSpec => []CopyUnderCurrentTagIsCurrent
<1>1. ETagInv => CopyUnderCurrentTagIsCurrent
  <2> SUFFICES ASSUME ETagInv, HashesDiffer, NEW c \in Clients, copies[c].tag = feed
               PROVE  copies[c].body = {imports}
    BY DEF CopyUnderCurrentTagIsCurrent
  <2>1. ClientInv
    BY DEF ETagInv
  <2>2. copies[c].tag # NoTag
    BY ClientAssumption DEF ETagInv, FeedTypeOK, ClientAssumption
  <2>3. QED
    BY <2>1, <2>2, OneClient DEF GoodCopy
<1>2. QED
  BY <1>1, ETagInvariantHolds, PTL
=============================================================================
