---------------------------- MODULE StaticReload ----------------------------
(***************************************************************************)
(* How a new static feed reaches the readers: the file at its source, the  *)
(* import into the database, the directions precomputed for its stops, and *)
(* what the process derives from the database and keeps in memory          *)
(* (internal/gtfs/static.go, gtfsdb/helpers.go).                           *)
(*                                                                         *)
(* A database content is named by the number of the import that wrote it.  *)
(* ReloadStatic runs under staticUpdateMutex, so one reload is in progress *)
(* at most, but readers run between any two of its steps. A deadline that  *)
(* expires, a query that fails and a cancelled context are the same: the   *)
(* step at hand fails.                                                     *)
(***************************************************************************)
EXTENDS Integers, Sequences

CONSTANTS Stops,        \* stops of the feed
          MaxSources,   \* bound on the files the producer publishes
          HashOf,       \* the hash of each file; a file may come back
          MaxCrashes,   \* bound on crashes of the process
          NoFeed,       \* an empty database
          Nothing       \* nothing derived from the database

Files == 1..MaxSources

ASSUME SourceAssumption ==
    /\ MaxSources \in Nat \ {0}
    /\ DOMAIN HashOf = Files
    /\ \A n \in Files : HashOf[n] # NoFeed
    /\ MaxCrashes \in Nat
    /\ Nothing \notin Nat

VARIABLES
    source,        \* the file the producer offers now
    crashes,
    \* the database: the hash of the feed, the number of the import that
    \* wrote it, and the import each stop's direction was computed from
    feed, imports, directions,
    \* the reload in progress
    reload,
    \* in memory: whether requests are served, the import the region bounds
    \* were computed from, and the import at which each generation of the
    \* direction cache was born, the last generation being the current one
    serving, regionBounds, born

database == <<feed, imports, directions>>
memory == <<serving, regionBounds, born>>
reloadVars == <<source, crashes, database, reload, memory>>

Idle == [at |-> "idle", hash |-> NoFeed, changed |-> FALSE,
         left |-> {}, bounds |-> Nothing]

-----------------------------------------------------------------------------
(* ReloadStatic, step by step. *)

\* loadGTFSData: the file is read whole. A file that cannot be read, parsed
\* or validated ends the reload before it changed anything.
LoadFeed ==
    /\ reload.at = "idle"
    /\ reload' = [Idle EXCEPT !.at = "import", !.hash = HashOf[source]]
    /\ UNCHANGED <<source, crashes, database, memory>>

ImportSkipped ==
    /\ reload.at = "import"
    /\ reload.hash = feed
    /\ reload' = [reload EXCEPT !.at = "bounds"]
    /\ UNCHANGED <<source, crashes, database, memory>>

ImportFails ==
    /\ reload.at = "import"
    /\ reload' = Idle
    /\ UNCHANGED <<source, crashes, database, memory>>

\* StoreGtfsData replaces the whole content in one transaction, the hash
\* included. The stops come without directions.
ImportCommits ==
    /\ reload.at = "import"
    /\ reload.hash # feed
    /\ feed' = reload.hash
    /\ imports' = imports + 1
    /\ directions' = [s \in Stops |-> Nothing]
    /\ reload' = [reload EXCEPT !.at = "count"]
    /\ UNCHANGED <<source, crashes, memory>>

\* The rows are counted after the commit, for the log.
TableCounts ==
    /\ reload.at = "count"
    /\ reload' = [reload EXCEPT !.at = "precompute", !.changed = TRUE, !.left = Stops]
    /\ UNCHANGED <<source, crashes, database, memory>>

\* When that fails, StoreGtfsData and with it ReloadStatic report an error.
TableCountsFail ==
    /\ reload.at = "count"
    /\ reload' = Idle
    /\ UNCHANGED <<source, crashes, database, memory>>

\* One batch of PrecomputeAllDirections, committed on its own. Stops without
\* a direction and updates that fail are passed over.
PrecomputeBatch ==
    /\ reload.at = "precompute"
    /\ \E batch \in (SUBSET reload.left) \ {{}} : \E written \in SUBSET batch :
          /\ directions' = [s \in Stops |->
                               IF s \in written THEN imports ELSE directions[s]]
          /\ reload' = [reload EXCEPT !.left = @ \ batch]
    /\ UNCHANGED <<source, crashes, feed, imports, memory>>

\* All batches are written, or one failed. The import does not mind.
PrecomputeEnds ==
    /\ reload.at = "precompute"
    /\ reload' = [reload EXCEPT !.at = "bounds", !.left = {}]
    /\ UNCHANGED <<source, crashes, database, memory>>

ComputeRegionBounds ==
    /\ reload.at = "bounds"
    /\ reload' = [reload EXCEPT !.at = "publish", !.bounds = imports]
    /\ UNCHANGED <<source, crashes, database, memory>>

\* A query that fails yields no bounds at all.
RegionBoundsFail ==
    /\ reload.at = "bounds"
    /\ reload' = [reload EXCEPT !.at = "publish", !.bounds = Nothing]
    /\ UNCHANGED <<source, crashes, database, memory>>

\* Fault: only a changed feed brings new bounds.
PublishBoundsIfChanged ==
    /\ reload.at = "publish"
    /\ regionBounds' = IF reload.changed \/ ~serving THEN reload.bounds ELSE regionBounds
    /\ serving' = TRUE
    /\ born' = IF ~serving THEN <<imports>>
               ELSE IF reload.changed THEN Append(born, imports)
               ELSE born
    /\ reload' = Idle
    /\ UNCHANGED <<source, crashes, database>>

\* Fault: bounds that could not be computed leave the old ones in place.
PublishKeepingOldBounds ==
    /\ reload.at = "publish"
    /\ regionBounds' = IF reload.bounds = Nothing THEN regionBounds ELSE reload.bounds
    /\ serving' = TRUE
    /\ born' = IF ~serving THEN <<imports>>
               ELSE IF reload.changed THEN Append(born, imports)
               ELSE born
    /\ reload' = Idle
    /\ UNCHANGED <<source, crashes, database>>

\* The bounds and the direction cache are replaced in one critical section
\* of staticMutex. The first reload of a process has no cache to replace:
\* BuildApplication makes one before it serves.
PublishStatic ==
    /\ reload.at = "publish"
    /\ regionBounds' = reload.bounds
    /\ serving' = TRUE
    /\ born' = IF ~serving THEN <<imports>>
               ELSE IF reload.changed THEN Append(born, imports)
               ELSE born
    /\ reload' = Idle
    /\ UNCHANGED <<source, crashes, database>>

-----------------------------------------------------------------------------

\* The producer replaces its file.
SourceChanges ==
    /\ source < MaxSources
    /\ source' = source + 1
    /\ UNCHANGED <<crashes, database, reload, memory>>

\* The process dies and starts over with what the database file holds: an
\* import that was not committed is gone, whatever was derived is gone.
CrashAndRestart ==
    /\ crashes < MaxCrashes
    /\ crashes' = crashes + 1
    /\ reload' = Idle
    /\ serving' = FALSE
    /\ regionBounds' = Nothing
    /\ born' = <<>>
    /\ UNCHANGED <<source, database>>

ReloadInit ==
    /\ source = 1
    /\ crashes = 0
    /\ feed = NoFeed
    /\ imports = 0
    /\ directions = [s \in Stops |-> Nothing]
    /\ reload = Idle
    /\ serving = FALSE
    /\ regionBounds = Nothing
    /\ born = <<>>

\* What the running process and the producer do.
ReloadStep ==
    \/ SourceChanges
    \/ LoadFeed
    \/ ImportSkipped
    \/ ImportFails
    \/ ImportCommits
    \/ TableCounts
    \/ TableCountsFail
    \/ PrecomputeBatch
    \/ PrecomputeEnds
    \/ ComputeRegionBounds
    \/ RegionBoundsFail
    \/ PublishStatic

ReloadNext == ReloadStep \/ CrashAndRestart

\* The updater's ticker starts a reload again and again, a reload that was
\* started goes on, and the database does not refuse every time it is asked.
ReloadFairness ==
    /\ WF_reloadVars(LoadFeed)
    /\ SF_reloadVars(ImportSkipped)
    /\ SF_reloadVars(ImportCommits)
    /\ WF_reloadVars(TableCounts \/ TableCountsFail)
    /\ WF_reloadVars(PrecomputeEnds)
    /\ SF_reloadVars(ComputeRegionBounds)
    /\ WF_reloadVars(PublishStatic)

ReloadSpec == ReloadInit /\ [][ReloadNext]_reloadVars /\ ReloadFairness

-----------------------------------------------------------------------------
(* Correctness. *)

Imports == 0..imports

\* The values of the variables: nothing derived comes from an import that is
\* yet to happen, and a process that serves has a direction cache.
ReloadTypeOK ==
    /\ source \in Files
    /\ crashes \in 0..MaxCrashes
    /\ feed \in {HashOf[n] : n \in Files} \cup {NoFeed}
    /\ imports \in Nat
    /\ directions \in [Stops -> Imports \cup {Nothing}]
    /\ reload \in [at : {"idle", "import", "count", "precompute", "bounds", "publish"},
                   hash : {HashOf[n] : n \in Files} \cup {NoFeed},
                   changed : BOOLEAN,
                   left : SUBSET Stops,
                   bounds : Imports \cup {Nothing}]
    /\ serving \in BOOLEAN
    /\ regionBounds \in Imports \cup {Nothing}
    /\ born \in Seq(Imports)
    /\ serving <=> born # <<>>

\* The bounds in use and the generation of the direction cache move
\* together: bounds are never those of a feed older than the cache.
BoundsNotOlderThanCache ==
    serving /\ regionBounds # Nothing => regionBounds >= born[Len(born)]

\* Bounds that are left behind by an import that reported an error, or lost
\* because their query failed, are made up for by a later reload, even one
\* that finds the feed unchanged.
BoundsCatchUp == []<>(serving /\ regionBounds = imports)
=============================================================================
