----------------------------- MODULE RequestData -----------------------------
(***************************************************************************)
(* What every request reads: the tables of the feed that was imported, and *)
(* the realtime snapshot that is published when it looks.                  *)
(***************************************************************************)
EXTENDS TripStatus

CONSTANTS Feeds,      \* the feeds that may have been imported
          Realtimes   \* the realtime snapshots that may be published

Databases == [i \in DOMAIN Feeds |-> Rows(Feeds[i])]

ASSUME FeedsImportable == \A i \in DOMAIN Feeds : Importable(Feeds[i])

NoRealtime == [updates |-> {}, vehicles |-> <<>>, alerts |-> {}]

ASSUME RealtimeAssumption == \A snapshot \in Realtimes : SnapshotTyped(snapshot)

VARIABLES feed,  \* the feed imported
          rt     \* the published realtime snapshot

db == Databases[feed]

=============================================================================
