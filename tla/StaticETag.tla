----------------------------- MODULE StaticETag -----------------------------
(***************************************************************************)
(* Conditional requests for static data: the handlers behind etagStatic    *)
(* answer with the feed's hash as their ETag, and clients come back with   *)
(* the tag of the copy they keep                                           *)
(* (internal/restapi/caching_middleware.go, internal/restapi/routes.go).   *)
(*                                                                         *)
(* The middleware reads the tag, the handler then queries the database     *)
(* several times and without a transaction, and StaticReload goes on in    *)
(* between. A body is named by the imports its rows came from; the         *)
(* directions that are written into the rows after an import, and the      *)
(* region bounds, are no part of it.                                       *)
(***************************************************************************)
EXTENDS StaticReload

CONSTANTS Clients,
          NumReads,  \* queries a handler makes
          NoTag      \* no ETag header

ASSUME ClientAssumption ==
    /\ NumReads \in Nat \ {0}
    /\ \A n \in Files : HashOf[n] # NoTag
    /\ NoFeed # NoTag

VARIABLES
    copies,   \* what each client keeps: a body and the tag it came under
    requests  \* each client's request

clientVars == <<copies, requests>>
etagVars == <<reloadVars, clientVars>>

NoCopy == [tag |-> NoTag, body |-> {}]
NoRequest == [at |-> "idle", tag |-> NoTag, body |-> {}, reads |-> 0]

\* What GetSystemETag may return: the hash, or nothing when the query fails.
SystemETag == {feed, NoTag} \ {NoFeed}

-----------------------------------------------------------------------------

\* The client asks, with If-None-Match if its copy has a tag.
Ask(c) ==
    /\ serving
    /\ requests[c].at = "idle"
    /\ requests' = [requests EXCEPT ![c].at = "asked"]
    /\ UNCHANGED copies

\* Fault: any If-None-Match will do.
NotModifiedForAnyTag(c) ==
    /\ requests[c].at = "asked"
    /\ copies[c].tag # NoTag
    /\ requests' = [requests EXCEPT ![c] = NoRequest]
    /\ UNCHANGED copies

\* The tag is the client's: 304, and the client goes on with its copy.
NotModified(c) ==
    /\ requests[c].at = "asked"
    /\ \E etag \in SystemETag : etag # NoTag /\ etag = copies[c].tag
    /\ requests' = [requests EXCEPT ![c] = NoRequest]
    /\ UNCHANGED copies

\* Any other tag, or none, is put into the header before the handler runs.
SetETag(c) ==
    /\ requests[c].at = "asked"
    /\ \E etag \in SystemETag :
          /\ etag = NoTag \/ etag # copies[c].tag
          /\ requests' = [requests EXCEPT ![c].at = "handling", ![c].tag = etag]
    /\ UNCHANGED copies

\* The handler's next query.
Read(c) ==
    /\ requests[c].at = "handling"
    /\ requests[c].reads < NumReads
    /\ requests' = [requests EXCEPT ![c].reads = @ + 1, ![c].body = @ \cup {imports}]
    /\ UNCHANGED copies

\* A query fails: the response is an error, which is not to be stored.
ReadFails(c) ==
    /\ requests[c].at = "handling"
    /\ requests[c].reads < NumReads
    /\ requests' = [requests EXCEPT ![c] = NoRequest]
    /\ UNCHANGED copies

\* Fault: the tag is read when the body is complete.
RespondTaggedLate(c) ==
    /\ requests[c].at = "handling"
    /\ requests[c].reads = NumReads
    /\ \E etag \in SystemETag :
          copies' = [copies EXCEPT ![c] = [tag |-> etag, body |-> requests[c].body]]
    /\ requests' = [requests EXCEPT ![c] = NoRequest]

Respond(c) ==
    /\ requests[c].at = "handling"
    /\ requests[c].reads = NumReads
    /\ copies' = [copies EXCEPT
           ![c] = [tag |-> requests[c].tag, body |-> requests[c].body]]
    /\ requests' = [requests EXCEPT ![c] = NoRequest]

-----------------------------------------------------------------------------

ServerStep(c) ==
    \/ NotModified(c)
    \/ SetETag(c)
    \/ Read(c)
    \/ ReadFails(c)
    \/ Respond(c)

ETagInit ==
    /\ ReloadInit
    /\ copies = [c \in Clients |-> NoCopy]
    /\ requests = [c \in Clients |-> NoRequest]

\* A crash takes the requests with it; the clients keep their copies.
CrashLosesRequests ==
    /\ CrashAndRestart
    /\ requests' = [c \in Clients |-> NoRequest]
    /\ UNCHANGED copies

ETagNext ==
    \/ ReloadStep /\ UNCHANGED clientVars
    \/ CrashLosesRequests
    \/ \E c \in Clients : (Ask(c) \/ ServerStep(c)) /\ UNCHANGED reloadVars

Step(A) == A /\ UNCHANGED reloadVars

\* Clients come back again and again, requests are handled, and the database
\* does not refuse the same query every time it is asked.
ETagFairness ==
    /\ ReloadFairness
    /\ \A c \in Clients :
          /\ WF_etagVars(Step(Ask(c)))
          /\ WF_etagVars(Step(ServerStep(c)))
          /\ \A n \in 0..NumReads - 1 :
                SF_etagVars(Step(Read(c) /\ requests[c].reads = n))

ETagSpec == ETagInit /\ [][ETagNext]_etagVars /\ ETagFairness

-----------------------------------------------------------------------------
(* Correctness. *)

\* A tag that was computed once is never given to another file.
HashesDiffer == \A m, n \in Files : HashOf[m] = HashOf[n] => m = n

\* A client that is told "not modified" holds a body read from the feed in
\* the database and from no earlier one, however the reload fell between the
\* tag and the rows: the tag is read first (ETagMiddleware), so a body that
\* straddles an import is filed under the older tag and fetched again. This
\* takes files that differ to have hashes that differ: it is the hash of a
\* file that comes back that this protocol cannot tell.
CopyUnderCurrentTagIsCurrent ==
    HashesDiffer =>
        \A c \in Clients :
            copies[c].tag = feed => copies[c].body = {imports}

\* Clients that come back are given the current feed in the end, also after
\* a body that straddled an import, a response without a tag, or a crash.
CopiesCatchUp == \A c \in Clients : []<>(copies[c].body = {imports})
=============================================================================
