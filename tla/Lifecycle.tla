----------------------------- MODULE Lifecycle ------------------------------
(***************************************************************************)
(* What the server promises the pages about a job, with no process, child, *)
(* folder or upload in sight: the phases a job goes through, the path its  *)
(* episode was published at, and the episodes that can be played from R2.  *)
(***************************************************************************)

CONSTANTS Jobs, Paths, None

VARIABLES
    issued,   \* folder ids that were given out
    phase,    \* what /status tells of a job
    url,      \* where the job was published
    online    \* the paths below which R2 holds a playlist and its segments

vars == <<issued, phase, url, online>>

Phase == {"unknown", "working", "ready", "publishing", "published", "failed"}

Init ==
    /\ issued = {}
    /\ phase = [j \in Jobs |-> "unknown"]
    /\ url = [j \in Jobs |-> None]
    /\ online = {}

MoveTo(j, p) == phase' = [phase EXCEPT ![j] = p]

-----------------------------------------------------------------------------

\* A folder id is drawn, and used at most once.
Draw(j) ==
    /\ j \notin issued
    /\ issued' = issued \cup {j}
    /\ UNCHANGED <<phase, url, online>>

Accept(j) ==
    /\ j \notin issued
    /\ issued' = issued \cup {j}
    /\ phase[j] = "unknown"
    /\ MoveTo(j, "working")
    /\ url' = [url EXCEPT ![j] = None]
    /\ UNCHANGED online

GetReady(j) ==
    /\ phase[j] = "working"
    /\ MoveTo(j, "ready")
    /\ UNCHANGED <<issued, url, online>>

\* A ready job is published or deleted.  So is one that a restart forgot.
Known(j) == phase[j] = "ready" \/ (phase[j] = "unknown" /\ j \in issued)

Publish(j) ==
    /\ Known(j)
    /\ MoveTo(j, "publishing")
    /\ UNCHANGED <<issued, url, online>>

\* The link is announced no sooner than the episode can be played.
Announce(j, p) ==
    /\ phase[j] = "publishing"
    /\ p \in online
    /\ MoveTo(j, "published")
    /\ url' = [url EXCEPT ![j] = p]
    /\ UNCHANGED <<issued, online>>

\* An episode comes online while some job is being published.
ComesOnline(p) ==
    /\ \E j \in Jobs : phase[j] = "publishing"
    /\ online' = online \cup {p}
    /\ UNCHANGED <<issued, phase, url>>

Fail(j) ==
    /\ phase[j] \in {"working", "publishing"} \/ Known(j)
    /\ MoveTo(j, "failed")
    /\ UNCHANGED <<issued, url, online>>

Delete(j) ==
    /\ Known(j)
    /\ MoveTo(j, "unknown")
    /\ url' = [url EXCEPT ![j] = None]
    /\ UNCHANGED <<issued, online>>

\* A restart forgets every job at once, and takes no episode offline.
Forget ==
    /\ phase' = [j \in Jobs |-> "unknown"]
    /\ url' = [j \in Jobs |-> None]
    /\ UNCHANGED <<issued, online>>

Next ==
    \/ \E j \in Jobs :
          \/ Draw(j)
          \/ Accept(j)
          \/ GetReady(j)
          \/ Publish(j)
          \/ \E p \in Paths : Announce(j, p)
          \/ Fail(j)
          \/ Delete(j)
    \/ \E p \in Paths : ComesOnline(p)
    \/ Forget

Spec == Init /\ [][Next]_vars
=============================================================================
