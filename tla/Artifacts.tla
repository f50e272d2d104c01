----------------------------- MODULE Artifacts ------------------------------
(***************************************************************************)
(* Immutable artifacts of a run: the blob files of ArtifactStore           *)
(* (sasori_artifacts/store.py), the rows and events of register_artifact   *)
(* (sqlite_store.py), and the owner that publishes the result of a         *)
(* completed run, at once or when it next starts (server.py).              *)
(* The owner thread runs a put without yielding, so a put is interrupted   *)
(* by nothing but a failing disk or the death of the process.  What the    *)
(* operating system loses in a power failure is not modelled.              *)
(***************************************************************************)
EXTENDS Naturals, Sequences, FiniteSets

CONSTANTS
    MaxRuns,        \* bound: runs ever created
    HostIds,        \* artifact ids the host names in publish_artifact
    HostContents,   \* what it publishes under them
    Limit,          \* artifacts a run may register, 128
    PageSize,       \* runs of a page of list_runs, 100
    MaxFaults,      \* bound: disk failures and crashes
    None

VARIABLES
    owner,   \* "down", "starting" or "open"
    runs,    \* the runs by rowid: status and durable events
    rows,    \* the artifacts table
    blobs,   \* what the path of a digest holds: "none", "partial" or "full"
    put,     \* the put in progress, or None
    look,    \* the reconciliation: rows of the page left, and where to go on
    faults

vars == <<owner, runs, rows, blobs, put, look, faults>>

ResultId(r) == <<"result", r>>
ResultOf(r) == <<"markdown", r>>
Digests == HostContents \cup {ResultOf(r) : r \in 1 .. MaxRuns}

Event(type, id) == [type |-> type, id |-> id]

NoLook == [page |-> <<>>, more |-> FALSE, before |-> 0]

Init ==
    /\ owner = "down" /\ runs = <<>> /\ rows = {}
    /\ blobs = [d \in Digests |-> "none"]
    /\ put = None /\ look = NoLook /\ faults = 0
-----------------------------------------------------------------------------
\* ArtifactStore.put.

\* The blob is complete under its final name before a row names it.
PutOrder_RowFirst == <<"register", "create", "write", "link">>
PutOrder == <<"create", "write", "link", "register">>

Put(r, id, digest, cause) ==
    [run |-> r, id |-> id, digest |-> digest, cause |-> cause,
     temp |-> "none", todo |-> PutOrder]

Doing(step) == put # None /\ Head(put.todo) = step

\* The put returns, or goes on with what is left of it.
Done(p) == put' = IF Len(p.todo) = 1 THEN None ELSE [p EXCEPT !.todo = Tail(@)]

\* The put raises: the start that needed it fails, an answer is an error.
PutRaises ==
    /\ put' = None
    /\ IF put.cause = "reconcile"
       THEN owner' = "down" /\ look' = NoLook
       ELSE UNCHANGED <<owner, look>>

\* The path exists and verifies: there is nothing to write.
ReuseBlob ==
    /\ Doing("create") /\ blobs[put.digest] = "full"
    /\ LET rest == SubSeq(put.todo, 4, Len(put.todo))
       IN put' = IF rest = <<>> THEN None ELSE [put EXCEPT !.todo = rest]
    /\ UNCHANGED <<owner, runs, rows, blobs, look, faults>>

CreateTemp ==
    /\ Doing("create") /\ blobs[put.digest] = "none"
    /\ Done([put EXCEPT !.temp = "partial"])
    /\ UNCHANGED <<owner, runs, rows, blobs, look, faults>>

WriteTemp ==
    /\ Doing("write") /\ Done([put EXCEPT !.temp = "full"])
    /\ UNCHANGED <<owner, runs, rows, blobs, look, faults>>

\* os.link to the final name, which replaces nothing, and the unlink.
LinkBlob ==
    /\ Doing("link") /\ Done([put EXCEPT !.temp = "none"])
    /\ blobs' = [blobs EXCEPT ![put.digest] = put.temp]
    /\ UNCHANGED <<owner, runs, rows, look, faults>>

\* The finally clause of _write_blob removes the temporary file.
DiskFails ==
    /\ faults < MaxFaults /\ faults' = faults + 1
    /\ put # None /\ Head(put.todo) \in {"create", "write", "link"}
    /\ PutRaises
    /\ UNCHANGED <<runs, rows, blobs>>

Named(id) == {a \in rows : a.id = id}
OfRun(r)  == {a \in rows : a.run = r}
Same(a)   == a.run = put.run /\ a.digest = put.digest

\* register_artifact, one transaction.
RegisterNew ==
    /\ Doing("register") /\ Named(put.id) = {}
    /\ Cardinality(OfRun(put.run)) < Limit
    /\ LET seq == Len(runs[put.run].events) + 1 IN
       rows' = rows \cup {[id |-> put.id, run |-> put.run, digest |-> put.digest, seq |-> seq]}
    /\ runs' = [runs EXCEPT ![put.run].events = Append(@, Event("artifact", put.id))]
    /\ Done(put)
    /\ UNCHANGED <<owner, blobs, look, faults>>

RegisterAgain ==
    /\ Doing("register") /\ \E a \in Named(put.id) : Same(a)
    /\ Done(put)
    /\ UNCHANGED <<owner, runs, rows, blobs, look, faults>>

\* ArtifactRegistrationConflict or ArtifactLimitExceeded: the blob stays, an
\* orphan no row names.
RegisterRefused ==
    /\ Doing("register")
    /\ \/ \E a \in Named(put.id) : ~Same(a)
       \/ Named(put.id) = {} /\ Cardinality(OfRun(put.run)) >= Limit
    /\ PutRaises
    /\ UNCHANGED <<runs, rows, blobs, faults>>
-----------------------------------------------------------------------------
\* The owner.

\* list_runs: a page of the rows below "before", the newest first.
PageBelow_FullIsLast(before) ==
    LET size == IF before - 1 < PageSize THEN before - 1 ELSE PageSize IN
    [page |-> [k \in 1 .. size |-> before - k],
     more |-> size > PageSize, before |-> before - size]
PageBelow(before) ==
    LET size == IF before - 1 < PageSize THEN before - 1 ELSE PageSize IN
    [page |-> [k \in 1 .. size |-> before - k],
     more |-> size = PageSize, before |-> before - size]

Start ==
    /\ owner = "down" /\ owner' = "starting"
    /\ look' = PageBelow(Len(runs) + 1)
    /\ UNCHANGED <<runs, rows, blobs, put, faults>>

\* _reconcile_artifacts publishes the result of every completed run again.
ReconcileRun ==
    /\ owner = "starting" /\ put = None /\ look.page # <<>>
    /\ LET r == Head(look.page) IN
       put' = IF runs[r].status = "completed"
              THEN Put(r, ResultId(r), ResultOf(r), "reconcile") ELSE None
    /\ look' = [look EXCEPT !.page = Tail(@)]
    /\ UNCHANGED <<owner, runs, rows, blobs, faults>>

ReconcilePage ==
    /\ owner = "starting" /\ put = None /\ look.page = <<>> /\ look.more
    /\ look' = PageBelow(look.before)
    /\ UNCHANGED <<owner, runs, rows, blobs, put, faults>>

Open ==
    /\ owner = "starting" /\ put = None /\ look.page = <<>> /\ ~look.more
    /\ owner' = "open" /\ look' = NoLook
    /\ UNCHANGED <<runs, rows, blobs, put, faults>>

Idle == owner = "open" /\ put = None

StartRun ==
    /\ Idle /\ Len(runs) < MaxRuns
    /\ runs' = Append(runs, [status |-> "running", events |-> <<Event("started", None)>>])
    /\ UNCHANGED <<owner, rows, blobs, put, look, faults>>

\* The loop commits its outcome; only a completed run goes on to
\* _materialize_final_artifact.
FinishRun(r, status) ==
    /\ Idle /\ runs[r].status = "running"
    /\ runs' = [runs EXCEPT ![r] = [status |-> status, events |-> Append(@.events, Event(status, None))]]
    /\ put' = IF status = "completed" THEN Put(r, ResultId(r), ResultOf(r), "drive") ELSE None
    /\ UNCHANGED <<owner, rows, blobs, look, faults>>

\* publish_artifact of the host, for any run it has.
Publish(r, id, content) ==
    /\ Idle /\ put' = Put(r, id, content, "publish")
    /\ UNCHANGED <<owner, runs, rows, blobs, look, faults>>

\* The process dies; a temporary file may be left behind, and is never read.
Crash ==
    /\ owner # "down" /\ faults < MaxFaults /\ faults' = faults + 1
    /\ owner' = "down" /\ put' = None /\ look' = NoLook
    /\ UNCHANGED <<runs, rows, blobs>>

\* The owner closes, between two operations.
Close ==
    /\ Idle /\ owner' = "down"
    /\ UNCHANGED <<runs, rows, blobs, put, look, faults>>

Next ==
    \/ ReuseBlob \/ CreateTemp \/ WriteTemp \/ LinkBlob \/ DiskFails
    \/ RegisterNew \/ RegisterAgain \/ RegisterRefused
    \/ Start \/ ReconcileRun \/ ReconcilePage \/ Open
    \/ StartRun \/ Crash \/ Close
    \/ \E r \in DOMAIN runs :
          \/ FinishRun(r, "completed") \/ FinishRun(r, "failed")
          \/ \E id \in HostIds, c \in HostContents : Publish(r, id, c)

Spec == Init /\ [][Next]_vars
-----------------------------------------------------------------------------
\* A registered artifact can be read back, now and after any crash: its blob
\* is complete, and the event at its created_seq, and no other, announces it.
RefsAreReadable ==
    /\ \A a \in rows :
          /\ blobs[a.digest] = "full"
          /\ {k \in DOMAIN runs[a.run].events : runs[a.run].events[k].id = a.id} = {a.seq}
    /\ \A r \in DOMAIN runs : \A k \in DOMAIN runs[r].events :
          runs[r].events[k].id # None => \E a \in OfRun(r) : a.id = runs[r].events[k].id

\* The owner becomes ready only when every run it finds completed has its
\* result published, whatever cut the publication short before.
ReadyMeansPublished ==
    [][owner = "starting" /\ owner' = "open" =>
          \A r \in DOMAIN runs : runs[r].status = "completed" =>
              \E a \in rows : a.id = ResultId(r)]_vars
=============================================================================
