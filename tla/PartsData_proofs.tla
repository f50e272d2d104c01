-------------------------- MODULE PartsData_proofs --------------------------
(***************************************************************************)
(* Proofs about the components of Parts that keep or show data: the        *)
(* artifacts, the page of the Workbench, the schema of the run store, the  *)
(* document index.  For each an inductive invariant, that it holds at the  *)
(* start and that no step of the component breaks it; at the end the       *)
(* theorems.                                                               *)
(***************************************************************************)
EXTENDS Parts, FiniteSetTheorems, SequenceTheorems, TLAPS

-----------------------------------------------------------------------------
\* Artifacts and the owner that publishes them.

Ids  == HostIds \cup {Store!ResultId(r) : r \in 1 .. MaxRuns}
Told == [type : {"started", "completed", "failed", "artifact"}, id : Ids \cup {None}]
Run  == [status : {"running", "completed", "failed"}, events : Seq(Told)]
Row  == [id : Ids, run : 1 .. MaxRuns, digest : Store!Digests, seq : Nat]
Upload == [run : 1 .. MaxRuns, id : Ids, digest : Store!Digests,
           cause : {"reconcile", "drive", "publish"}, temp : {"none", "partial", "full"},
           todo : Seq({"create", "write", "link", "register"})]
Look == [page : Seq(Nat), more : BOOLEAN, before : Nat]

StoreTypes ==
    /\ owner \in {"down", "starting", "open"}
    /\ runs \in Seq(Run) /\ Len(runs) <= MaxRuns
    /\ rows \subseteq Row
    /\ blobs \in [Store!Digests -> {"none", "full"}]
    /\ put \in Upload \cup {None}
    /\ look \in Look

\* What is left of a put is the end of its steps; once the file is linked the
\* blob is whole.
Under(p, known, content) ==
    /\ p.run \in known
    /\ Len(p.todo) \in 1 .. 4
    /\ \A i \in 1 .. Len(p.todo) : p.todo[i] = Store!PutOrder[4 - Len(p.todo) + i]
    /\ Len(p.todo) = 2 => p.temp = "full"
    /\ Len(p.todo) = 1 => content[p.digest] = "full"

StorePut == put # None => Under(put, DOMAIN runs, blobs)

\* A row and the event that announces it point at each other.
Announced(a, events) ==
    /\ a.seq \in DOMAIN events
    /\ \A k \in DOMAIN events : events[k].id = a.id <=> k = a.seq

StoreRefs ==
    /\ \A a \in rows : /\ a.run \in DOMAIN runs /\ blobs[a.digest] = "full"
                       /\ Announced(a, runs[a.run].events)
    /\ \A r \in DOMAIN runs : \A k \in DOMAIN runs[r].events :
          runs[r].events[k].id # None => \E a \in rows : a.run = r /\ a.id = runs[r].events[k].id

\* A completed run that the reconciliation has gone past is published, or it is
\* the one being published.
Reconciled(r) ==
    \/ \E a \in rows : a.id = Store!ResultId(r)
    \/ \E i \in DOMAIN look.page : look.page[i] = r
    \/ look.more /\ r < look.before
    \/ put # None /\ put.id = Store!ResultId(r)

StoreLook ==
    /\ owner = "down" => put = None
    /\ owner = "starting" =>
          /\ put # None => put.cause = "reconcile"
          /\ \A i \in DOMAIN look.page : look.page[i] \in DOMAIN runs
          /\ look.before \in 1 .. Len(runs) + 1
          /\ \A r \in DOMAIN runs : runs[r].status = "completed" => Reconciled(r)

StoreInv == StoreTypes /\ StorePut /\ StoreRefs /\ StoreLook

\* No id is None, and so is no put.
LEMMA StoreNames == None \notin Ids /\ None \notin Upload
BY PartsAssumption DEF Ids, Upload, Store!Digests, Store!ResultId, Store!ResultOf

\* Runs are numbered from one.
LEMMA RunsDomain ==
    ASSUME StoreTypes
    PROVE  /\ DOMAIN runs = 1 .. Len(runs) /\ Len(runs) \in Nat
           /\ DOMAIN runs \subseteq 1 .. MaxRuns /\ \A r \in DOMAIN runs : runs[r] \in Run
BY LenProperties, ElementOfSeq, PartsAssumption DEF StoreTypes

\* The owner starts down, over an empty store.
LEMMA StoreInit == Store!Init => StoreInv
<1> SUFFICES ASSUME Store!Init PROVE StoreInv OBVIOUS
<1>1. runs = <<>> /\ <<>> \in Seq(Run) /\ Len(<<>>) = 0 /\ DOMAIN <<>> = {} /\ <<>> \in Seq(Nat)
    BY DEF Store!Init
<1>2. look \in Look
    BY <1>1 DEF Store!Init, Store!NoLook, Look
<1>3. StoreTypes
    BY <1>1, <1>2, PartsAssumption DEF Store!Init, StoreTypes
<1>4. put = None /\ rows = {} /\ owner = "down" /\ DOMAIN runs = {}
    BY <1>1 DEF Store!Init
<1> QED BY <1>3, <1>4 DEF StoreInv, StorePut, StoreRefs, StoreLook

\* The properties of the run, from the invariant.
LEMMA StoreSafe == StoreInv => Store!RefsAreReadable
<1> SUFFICES ASSUME StoreInv PROVE Store!RefsAreReadable OBVIOUS
<1>1. ASSUME NEW a \in rows
      PROVE  /\ blobs[a.digest] = "full"
             /\ {k \in DOMAIN runs[a.run].events : runs[a.run].events[k].id = a.id} = {a.seq}
    BY <1>1 DEF StoreInv, StoreRefs, Announced
<1>2. ASSUME NEW r \in DOMAIN runs, NEW k \in DOMAIN runs[r].events, runs[r].events[k].id # None
      PROVE  \E a \in Store!OfRun(r) : a.id = runs[r].events[k].id
    BY <1>2 DEF StoreInv, StoreRefs, Store!OfRun
<1> QED BY <1>1, <1>2 DEF Store!RefsAreReadable

\* The owner opens when it has looked at every page of runs.
LEMMA StoreReady ==
    ASSUME StoreInv, [Store!Next]_storeVars, owner = "starting", owner' = "open"
    PROVE  \A r \in DOMAIN runs : runs[r].status = "completed" =>
               \E a \in rows : a.id = Store!ResultId(r)
<1>1. CASE Store!Open
    <2>1. put = None /\ look.page = <<>> /\ ~look.more
        BY <1>1 DEF Store!Open
    <2>2. DOMAIN look.page = {}
        BY <2>1
    <2> QED BY <2>1, <2>2 DEF StoreInv, StoreLook, Reconciled
<1>2. ~Store!Open => owner' # "open" \/ owner' = owner
    BY DEF Store!Next, storeVars, Store!ReuseBlob, Store!CreateTemp, Store!WriteTemp, Store!LinkBlob,
           Store!DiskFails, Store!PutRaises, Store!RegisterNew, Store!RegisterAgain, Store!RegisterRefused,
           Store!Start, Store!ReconcileRun, Store!ReconcilePage, Store!StartRun, Store!Crash, Store!Close,
           Store!FinishRun, Store!Publish
<1> QED BY <1>1, <1>2

\* A page of list_runs and what comes after it are all the runs before it.
LEMMA PageCovers ==
    ASSUME NEW b \in Nat \ {0}
    PROVE  /\ Store!PageBelow(b) \in Look /\ Store!PageBelow(b).before \in 1 .. b
           /\ \A i \in DOMAIN Store!PageBelow(b).page : Store!PageBelow(b).page[i] \in 1 .. b - 1
           /\ \A r \in 1 .. b - 1 : \/ \E i \in DOMAIN Store!PageBelow(b).page : Store!PageBelow(b).page[i] = r
                                    \/ Store!PageBelow(b).more /\ r < Store!PageBelow(b).before
<1> DEFINE size == IF b - 1 < PageSize THEN b - 1 ELSE PageSize
           list == [k \in 1 .. size |-> b - k]
           p == Store!PageBelow(b)
<1>1. size \in Nat /\ size <= b - 1
    BY PartsAssumption
<1>2. p = [page |-> list, more |-> size = PageSize, before |-> b - size]
    BY DEF Store!PageBelow
<1>3. size # PageSize => size = b - 1
    OBVIOUS
<1> HIDE DEF size
<1>4. list \in Seq(Nat) /\ DOMAIN list = 1 .. size /\ \A i \in 1 .. size : list[i] = b - i
    <2>1. \A i \in 1 .. size : b - i \in Nat
        BY <1>1
    <2> QED BY <1>1, <2>1
<1> HIDE DEF list, p
<1>5. p.page = list /\ p.more = (size = PageSize) /\ p.before = b - size
    BY <1>2
<1>6. p \in Look
    BY <1>1, <1>2, <1>4 DEF Look
<1>7. \A i \in DOMAIN p.page : p.page[i] \in 1 .. b - 1
    BY <1>1, <1>4, <1>5
<1>8. ASSUME NEW r \in 1 .. b - 1
      PROVE  \/ \E i \in DOMAIN p.page : p.page[i] = r
             \/ p.more /\ r < p.before
    <2>1. CASE r >= b - size
        <3>1. b - r \in 1 .. size /\ list[b - r] = r
            BY <2>1, <1>1, <1>4
        <3> QED BY <3>1, <1>4, <1>5
    <2>2. CASE ~(r >= b - size)
        <3>1. r < b - size /\ size = PageSize
            BY <2>2, <1>1, <1>3
        <3>2. p.more
            BY <3>1, <1>5
        <3> QED BY <3>1, <3>2, <1>5
    <2> QED BY <2>1, <2>2
<1> QED BY <1>1, <1>5, <1>6, <1>7, <1>8 DEF p

\* The steps of a put, by what is left of it.
LEMMA PutStages ==
    ASSUME StoreTypes, StorePut, put # None
    PROVE  /\ put \in Upload /\ Len(put.todo) \in 1 .. 4
           /\ Store!Doing("create") <=> Len(put.todo) = 4
           /\ Store!Doing("write") <=> Len(put.todo) = 3
           /\ Store!Doing("link") <=> Len(put.todo) = 2
           /\ Store!Doing("register") <=> Len(put.todo) = 1
<1>1. put \in Upload /\ Len(put.todo) \in 1 .. 4
    BY DEF StoreTypes, StorePut, Under
<1>n. PICK n \in 1 .. 4 : n = Len(put.todo)
    BY <1>1
<1>2. put.todo # <<>> /\ Head(put.todo) = put.todo[1]
    <2>1. put.todo \in Seq({"create", "write", "link", "register"})
        BY <1>1 DEF Upload
    <2>2. put.todo # <<>>
        BY <1>1, EmptySeq
    <2> QED BY <2>1, <2>2
<1>3. put.todo[1] = Store!PutOrder[5 - n]
    <2>1. 1 \in 1 .. n /\ 4 - n + 1 = 5 - n
        OBVIOUS
    <2>2. put.todo[1] = Store!PutOrder[4 - n + 1]
        BY <2>1, <1>n DEF StorePut, Under
    <2> QED BY <2>1, <2>2
<1>4. /\ Store!PutOrder[1] = "create" /\ Store!PutOrder[2] = "write"
      /\ Store!PutOrder[3] = "link" /\ Store!PutOrder[4] = "register"
    BY DEF Store!PutOrder
<1>5. \A step : Store!Doing(step) <=> Store!PutOrder[5 - n] = step
    BY <1>2, <1>3 DEF Store!Doing
<1>6. /\ Store!Doing("create") <=> n = 4
      /\ Store!Doing("write") <=> n = 3
      /\ Store!Doing("link") <=> n = 2
      /\ Store!Doing("register") <=> n = 1
    <2>1. n = 1 \/ n = 2 \/ n = 3 \/ n = 4
        OBVIOUS
    <2> QED BY <2>1, <1>4, <1>5
<1> QED BY <1>1, <1>n, <1>6

\* A put that is not over goes on with the rest of its steps.
LEMMA PutGoesOn ==
    ASSUME StoreTypes, StorePut, put # None, Len(put.todo) # 1,
           NEW t \in {"none", "partial", "full"}, Store!Done([put EXCEPT !.temp = t])
    PROVE  /\ put' \in Upload /\ put'.run = put.run /\ put'.id = put.id /\ put'.digest = put.digest
           /\ put'.cause = put.cause /\ put'.temp = t
           /\ Len(put'.todo) = Len(put.todo) - 1
           /\ \A i \in 1 .. Len(put'.todo) : put'.todo[i] = Store!PutOrder[4 - Len(put'.todo) + i]
<1> DEFINE p == [put EXCEPT !.temp = t]
           q == [p EXCEPT !.todo = Tail(@)]
<1>1. put \in Upload /\ Len(put.todo) \in 2 .. 4
    BY DEF StoreTypes, StorePut, Under
<1>2. /\ p \in Upload /\ p.run = put.run /\ p.id = put.id /\ p.digest = put.digest
      /\ p.cause = put.cause /\ p.temp = t /\ p.todo = put.todo
    BY <1>1 DEF Upload
<1>3. put' = q
    BY <1>2 DEF Store!Done
<1>4. /\ Tail(put.todo) \in Seq({"create", "write", "link", "register"})
      /\ Len(Tail(put.todo)) = Len(put.todo) - 1
      /\ \A i \in 1 .. Len(put.todo) - 1 : Tail(put.todo)[i] = put.todo[i + 1]
    <2>1. put.todo \in Seq({"create", "write", "link", "register"})
        BY <1>1 DEF Upload
    <2>2. PICK n \in 2 .. 4 : n = Len(put.todo)
        BY <1>1
    <2>3. put.todo # <<>>
        BY <2>2, EmptySeq, SMTT(30)
    <2> QED BY <2>1, <2>3, HeadTailProperties
<1> HIDE DEF p
<1>5. /\ q \in Upload /\ q.run = p.run /\ q.id = p.id /\ q.digest = p.digest
      /\ q.cause = p.cause /\ q.temp = p.temp /\ q.todo = Tail(put.todo)
    BY <1>2, <1>4 DEF Upload
<1> HIDE DEF q
<1>6. ASSUME NEW i \in 1 .. Len(put.todo) - 1
      PROVE  Tail(put.todo)[i] = Store!PutOrder[4 - (Len(put.todo) - 1) + i]
    <2>1. i + 1 \in 1 .. Len(put.todo) /\ 4 - Len(put.todo) + (i + 1) = 4 - (Len(put.todo) - 1) + i
        BY <1>1
    <2>2. put.todo[i + 1] = Store!PutOrder[4 - Len(put.todo) + (i + 1)]
        BY <2>1 DEF StorePut, Under
    <2> QED BY <2>1, <2>2, <1>4
<1>7. \A i \in 1 .. Len(put'.todo) : put'.todo[i] = Store!PutOrder[4 - Len(put'.todo) + i]
    BY <1>3, <1>4, <1>5, <1>6
<1> QED BY <1>2, <1>3, <1>4, <1>5, <1>7

\* Where no run, row or page changes, what is reconciled stays so as long as
\* the put of a result goes on or has been registered.
LEMMA LookStays ==
    ASSUME StoreTypes, StoreLook, owner' = owner, look' = look, rows \subseteq rows',
           DOMAIN runs' = DOMAIN runs, Len(runs') = Len(runs),
           \A r \in DOMAIN runs : runs'[r].status = runs[r].status,
           \/ put' = put
           \/ put # None /\ put' = None /\ \E a \in rows' : a.id = put.id
           \/ put # None /\ put' # None /\ put'.id = put.id /\ put'.cause = put.cause
    PROVE  StoreLook'
<1>1. \A r \in DOMAIN runs : Reconciled(r) => Reconciled(r)'
    BY DEF Reconciled, Store!ResultId
<1> QED BY <1>1 DEF StoreLook

\* An event is appended to one run.
LEMMA RunGrows ==
    ASSUME StoreTypes, NEW r \in DOMAIN runs, NEW one \in Run, NEW e \in Told,
           one.events = Append(runs[r].events, e), runs' = [runs EXCEPT ![r] = one]
    PROVE  /\ runs' \in Seq(Run) /\ Len(runs') = Len(runs) /\ DOMAIN runs' = DOMAIN runs
           /\ \A q \in DOMAIN runs : runs'[q] = IF q = r THEN one ELSE runs[q]
           /\ Len(runs[r].events) \in Nat
           /\ DOMAIN runs[r].events = 1 .. Len(runs[r].events)
           /\ DOMAIN one.events = 1 .. Len(runs[r].events) + 1
           /\ \A k \in DOMAIN runs[r].events : one.events[k] = runs[r].events[k]
           /\ one.events[Len(runs[r].events) + 1] = e
<1>1. runs \in Seq(Run) /\ r \in 1 .. Len(runs) /\ DOMAIN runs = 1 .. Len(runs) /\ runs[r] \in Run
    BY RunsDomain DEF StoreTypes
<1>2. runs' \in Seq(Run) /\ Len(runs') = Len(runs) /\ DOMAIN runs' = DOMAIN runs
      /\ \A q \in DOMAIN runs : runs'[q] = IF q = r THEN one ELSE runs[q]
    <2>1. /\ runs' \in Seq(Run) /\ Len(runs') = Len(runs)
          /\ \A q \in 1 .. Len(runs) : runs'[q] = IF q = r THEN one ELSE runs[q]
        BY <1>1, ExceptSeq
    <2> QED BY <2>1, <1>1, LenProperties
<1>3. runs[r].events \in Seq(Told)
    BY <1>1 DEF Run
<1> QED BY <1>2, <1>3, AppendProperties, LenProperties

\* An event that announces nothing leaves rows and announcements in order.
LEMMA RefsStay ==
    ASSUME StoreTypes, StoreRefs, NEW r \in DOMAIN runs, NEW one \in Run, NEW e \in Told,
           one.events = Append(runs[r].events, e), runs' = [runs EXCEPT ![r] = one],
           e.id = None, UNCHANGED <<rows, blobs>>
    PROVE  StoreRefs'
<1> DEFINE old == runs[r].events
           n == Len(old)
<1>1. /\ DOMAIN runs' = DOMAIN runs
      /\ \A q \in DOMAIN runs : runs'[q] = IF q = r THEN one ELSE runs[q]
      /\ n \in Nat /\ DOMAIN old = 1 .. n /\ DOMAIN one.events = 1 .. n + 1
      /\ \A k \in 1 .. n : one.events[k] = old[k]
      /\ one.events[n + 1] = e
    BY RunGrows
<1>2. ASSUME NEW a \in rows PROVE Announced(a, runs'[a.run].events)
    <2>1. Announced(a, runs[a.run].events) /\ a.run \in DOMAIN runs
        BY DEF StoreRefs
    <2>2. CASE a.run # r
        BY <2>1, <2>2, <1>1
    <2>3. CASE a.run = r
        <3>1. a.id # None
            BY StoreNames DEF StoreTypes, Row
        <3>2. /\ a.seq \in 1 .. n /\ a.seq # n + 1
              /\ \A k \in 1 .. n : old[k].id = a.id <=> k = a.seq
            BY <2>1, <2>3, <1>1 DEF Announced
        <3>3. \A k \in 1 .. n + 1 : one.events[k].id = a.id <=> k = a.seq
            <4> SUFFICES ASSUME NEW k \in 1 .. n + 1 PROVE one.events[k].id = a.id <=> k = a.seq
                OBVIOUS
            <4>1. CASE k = n + 1
                BY <4>1, <3>1, <3>2, <1>1
            <4>2. CASE k # n + 1
                <5>1. k \in 1 .. n
                    BY <4>2, <1>1
                <5> QED BY <5>1, <3>2, <1>1
            <4> QED BY <4>1, <4>2
        <3>4. a.seq \in 1 .. n + 1
            BY <3>2, <1>1
        <3> QED BY <2>1, <2>3, <3>3, <3>4, <1>1 DEF Announced
    <2> QED BY <2>2, <2>3
<1>3. ASSUME NEW q \in DOMAIN runs, NEW k \in DOMAIN runs'[q].events, runs'[q].events[k].id # None
      PROVE  \E a \in rows : a.run = q /\ a.id = runs'[q].events[k].id
    <2>1. k \in DOMAIN runs[q].events /\ runs'[q].events[k] = runs[q].events[k]
        <3>1. CASE q # r
            BY <3>1, <1>1
        <3>2. CASE q = r
            <4>1. k \in 1 .. n + 1 /\ k # n + 1
                BY <3>2, <1>1, <1>3
            <4> QED BY <4>1, <3>2, <1>1
        <3> QED BY <3>1, <3>2
    <2> QED BY <2>1, <1>3 DEF StoreRefs
<1> QED BY <1>1, <1>2, <1>3 DEF StoreRefs

\* A step of a put that registers nothing yet.
LEMMA PutMoves ==
    ASSUME StoreInv, put # None, UNCHANGED <<owner, runs, rows, look>>,
           blobs' \in [Store!Digests -> {"none", "full"}],
           \A d \in Store!Digests : blobs[d] = "full" => blobs'[d] = "full",
           put' \in Upload, put'.id = put.id, put'.cause = put.cause,
           Under(put', DOMAIN runs, blobs')
    PROVE  StoreInv'
<1>i. StoreTypes /\ StorePut /\ StoreRefs /\ StoreLook
    BY DEF StoreInv
<1>1. StoreTypes'
    BY <1>i DEF StoreTypes
<1>2. StorePut'
    BY DEF StorePut, Under
<1>3. StoreRefs'
    BY <1>i DEF StoreRefs, StoreTypes, Row, Announced
<1>4. StoreLook'
    BY <1>i, StoreNames, LookStays
<1> QED BY <1>1, <1>2, <1>3, <1>4 DEF StoreInv

\* A put that raises takes the start with it that needed it.
LEMMA PutEnds ==
    ASSUME StoreInv, put # None, Store!PutRaises, UNCHANGED <<runs, rows, blobs>>
    PROVE  StoreInv'
<1>i. StoreTypes /\ StorePut /\ StoreRefs /\ StoreLook
    BY DEF StoreInv
<1>1. Store!NoLook \in Look
    BY EmptySeq DEF Store!NoLook, Look
<1>2. StoreTypes'
    BY <1>1, <1>i DEF StoreTypes, Store!PutRaises
<1>3. StorePut' /\ StoreRefs'
    BY <1>i DEF StorePut, StoreRefs, Announced, Store!PutRaises
<1>4. StoreLook'
    BY <1>i DEF StoreLook, Store!PutRaises
<1> QED BY <1>2, <1>3, <1>4 DEF StoreInv

\* A put that begins has all its steps before it.
LEMMA PutBegins ==
    ASSUME StoreTypes, NEW r \in DOMAIN runs, NEW id \in Ids, NEW d \in Store!Digests,
           NEW cause \in {"reconcile", "drive", "publish"}
    PROVE  /\ Store!Put(r, id, d, cause) \in Upload
           /\ Store!Put(r, id, d, cause).id = id /\ Store!Put(r, id, d, cause).cause = cause
           /\ Under(Store!Put(r, id, d, cause), DOMAIN runs, blobs)
<1> DEFINE p == Store!Put(r, id, d, cause)
<1>1. /\ Store!PutOrder \in Seq({"create", "write", "link", "register"})
      /\ Len(Store!PutOrder) = 4
    BY DEF Store!PutOrder
<1>2. r \in 1 .. MaxRuns
    BY RunsDomain
<1>3. /\ p.run = r /\ p.id = id /\ p.cause = cause /\ p.todo = Store!PutOrder
      /\ p \in Upload
    BY <1>1, <1>2 DEF Store!Put, Upload
<1> HIDE DEF p
<1>4. Len(p.todo) = 4 /\ \A i \in 1 .. 4 : p.todo[i] = Store!PutOrder[4 - 4 + i]
    <2>1. \A i \in 1 .. 4 : 4 - 4 + i = i
        OBVIOUS
    <2> QED BY <1>1, <1>3, <2>1
<1>5. Under(p, DOMAIN runs, blobs)
    BY <1>3, <1>4 DEF Under
<1> QED BY <1>3, <1>5 DEF p

\* A result is published under an id and a digest of its own.
LEMMA ResultNames ==
    ASSUME NEW r \in 1 .. MaxRuns
    PROVE  Store!ResultId(r) \in Ids /\ Store!ResultOf(r) \in Store!Digests
BY DEF Ids, Store!Digests

\* No step of an owner, no failure and no death breaks it.
LEMMA StoreStep == StoreInv /\ [Store!Next]_storeVars => StoreInv'
<1> SUFFICES ASSUME StoreInv, [Store!Next]_storeVars PROVE StoreInv'
    OBVIOUS
<1>i. StoreTypes /\ StorePut /\ StoreRefs /\ StoreLook
    BY DEF StoreInv
<1>t. /\ owner \in {"down", "starting", "open"} /\ runs \in Seq(Run) /\ rows \subseteq Row
      /\ blobs \in [Store!Digests -> {"none", "full"}] /\ put \in Upload \cup {None} /\ look \in Look
    BY <1>i DEF StoreTypes
<1>d. /\ DOMAIN runs = 1 .. Len(runs) /\ Len(runs) \in Nat
      /\ DOMAIN runs \subseteq 1 .. MaxRuns /\ \A r \in DOMAIN runs : runs[r] \in Run
    BY <1>i, RunsDomain
\* The steps of a put.
<1>1. CASE Store!ReuseBlob
    <2> DEFINE rest == SubSeq(put.todo, 4, Len(put.todo))
               q == [put EXCEPT !.todo = rest]
    <2>0. put # None
        BY <1>1 DEF Store!ReuseBlob, Store!Doing
    <2>1. put \in Upload /\ Len(put.todo) = 4 /\ put.todo \in Seq({"create", "write", "link", "register"})
        BY <1>1, <2>0, <1>i, PutStages DEF Store!ReuseBlob, Upload
    <2>2. put.todo[4] = "register"
        <3>1. put.todo[4] = Store!PutOrder[4 - 4 + 4]
            BY <2>0, <2>1, <1>i DEF StorePut, Under
        <3> QED BY <3>1 DEF Store!PutOrder
    <2>3. rest \in Seq({"create", "write", "link", "register"}) /\ Len(rest) = 1 /\ rest[1] = "register"
        <3>1. \A j \in 4 .. 4 : put.todo[j] \in {"create", "write", "link", "register"}
            BY <2>2
        <3>2. /\ SubSeq(put.todo, 4, 4) \in Seq({"create", "write", "link", "register"})
              /\ Len(SubSeq(put.todo, 4, 4)) = 1
              /\ \A j \in 1 .. 1 : SubSeq(put.todo, 4, 4)[j] = put.todo[4 + j - 1]
            BY <3>1, SubSeqProperties
        <3> QED BY <3>2, <2>1, <2>2
    <2>4. put' = q
        <3>1. rest # <<>>
            <4> HIDE DEF rest
            <4> QED BY <2>3, EmptySeq
        <3> QED BY <1>1, <3>1 DEF Store!ReuseBlob
    <2> HIDE DEF rest
    <2>5. /\ q \in Upload /\ q.run = put.run /\ q.id = put.id /\ q.digest = put.digest
          /\ q.cause = put.cause /\ q.todo = rest
        BY <2>1, <2>3 DEF Upload
    <2> HIDE DEF q
    <2>6. Under(q, DOMAIN runs, blobs)
        <3>1. \A j \in 1 .. 1 : rest[j] = Store!PutOrder[4 - 1 + j]
            BY <2>3 DEF Store!PutOrder
        <3>2. blobs[put.digest] = "full" /\ put.run \in DOMAIN runs
            BY <1>1, <2>0, <1>i DEF Store!ReuseBlob, StorePut, Under
        <3>3. Len(q.todo) = 1 /\ \A j \in 1 .. 1 : q.todo[j] = Store!PutOrder[4 - 1 + j]
            BY <2>3, <2>5, <3>1
        <3> QED BY <2>5, <3>2, <3>3 DEF Under
    <2>7. UNCHANGED <<owner, runs, rows, blobs, look>>
        BY <1>1 DEF Store!ReuseBlob
    <2> QED BY <2>0, <2>4, <2>5, <2>6, <2>7, <1>t, PutMoves DEF Under
<1>2. CASE Store!CreateTemp
    <2>0. put # None /\ Store!Done([put EXCEPT !.temp = "partial"])
        BY <1>2 DEF Store!CreateTemp, Store!Doing
    <2>1. Len(put.todo) = 4
        BY <1>2, <2>0, <1>i, PutStages DEF Store!CreateTemp
    <2>2. /\ put' \in Upload /\ put'.run = put.run /\ put'.id = put.id /\ put'.digest = put.digest
          /\ put'.cause = put.cause /\ Len(put'.todo) = 3
          /\ \A j \in 1 .. Len(put'.todo) : put'.todo[j] = Store!PutOrder[4 - Len(put'.todo) + j]
        BY <2>0, <2>1, <1>i, PutGoesOn
    <2>3. UNCHANGED <<owner, runs, rows, blobs, look>>
        BY <1>2 DEF Store!CreateTemp
    <2>4. Under(put', DOMAIN runs, blobs')
        BY <2>0, <2>2, <2>3, <1>i DEF Under, StorePut
    <2> QED BY <2>0, <2>2, <2>3, <2>4, <1>t, PutMoves
<1>3. CASE Store!WriteTemp
    <2>0. put # None /\ Store!Done([put EXCEPT !.temp = "full"])
        BY <1>3 DEF Store!WriteTemp, Store!Doing
    <2>1. Len(put.todo) = 3
        BY <1>3, <2>0, <1>i, PutStages DEF Store!WriteTemp
    <2>2. /\ put' \in Upload /\ put'.run = put.run /\ put'.id = put.id /\ put'.digest = put.digest
          /\ put'.cause = put.cause /\ put'.temp = "full" /\ Len(put'.todo) = 2
          /\ \A j \in 1 .. Len(put'.todo) : put'.todo[j] = Store!PutOrder[4 - Len(put'.todo) + j]
        BY <2>0, <2>1, <1>i, PutGoesOn
    <2>3. UNCHANGED <<owner, runs, rows, blobs, look>>
        BY <1>3 DEF Store!WriteTemp
    <2>4. Under(put', DOMAIN runs, blobs')
        BY <2>0, <2>2, <2>3, <1>i DEF Under, StorePut
    <2> QED BY <2>0, <2>2, <2>3, <2>4, <1>t, PutMoves
<1>4. CASE Store!LinkBlob
    <2>0. put # None /\ Store!Done([put EXCEPT !.temp = "none"])
        BY <1>4 DEF Store!LinkBlob, Store!Doing
    <2>1. Len(put.todo) = 2 /\ put.temp = "full" /\ put \in Upload
        BY <1>4, <2>0, <1>i, PutStages DEF Store!LinkBlob, StorePut, Under
    <2>2. /\ put' \in Upload /\ put'.run = put.run /\ put'.id = put.id /\ put'.digest = put.digest
          /\ put'.cause = put.cause /\ Len(put'.todo) = 1
          /\ \A j \in 1 .. Len(put'.todo) : put'.todo[j] = Store!PutOrder[4 - Len(put'.todo) + j]
        BY <2>0, <2>1, <1>i, PutGoesOn
    <2>3. UNCHANGED <<owner, runs, rows, look>> /\ blobs' = [blobs EXCEPT ![put.digest] = "full"]
        BY <1>4, <2>1 DEF Store!LinkBlob
    <2>4. put.digest \in Store!Digests
        BY <2>1 DEF Upload
    <2>5. /\ blobs' \in [Store!Digests -> {"none", "full"}] /\ blobs'[put.digest] = "full"
          /\ \A d \in Store!Digests : blobs[d] = "full" => blobs'[d] = "full"
        BY <2>3, <2>4, <1>t
    <2>6. Under(put', DOMAIN runs, blobs')
        BY <2>0, <2>2, <2>5, <1>i DEF Under, StorePut
    <2> QED BY <2>0, <2>2, <2>3, <2>5, <2>6, PutMoves
<1>5. CASE Store!DiskFails
    BY <1>5, PutEnds DEF Store!DiskFails
<1>6. CASE Store!RegisterRefused
    BY <1>6, PutEnds DEF Store!RegisterRefused, Store!Doing
<1>7. CASE Store!RegisterAgain
    <2>0. put # None /\ Store!Done(put) /\ UNCHANGED <<owner, runs, rows, blobs, look>>
        BY <1>7 DEF Store!RegisterAgain, Store!Doing
    <2>1. Len(put.todo) = 1
        BY <1>7, <2>0, <1>i, PutStages DEF Store!RegisterAgain
    <2>2. put' = None
        BY <2>0, <2>1 DEF Store!Done
    <2>3. \E a \in rows : a.id = put.id
        BY <1>7 DEF Store!RegisterAgain, Store!Named
    <2>4. StoreTypes'
        BY <2>0, <2>2, <1>i DEF StoreTypes
    <2>5. StorePut' /\ StoreRefs'
        BY <2>0, <2>2, <1>i DEF StorePut, StoreRefs, Announced
    <2>6. StoreLook'
        BY <2>0, <2>2, <2>3, <1>i, LookStays
    <2> QED BY <2>4, <2>5, <2>6 DEF StoreInv
\* The row and its event.
<1>8. CASE Store!RegisterNew
    <2>0. put # None /\ Store!Done(put) /\ UNCHANGED <<owner, blobs, look>>
        BY <1>8 DEF Store!RegisterNew, Store!Doing
    <2>p. PICK p \in Upload : p = put
        BY <2>0, <1>t
    <2>1. Len(put.todo) = 1 /\ blobs[p.digest] = "full" /\ p.run \in DOMAIN runs
        BY <1>8, <2>0, <2>p, <1>i, PutStages DEF Store!RegisterNew, StorePut, Under
    <2>2. put' = None
        BY <2>0, <2>1 DEF Store!Done
    <2> DEFINE r == p.run
    <2>3. PICK old \in Run : old = runs[r]
        BY <2>1, <1>d
    <2> DEFINE n == Len(old.events)
               e == Store!Event("artifact", p.id)
               one == [old EXCEPT !.events = Append(old.events, e)]
               a == [id |-> p.id, run |-> r, digest |-> p.digest, seq |-> n + 1]
    <2>4. rows' = rows \cup {a} /\ runs' = [runs EXCEPT ![r] = one]
        BY <1>8, <2>p, <2>3 DEF Store!RegisterNew
    <2>5. p.id \in Ids /\ p.digest \in Store!Digests /\ r \in 1 .. MaxRuns
        BY DEF Upload
    <2>6. e \in Told /\ e.id = p.id
        BY <2>5 DEF Store!Event, Told
    <2>7. old.events \in Seq(Told) /\ n \in Nat
        BY LenProperties DEF Run
    <2> HIDE DEF e
    <2>8. one \in Run /\ one.status = old.status /\ one.events = Append(old.events, e)
        <3>1. Append(old.events, e) \in Seq(Told)
            BY <2>6, <2>7, AppendProperties
        <3> QED BY <3>1, <2>7 DEF Run
    <2> HIDE DEF one
    <2>9. a \in Row /\ a.id = p.id /\ a.run = r /\ a.digest = p.digest /\ a.seq = n + 1
        BY <2>5, <2>7 DEF Row
    <2> HIDE DEF a
    <2>10. /\ runs' \in Seq(Run) /\ Len(runs') = Len(runs) /\ DOMAIN runs' = DOMAIN runs
           /\ \A q \in DOMAIN runs : runs'[q] = IF q = r THEN one ELSE runs[q]
           /\ DOMAIN old.events = 1 .. n /\ DOMAIN one.events = 1 .. n + 1
           /\ \A k \in 1 .. n : one.events[k] = old.events[k]
           /\ one.events[n + 1] = e
        <3> HIDE DEF n, r
        <3>1. one.events = Append(runs[r].events, e)
            BY <2>3, <2>8
        <3>2. r \in DOMAIN runs
            BY <2>1 DEF r
        <3>3. /\ runs' \in Seq(Run) /\ Len(runs') = Len(runs) /\ DOMAIN runs' = DOMAIN runs
              /\ \A q \in DOMAIN runs : runs'[q] = IF q = r THEN one ELSE runs[q]
              /\ DOMAIN runs[r].events = 1 .. Len(runs[r].events)
              /\ DOMAIN one.events = 1 .. Len(runs[r].events) + 1
              /\ \A k \in DOMAIN runs[r].events : one.events[k] = runs[r].events[k]
              /\ one.events[Len(runs[r].events) + 1] = e
            <4>1. StoreTypes /\ e \in Told /\ one \in Run /\ runs' = [runs EXCEPT ![r] = one]
                BY <2>4, <2>6, <2>8, <1>i
            <4> QED BY <4>1, <3>1, <3>2, RunGrows, ZenonT(60)
        <3>4. runs[r].events = old.events /\ Len(runs[r].events) = n
            BY <2>3 DEF n
        <3> QED BY <3>3, <3>4
    <2>11. StoreTypes'
        BY <2>0, <2>2, <2>4, <2>9, <2>10, <1>i DEF StoreTypes
    <2>12. StorePut'
        BY <2>2 DEF StorePut
    \* No row has the id yet, so no event has it.
    <2>13. \A b \in rows : b.id # p.id
        BY <1>8, <2>p DEF Store!RegisterNew, Store!Named
    <2>14. \A k \in 1 .. n : old.events[k].id # p.id
        <3>1. p.id # None
            BY <2>5, StoreNames
        <3> QED BY <3>1, <2>1, <2>3, <2>10, <2>13, <1>i DEF StoreRefs
    <2>15. Announced(a, one.events)
        <3>1. n + 1 \in 1 .. n + 1
            BY <2>7
        <3>2. \A k \in 1 .. n + 1 : one.events[k].id = p.id <=> k = n + 1
            <4> SUFFICES ASSUME NEW k \in 1 .. n + 1 PROVE one.events[k].id = p.id <=> k = n + 1
                OBVIOUS
            <4>1. CASE k = n + 1
                BY <4>1, <2>6, <2>10
            <4>2. CASE k # n + 1
                <5>1. k \in 1 .. n
                    BY <4>2, <2>7
                <5> QED BY <5>1, <4>2, <2>10, <2>14
            <4> QED BY <4>1, <4>2
        <3> QED BY <3>1, <3>2, <2>9, <2>10 DEF Announced
    <2>16. ASSUME NEW b \in rows
           PROVE  b.run \in DOMAIN runs /\ blobs[b.digest] = "full" /\ Announced(b, runs'[b.run].events)
        <3>1. b.run \in DOMAIN runs /\ blobs[b.digest] = "full" /\ Announced(b, runs[b.run].events)
            BY <1>i DEF StoreRefs
        <3>2. CASE b.run # r
            BY <3>1, <3>2, <2>10
        <3>3. CASE b.run = r
            <4>1. /\ b.seq \in 1 .. n /\ b.seq # n + 1
                  /\ \A k \in 1 .. n : old.events[k].id = b.id <=> k = b.seq
                BY <3>1, <3>3, <2>3, <2>7, <2>10 DEF Announced
            <4>2. \A k \in 1 .. n + 1 : one.events[k].id = b.id <=> k = b.seq
                <5> SUFFICES ASSUME NEW k \in 1 .. n + 1 PROVE one.events[k].id = b.id <=> k = b.seq
                    OBVIOUS
                <5>1. CASE k = n + 1
                    BY <5>1, <4>1, <2>6, <2>10, <2>13
                <5>2. CASE k # n + 1
                    <6>1. k \in 1 .. n
                        BY <5>2, <2>7
                    <6> QED BY <6>1, <4>1, <2>10
                <5> QED BY <5>1, <5>2
            <4>3. b.seq \in 1 .. n + 1
                BY <4>1, <2>7
            <4> QED BY <3>1, <3>3, <4>2, <4>3, <2>10 DEF Announced
        <3> QED BY <3>2, <3>3
    <2>17. ASSUME NEW q \in DOMAIN runs, NEW k \in DOMAIN runs'[q].events, runs'[q].events[k].id # None
           PROVE  \E b \in rows \cup {a} : b.run = q /\ b.id = runs'[q].events[k].id
        <3>1. CASE q = r /\ k = n + 1
            BY <3>1, <2>6, <2>9, <2>10
        <3>2. CASE ~(q = r /\ k = n + 1)
            <4>1. k \in DOMAIN runs[q].events /\ runs'[q].events[k] = runs[q].events[k]
                <5>1. CASE q # r
                    BY <5>1, <2>10
                <5>2. CASE q = r
                    <6>1. k \in 1 .. n + 1 /\ k # n + 1
                        BY <5>2, <3>2, <2>10
                    <6>2. k \in 1 .. n
                        BY <6>1, <2>7
                    <6> QED BY <6>2, <5>2, <2>3, <2>10
                <5> QED BY <5>1, <5>2
            <4> QED BY <4>1, <2>17, <1>i DEF StoreRefs
        <3> QED BY <3>1, <3>2
    <2>18. StoreRefs'
        BY <2>0, <2>1, <2>4, <2>9, <2>10, <2>15, <2>16, <2>17 DEF StoreRefs
    <2>19. StoreLook'
        <3>1. \A q \in DOMAIN runs : runs'[q].status = runs[q].status
            BY <2>3, <2>8, <2>10
        <3>2. \E b \in rows' : b.id = put.id
            BY <2>4, <2>9, <2>p
        <3> QED BY <2>0, <2>2, <2>4, <2>10, <3>1, <3>2, <1>i, LookStays
    <2> QED BY <2>11, <2>12, <2>18, <2>19 DEF StoreInv
\* The owner starts and looks through its runs, page by page.
<1>9. CASE Store!Start
    <2>1. /\ owner = "down" /\ owner' = "starting" /\ look' = Store!PageBelow(Len(runs) + 1)
          /\ UNCHANGED <<runs, rows, blobs, put>>
        BY <1>9 DEF Store!Start
    <2>2. /\ look' \in Look /\ look'.before \in 1 .. Len(runs) + 1
          /\ \A i \in DOMAIN look'.page : look'.page[i] \in DOMAIN runs
          /\ \A r \in DOMAIN runs : \/ \E i \in DOMAIN look'.page : look'.page[i] = r
                                    \/ look'.more /\ r < look'.before
        <3>1. Len(runs) + 1 \in Nat \ {0} /\ Len(runs) + 1 - 1 = Len(runs)
            BY <1>d
        <3> QED BY <3>1, <2>1, <1>d, PageCovers
    <2>3. StoreTypes' /\ StorePut' /\ StoreRefs'
        BY <2>1, <2>2, <1>i DEF StoreTypes, StorePut, StoreRefs, Announced
    <2>4. put' = None
        BY <2>1, <1>i DEF StoreLook
    <2>5. StoreLook'
        BY <2>1, <2>2, <2>4 DEF StoreLook, Reconciled
    <2> QED BY <2>3, <2>5 DEF StoreInv
<1>10. CASE Store!ReconcileRun
    <2>1. /\ owner = "starting" /\ put = None /\ look.page # <<>>
          /\ look' = [look EXCEPT !.page = Tail(@)]
          /\ put' = (IF runs[Head(look.page)].status = "completed"
                     THEN Store!Put(Head(look.page), Store!ResultId(Head(look.page)),
                                    Store!ResultOf(Head(look.page)), "reconcile")
                     ELSE None)
          /\ UNCHANGED <<owner, runs, rows, blobs>>
        BY <1>10 DEF Store!ReconcileRun
    <2>p. PICK page \in Seq(Nat) : page = look.page
        BY <1>t DEF Look
    <2>2. /\ Len(page) \in Nat \ {0} /\ DOMAIN page = 1 .. Len(page) /\ Head(page) = page[1]
          /\ Tail(page) \in Seq(Nat) /\ DOMAIN Tail(page) = 1 .. Len(page) - 1
          /\ \A i \in 1 .. Len(page) - 1 : Tail(page)[i] = page[i + 1]
        BY <2>1, <2>p, HeadTailProperties, LenProperties, EmptySeq
    <2>r. PICK r \in DOMAIN runs : r = Head(page)
        <3>1. 1 \in DOMAIN page
            BY <2>2
        <3> QED BY <3>1, <2>1, <2>2, <2>p, <1>i DEF StoreLook
    <2>3. look' \in Look /\ look'.page = Tail(page) /\ look'.more = look.more /\ look'.before = look.before
        BY <2>1, <2>2, <2>p, <1>t DEF Look
    <2>4. /\ put' \in Upload \cup {None}
          /\ put' # None => put'.id = Store!ResultId(r) /\ put'.cause = "reconcile" /\ Under(put', DOMAIN runs, blobs)
          /\ runs[r].status = "completed" => put' # None
        <3>1. r \in 1 .. MaxRuns
            BY <1>d
        <3>2. Store!ResultId(r) \in Ids /\ Store!ResultOf(r) \in Store!Digests
            BY <3>1, ResultNames
        <3> DEFINE p == Store!Put(r, Store!ResultId(r), Store!ResultOf(r), "reconcile")
        <3>3. p \in Upload /\ p.id = Store!ResultId(r) /\ p.cause = "reconcile" /\ Under(p, DOMAIN runs, blobs)
            BY <3>2, <1>i, PutBegins
        <3>4. put' = IF runs[r].status = "completed" THEN p ELSE None
            BY <2>1, <2>p, <2>r
        <3>5. None \notin Upload
            BY StoreNames
        <3> HIDE DEF p
        <3> QED BY <3>3, <3>4, <3>5
    <2>5. StoreTypes'
        BY <2>1, <2>3, <2>4, <1>i DEF StoreTypes
    <2>6. StorePut' /\ StoreRefs'
        BY <2>1, <2>4, <1>i DEF StorePut, StoreRefs, Announced
    <2>7. ASSUME NEW q \in DOMAIN runs, runs[q].status = "completed" PROVE Reconciled(q)'
        <3>1. Reconciled(q)
            BY <2>1, <2>7, <1>i DEF StoreLook
        <3>2. CASE \E i \in DOMAIN page : page[i] = q
            <4>1. PICK i \in 1 .. Len(page) : page[i] = q
                BY <3>2, <2>2
            <4>2. CASE i = 1
                <5>1. q = r
                    BY <4>1, <4>2, <2>2, <2>r
                <5>2. put' # None /\ put'.id = Store!ResultId(q)
                    BY <5>1, <2>4, <2>7
                <5> QED BY <5>2 DEF Reconciled, Store!ResultId
            <4>3. CASE i # 1
                <5>1. i - 1 \in DOMAIN Tail(page) /\ Tail(page)[i - 1] = q
                    <6>1. i - 1 \in 1 .. Len(page) - 1 /\ i - 1 + 1 = i
                        BY <4>3, <2>2
                    <6> QED BY <6>1, <4>1, <2>2
                <5> QED BY <5>1, <2>3 DEF Reconciled
            <4> QED BY <4>2, <4>3
        <3>3. CASE ~(\E i \in DOMAIN page : page[i] = q)
            BY <3>1, <3>3, <2>1, <2>3, <2>p DEF Reconciled, Store!ResultId
        <3> QED BY <3>2, <3>3
    <2>8. \A i \in DOMAIN look'.page : look'.page[i] \in DOMAIN runs
        <3> SUFFICES ASSUME NEW i \in DOMAIN Tail(page) PROVE Tail(page)[i] \in DOMAIN runs
            BY <2>3
        <3>1. i + 1 \in DOMAIN page /\ Tail(page)[i] = page[i + 1]
            BY <2>2
        <3> QED BY <3>1, <2>1, <2>p, <1>i DEF StoreLook
    <2>9. StoreLook'
        BY <2>1, <2>3, <2>4, <2>7, <2>8, <1>i DEF StoreLook
    <2> QED BY <2>5, <2>6, <2>9 DEF StoreInv
<1>11. CASE Store!ReconcilePage
    <2>1. /\ owner = "starting" /\ put = None /\ look.page = <<>> /\ look.more
          /\ look' = Store!PageBelow(look.before)
          /\ UNCHANGED <<owner, runs, rows, blobs, put>>
        BY <1>11 DEF Store!ReconcilePage
    <2>b. PICK b \in 1 .. Len(runs) + 1 : b = look.before
        BY <2>1, <1>i DEF StoreLook
    <2>2. /\ look' \in Look /\ look'.before \in 1 .. b
          /\ \A i \in DOMAIN look'.page : look'.page[i] \in 1 .. b - 1
          /\ \A r \in 1 .. b - 1 : \/ \E i \in DOMAIN look'.page : look'.page[i] = r
                                   \/ look'.more /\ r < look'.before
        <3>1. b \in Nat \ {0}
            BY <1>d
        <3> QED BY <3>1, <2>1, <2>b, PageCovers
    <2>3. StoreTypes' /\ StorePut' /\ StoreRefs'
        BY <2>1, <2>2, <1>i DEF StoreTypes, StorePut, StoreRefs, Announced
    <2>4. ASSUME NEW r \in DOMAIN runs, runs[r].status = "completed" PROVE Reconciled(r)'
        <3>1. Reconciled(r) /\ DOMAIN look.page = {}
            BY <2>1, <2>4, <1>i DEF StoreLook
        <3>2. CASE \E a \in rows : a.id = Store!ResultId(r)
            BY <3>2, <2>1 DEF Reconciled, Store!ResultId
        <3>3. CASE r < look.before
            <4>1. r \in 1 .. b - 1
                BY <3>3, <2>b, <1>d
            <4> QED BY <4>1, <2>2 DEF Reconciled
        <3> QED BY <3>1, <3>2, <3>3, <2>1 DEF Reconciled
    <2>5. /\ look'.before \in 1 .. Len(runs) + 1
          /\ \A i \in DOMAIN look'.page : look'.page[i] \in DOMAIN runs
        BY <2>2, <1>d
    <2>6. StoreLook'
        BY <2>1, <2>4, <2>5 DEF StoreLook
    <2> QED BY <2>3, <2>6 DEF StoreInv
<1>12. CASE Store!Open \/ Store!Crash \/ Store!Close
    <2>1. Store!NoLook \in Look
        BY EmptySeq DEF Store!NoLook, Look
    <2>2. /\ owner' \in {"down", "open"}
          /\ owner' = "down" => put' = None
          /\ put' \in {put, None} /\ look' \in {look, Store!NoLook}
          /\ UNCHANGED <<runs, rows, blobs>>
        BY <1>12 DEF Store!Open, Store!Crash, Store!Close, Store!Idle
    <2>3. StoreTypes'
        BY <2>1, <2>2, <1>i DEF StoreTypes
    <2>4. StorePut' /\ StoreRefs'
        BY <2>2, <1>i DEF StorePut, StoreRefs, Announced
    <2>5. StoreLook'
        BY <2>2 DEF StoreLook
    <2> QED BY <2>3, <2>4, <2>5 DEF StoreInv
\* Runs begin and end while the owner is open.
<1>13. CASE Store!StartRun
    <2> DEFINE e == Store!Event("started", None)
               new == [status |-> "running", events |-> <<e>>]
               n == Len(runs)
    <2>1. /\ owner = "open" /\ put = None /\ n < MaxRuns /\ runs' = Append(runs, new)
          /\ UNCHANGED <<owner, rows, blobs, put, look>>
        BY <1>13 DEF Store!StartRun, Store!Idle
    <2>2. e \in Told /\ e.id = None
        BY DEF Store!Event, Told
    <2> HIDE DEF e
    <2>3. new \in Run /\ DOMAIN new.events = {1} /\ new.events[1] = e
        <3>1. <<e>> \in Seq(Told) /\ DOMAIN <<e>> = 1 .. 1 /\ <<e>>[1] = e
            BY <2>2
        <3> QED BY <3>1 DEF Run
    <2> HIDE DEF new
    <2>4. /\ runs' \in Seq(Run) /\ Len(runs') = n + 1 /\ DOMAIN runs' = 1 .. n + 1
          /\ \A r \in DOMAIN runs : runs'[r] = runs[r]
          /\ runs'[n + 1] = new
        BY <2>1, <2>3, <1>t, <1>d, AppendProperties, LenProperties
    <2>5. DOMAIN runs \subseteq DOMAIN runs' /\ \A r \in DOMAIN runs' : r \in DOMAIN runs \/ r = n + 1
        BY <2>4, <1>d
    <2>6. StoreTypes'
        BY <2>1, <2>4, <1>i, <1>d, PartsAssumption DEF StoreTypes
    <2>7. StorePut'
        BY <2>1 DEF StorePut
    <2>8. StoreRefs'
        <3>1. ASSUME NEW a \in rows
              PROVE  a.run \in DOMAIN runs' /\ blobs[a.digest] = "full" /\ Announced(a, runs'[a.run].events)
            BY <2>4, <2>5, <1>i DEF StoreRefs
        <3>2. ASSUME NEW r \in DOMAIN runs', NEW k \in DOMAIN runs'[r].events, runs'[r].events[k].id # None
              PROVE  \E a \in rows : a.run = r /\ a.id = runs'[r].events[k].id
            <4>1. CASE r \in DOMAIN runs
                BY <4>1, <3>2, <2>4, <1>i DEF StoreRefs
            <4>2. CASE r = n + 1
                BY <4>2, <3>2, <2>2, <2>3, <2>4
            <4> QED BY <4>1, <4>2, <2>5
        <3> QED BY <3>1, <3>2, <2>1 DEF StoreRefs
    <2>9. StoreLook'
        BY <2>1 DEF StoreLook
    <2> QED BY <2>6, <2>7, <2>8, <2>9 DEF StoreInv
<1>14. ASSUME NEW r \in DOMAIN runs, NEW status \in {"completed", "failed"}, Store!FinishRun(r, status)
       PROVE  StoreInv'
    <2>1. PICK old \in Run : old = runs[r]
        BY <1>d
    <2> DEFINE e == Store!Event(status, None)
               one == [status |-> status, events |-> Append(old.events, e)]
               p == Store!Put(r, Store!ResultId(r), Store!ResultOf(r), "drive")
    <2>2. /\ owner = "open" /\ put = None /\ runs' = [runs EXCEPT ![r] = one]
          /\ put' = (IF status = "completed" THEN p ELSE None)
          /\ UNCHANGED <<owner, rows, blobs, look>>
        BY <1>14, <2>1 DEF Store!FinishRun, Store!Idle
    <2>3. e \in Told /\ e.id = None
        BY DEF Store!Event, Told
    <2> HIDE DEF e
    <2>4. one \in Run /\ one.events = Append(old.events, e)
        <3>1. Append(old.events, e) \in Seq(Told)
            BY <2>3, AppendProperties DEF Run
        <3> QED BY <3>1 DEF Run
    <2> HIDE DEF one
    <2>5. r \in 1 .. MaxRuns /\ Store!ResultId(r) \in Ids /\ Store!ResultOf(r) \in Store!Digests
        BY <1>d, ResultNames
    <2>6. p \in Upload /\ Under(p, DOMAIN runs, blobs)
        BY <2>5, <1>i, PutBegins
    <2> HIDE DEF p
    <2>7. runs' \in Seq(Run) /\ Len(runs') = Len(runs) /\ DOMAIN runs' = DOMAIN runs
        BY <2>1, <2>2, <2>3, <2>4, <1>i, RunGrows
    <2>8. StoreTypes'
        BY <2>2, <2>6, <2>7, <1>i DEF StoreTypes
    <2>9. StorePut'
        BY <2>2, <2>6, <2>7 DEF StorePut, Under
    <2>10. StoreRefs'
        BY <2>1, <2>2, <2>3, <2>4, <1>i, RefsStay
    <2>11. StoreLook'
        BY <2>2 DEF StoreLook
    <2> QED BY <2>8, <2>9, <2>10, <2>11 DEF StoreInv
<1>15. ASSUME NEW r \in DOMAIN runs, NEW id \in HostIds, NEW c \in HostContents, Store!Publish(r, id, c)
       PROVE  StoreInv'
    <2> DEFINE p == Store!Put(r, id, c, "publish")
    <2>1. owner = "open" /\ put' = p /\ UNCHANGED <<owner, runs, rows, blobs, look>>
        BY <1>15 DEF Store!Publish, Store!Idle
    <2>2. id \in Ids /\ c \in Store!Digests
        BY DEF Ids, Store!Digests
    <2>3. p \in Upload /\ Under(p, DOMAIN runs, blobs)
        BY <2>2, <1>i, PutBegins
    <2> HIDE DEF p
    <2>4. StoreTypes'
        BY <2>1, <2>3, <1>i DEF StoreTypes
    <2>5. StorePut' /\ StoreRefs'
        <3>1. Under(put', DOMAIN runs', blobs')
            BY <2>1, <2>3
        <3> QED BY <2>1, <3>1, <1>i DEF StorePut, StoreRefs, Announced
    <2>6. StoreLook'
        BY <2>1 DEF StoreLook
    <2> QED BY <2>4, <2>5, <2>6 DEF StoreInv
<1>16. CASE UNCHANGED storeVars
    <2>1. UNCHANGED <<owner, runs, rows, blobs, put, look>>
        BY <1>16 DEF storeVars
    <2>2. StoreTypes' /\ StorePut' /\ StoreRefs'
        BY <2>1, <1>i DEF StoreTypes, StorePut, StoreRefs, Announced
    <2>3. StoreLook'
        BY <2>1, <1>i, LookStays
    <2> QED BY <2>2, <2>3 DEF StoreInv
<1> QED BY <1>1, <1>2, <1>3, <1>4, <1>5, <1>6, <1>7, <1>8, <1>9, <1>10, <1>11, <1>12, <1>13, <1>14,
           <1>15, <1>16 DEF Store!Next

-----------------------------------------------------------------------------
\* The page of the Workbench.

States == {"running", "paused", "doubt", "over"}
Shot   == [revision : Nat, state : States]
View   == [run : Runs, revision : Nat, state : States]
Ledger == [run : Runs \cup {None}, cursor : Nat]
Job == [kind : {"open", "create", "watch", "resume", "resolve", "refresh"}, run : Runs, epoch : Nat,
        watcher : Nat \cup {None}, pc : {"get", "check", "post", "events", "connect", "stream", "delay"},
        answer : Nat \cup Shot \cup {None}, after : Nat, state : States,
        cursor : Nat, pipe : Seq(Nat), server : {"idle", "batch", "state", "closed"}]

PageTypes ==
    /\ hist \in [Runs -> Seq(Page!Types)]
    /\ epoch \in Nat /\ watchers \in Nat /\ watcher \in Nat \cup {None}
    /\ active \in [run : Runs, epoch : Nat] \cup {None}
    /\ view \in View \cup {None}
    /\ ledger \in Ledger
    /\ tasks \in [Tasks -> Job \cup {None}]

PageLedger ==
    /\ ~broken
    /\ active # None => /\ active.epoch = epoch
                        /\ ledger.run = active.run /\ ledger.cursor <= Len(hist[active.run])

\* What the pipe of a stream holds follows what the ledger has, without a gap,
\* and none of it is beyond the history.
Flowing(k, l, h) ==
    /\ k.cursor <= Len(h[k.run]) /\ Len(k.pipe) <= k.cursor
    /\ k.cursor - Len(k.pipe) <= l.cursor
    /\ \A i \in 1 .. Len(k.pipe) : k.pipe[i] = k.cursor - Len(k.pipe) + i

\* What a task of epoch e knows of its answer and, in the active view, of the
\* ledger and the history.
Serving(k, e, a, l, h) ==
    /\ k.epoch <= e
    /\ k.pc \in {"connect", "stream", "delay"} => k.answer = None
    /\ k.pc = "events" => k.answer \in Nat \cup {None}
    /\ k.pc \in {"get", "check", "post"} => k.answer \in Shot \cup {None}
    /\ a # None /\ k.epoch = a.epoch =>
          /\ k.run = a.run
          /\ k.pc = "events" => /\ k.after <= l.cursor
                                /\ k.answer # None => k.answer <= Len(h[k.run])
          /\ k.pc = "stream" => Flowing(k, l, h)

PageTasks == \A t \in Tasks : tasks[t] # None => Serving(tasks[t], epoch, active, ledger, hist)

PageInv == PageTypes /\ PageLedger /\ PageTasks

\* The page starts empty.
LEMMA PageInit == Page!Init => PageInv
<1> SUFFICES ASSUME Page!Init PROVE PageInv OBVIOUS
<1>1. ledger \in Ledger
    BY DEF Page!Init, Ledger
<1>2. hist \in [Runs -> Seq(Page!Types)]
    BY EmptySeq DEF Page!Init
<1> QED BY <1>1, <1>2 DEF Page!Init, PageInv, PageTypes, PageLedger, PageTasks

\* The property of the run, from the invariant.
LEMMA PageSafe == PageInv => Page!TimelineIsTheRuns
BY DEF PageInv, PageLedger, Page!TimelineIsTheRuns

\* The cardinalities of the library are those of the page.
LEMMA PageCounting == \A S : Page!Cardinality(S) = Cardinality(S)
BY DEF Cardinality, Page!Cardinality

\* What the server answers is a revision and a state.
LEMMA Projected ==
    ASSUME PageTypes, NEW r \in Runs
    PROVE  Page!Projection(r) \in Shot
<1> DEFINE S == Page!Commits(r)
<1>1. DOMAIN hist[r] = 1 .. Len(hist[r]) /\ Len(hist[r]) \in Nat
    BY LenProperties DEF PageTypes
<1>2. IsFiniteSet(1 .. Len(hist[r]))
    BY <1>1, FS_Interval
<1>3. IsFiniteSet(S)
    BY <1>1, <1>2, FS_Subset DEF Page!Commits
<1>4. Cardinality(S) \in Nat
    BY <1>3, FS_CardinalityType
<1>5. Page!Revision(r) \in Nat
    BY <1>4, PageCounting DEF Page!Revision
<1> QED BY <1>5 DEF Page!Projection, Shot, States

\* A task that serves the page has its run.
LEMMA ServedRun ==
    ASSUME PageInv, NEW t \in Tasks, tasks[t] # None, Page!Serves(tasks[t])
    PROVE  /\ tasks[t] \in Job /\ active # None /\ active \in [run : Runs, epoch : Nat]
           /\ tasks[t].epoch = active.epoch /\ tasks[t].run = active.run
           /\ ledger.run = tasks[t].run
           /\ Serving(tasks[t], epoch, active, ledger, hist)
BY DEF PageInv, PageTypes, PageLedger, PageTasks, Page!Serves, Serving

\* One task takes a step in a view that stays.
LEMMA TaskMoves ==
    ASSUME PageInv, NEW t \in Tasks, NEW k \in Job \cup {None}, tasks' = [tasks EXCEPT ![t] = k],
           UNCHANGED <<hist, epoch, active>>,
           k # None => Serving(k, epoch, active, ledger', hist),
           ledger' \in Ledger, ledger'.run = ledger.run, ledger'.cursor >= ledger.cursor,
           active # None => ledger'.cursor <= Len(hist[active.run]),
           broken' = broken, view' \in View \cup {None}, watchers' \in Nat, watcher' \in Nat \cup {None}
    PROVE  PageInv'
<1>i. PageTypes /\ PageLedger /\ PageTasks
    BY DEF PageInv
<1>1. PageTypes'
    BY <1>i DEF PageTypes
<1>2. PageLedger'
    BY <1>i DEF PageLedger
<1>3. ASSUME NEW s \in Tasks, tasks'[s] # None
      PROVE  Serving(tasks'[s], epoch, active, ledger', hist)
    <2>1. CASE s = t
        BY <2>1, <1>3, <1>i DEF PageTypes
    <2>2. CASE s # t
        <3>1. tasks'[s] = tasks[s] /\ Serving(tasks[s], epoch, active, ledger, hist)
            BY <2>2, <1>3, <1>i DEF PageTypes, PageTasks
        <3>2. tasks[s] \in Job
            BY <1>3, <3>1, <1>i DEF PageTypes
        <3>3. tasks[s].after \in Nat /\ tasks[s].cursor \in Nat /\ Len(tasks[s].pipe) \in Nat
            BY <3>2, LenProperties DEF Job
        <3>4. ledger.cursor \in Nat /\ ledger'.cursor \in Nat
            BY <1>i DEF PageTypes, Ledger
        <3>5. Flowing(tasks[s], ledger, hist) => Flowing(tasks[s], ledger', hist)
            BY <3>3, <3>4 DEF Flowing
        <3> QED BY <3>1, <3>3, <3>4, <3>5 DEF Serving
    <2> QED BY <2>1, <2>2
<1> QED BY <1>1, <1>2, <1>3 DEF PageInv, PageTasks

\* Events that follow what the ledger has, or repeat it, extend it without a
\* gap.
LEMMA Reduced ==
    ASSUME ledger \in Ledger, NEW run, ledger.run = run, NEW first \in Nat, NEW last \in Nat,
           first <= ledger.cursor + 1, Page!Reduce(run, first, last)
    PROVE  /\ broken' = broken /\ ledger' \in Ledger /\ ledger'.run = run
           /\ ledger'.cursor >= ledger.cursor /\ ledger'.cursor >= last
           /\ ledger'.cursor \in {ledger.cursor, last}
<1>1. ledger.cursor \in Nat
    BY DEF Ledger
<1>2. CASE last < first
    <2>1. UNCHANGED <<ledger, broken>>
        BY <1>2 DEF Page!Reduce
    <2> QED BY <2>1, <1>1, <1>2
<1>3. CASE ~(last < first)
    <2> DEFINE c == IF last > ledger.cursor THEN last ELSE ledger.cursor
    <2>1. ledger' = [ledger EXCEPT !.cursor = c] /\ broken' = broken
        BY <1>1, <1>3 DEF Page!Reduce
    <2>2. c \in Nat /\ c >= ledger.cursor /\ c >= last /\ c \in {ledger.cursor, last}
        BY <1>1
    <2> HIDE DEF c
    <2>3. ledger' \in Ledger /\ ledger'.run = ledger.run /\ ledger'.cursor = c
        BY <2>1, <2>2 DEF Ledger
    <2> QED BY <2>1, <2>2, <2>3
<1> QED BY <1>2, <1>3

\* A task that begins has nothing yet.
LEMMA Requested ==
    ASSUME NEW kind \in {"open", "create", "watch", "resume", "resolve", "refresh"}, NEW r \in Runs,
           NEW e \in Nat, NEW w \in Nat \cup {None}, NEW pc \in {"get", "post"}
    PROVE  /\ Page!Request(kind, r, e, w, pc) \in Job
           /\ Page!Request(kind, r, e, w, pc).run = r /\ Page!Request(kind, r, e, w, pc).epoch = e
           /\ Page!Request(kind, r, e, w, pc).pc = pc /\ Page!Request(kind, r, e, w, pc).answer = None
BY EmptySeq DEF Page!Request, Job, States

\* A task of the view that is left is of an earlier epoch.
LEMMA ViewLeft ==
    ASSUME PageInv, NEW r \in Runs, Page!Activate(r), NEW t \in Tasks, tasks[t] # None
    PROVE  Serving(tasks[t], epoch', active', ledger', hist)
<1>1. tasks[t] \in Job /\ Serving(tasks[t], epoch, active, ledger, hist) /\ epoch \in Nat
    BY DEF PageInv, PageTypes, PageTasks
<1>2. tasks[t].epoch \in Nat
    BY <1>1 DEF Job
<1>3. epoch' = epoch + 1 /\ active'.epoch = epoch + 1
    BY DEF Page!Activate
<1> QED BY <1>1, <1>2, <1>3 DEF Serving

\* A new view has a ledger of its own.
LEMMA Activated ==
    ASSUME PageInv, NEW r \in Runs, Page!Activate(r)
    PROVE  /\ epoch' = epoch + 1 /\ epoch' \in Nat
           /\ active' \in [run : Runs, epoch : Nat] /\ active'.run = r /\ active'.epoch = epoch'
           /\ ledger' \in Ledger /\ ledger'.run = r /\ ledger'.cursor = 0
BY DEF PageInv, PageTypes, Page!Activate, Ledger

\* No answer, cut or choice of the operator breaks it.
LEMMA PageStep == PageInv /\ [Page!Next]_pageVars => PageInv'
<1> SUFFICES ASSUME PageInv, [Page!Next]_pageVars PROVE PageInv'
    OBVIOUS
<1>i. PageTypes /\ PageLedger /\ PageTasks
    BY DEF PageInv
<1>t. /\ hist \in [Runs -> Seq(Page!Types)]
      /\ epoch \in Nat /\ watchers \in Nat /\ watcher \in Nat \cup {None}
      /\ active \in [run : Runs, epoch : Nat] \cup {None} /\ view \in View \cup {None}
      /\ ledger \in Ledger /\ tasks \in [Tasks -> Job \cup {None}]
    BY <1>i DEF PageTypes
<1>h. \A r \in Runs : Len(hist[r]) \in Nat
    BY <1>t, LenProperties
<1>l. /\ ledger.cursor \in Nat /\ ledger.cursor >= ledger.cursor
      /\ active # None => ledger.cursor <= Len(hist[active.run]) /\ active.run \in Runs
    BY <1>i, <1>t DEF Ledger, PageLedger
<1>n. \A t \in Tasks : tasks[t] # None => tasks[t] \in Job /\ Serving(tasks[t], epoch, active, ledger, hist)
    BY <1>i, <1>t DEF PageTasks
\* The history grows.
<1>1. ASSUME NEW r \in Runs, NEW type \in Page!Types, Page!Commit(r, type)
      PROVE  PageInv'
    <2>1. /\ hist' = [hist EXCEPT ![r] = Append(hist[r], type)]
          /\ UNCHANGED <<epoch, active, watcher, watchers, view, ledger, broken, tasks>>
        BY <1>1 DEF Page!Commit, Page!page
    <2>2. /\ Append(hist[r], type) \in Seq(Page!Types)
          /\ Len(Append(hist[r], type)) = Len(hist[r]) + 1
        BY <1>t, AppendProperties
    <2>3. /\ hist' \in [Runs -> Seq(Page!Types)]
          /\ \A q \in Runs : Len(hist'[q]) \in Nat /\ Len(hist'[q]) >= Len(hist[q])
        BY <2>1, <2>2, <1>t, <1>h
    <2>4. PageTypes'
        BY <2>1, <2>3, <1>i DEF PageTypes
    <2>5. PageLedger'
        BY <2>1, <2>3, <1>h, <1>l, <1>i DEF PageLedger
    <2>6. ASSUME NEW t \in Tasks, tasks[t] # None
          PROVE  Serving(tasks[t], epoch, active, ledger, hist')
        <3>1. tasks[t] \in Job /\ Serving(tasks[t], epoch, active, ledger, hist)
            BY <2>6, <1>n
        <3>2. /\ tasks[t].run \in Runs /\ tasks[t].cursor \in Nat
              /\ tasks[t].pc = "events" => tasks[t].answer \in Nat \cup {None}
            BY <3>1 DEF Job, Serving
        <3>3. Len(hist[tasks[t].run]) \in Nat /\ Len(hist'[tasks[t].run]) \in Nat
              /\ Len(hist'[tasks[t].run]) >= Len(hist[tasks[t].run])
            BY <3>2, <2>3, <1>h
        <3>4. Flowing(tasks[t], ledger, hist) => Flowing(tasks[t], ledger, hist')
            BY <3>2, <3>3 DEF Flowing
        <3> QED BY <3>1, <3>2, <3>3, <3>4 DEF Serving
    <2> QED BY <2>1, <2>4, <2>5, <2>6 DEF PageInv, PageTasks
\* The answers of the server.
<1>2. ASSUME NEW t \in Tasks, Page!AnswerProjection(t) PROVE PageInv'
    <2>1. PICK k \in Job : k = tasks[t] /\ Serving(k, epoch, active, ledger, hist)
        BY <1>2, <1>n DEF Page!AnswerProjection
    <2> DEFINE p == Page!Projection(k.run)
               q == [k EXCEPT !.answer = p]
    <2>2. /\ k.pc \in {"get", "check", "post"} /\ tasks' = [tasks EXCEPT ![t] = q]
          /\ UNCHANGED <<hist, epoch, active, watcher, watchers, view, ledger, broken>>
        BY <1>2, <2>1 DEF Page!AnswerProjection, Page!page
    <2>3. p \in Shot
        BY <1>i, Projected DEF Job
    <2> HIDE DEF p
    <2>4. q \in Job /\ q.pc = k.pc /\ q.epoch = k.epoch /\ q.run = k.run /\ q.answer = p
        BY <2>3 DEF Job
    <2> HIDE DEF q
    <2>5. Serving(q, epoch, active, ledger, hist)
        BY <2>1, <2>2, <2>3, <2>4 DEF Serving
    <2> QED BY <2>2, <2>4, <2>5, <1>t, <1>l, TaskMoves
<1>3. ASSUME NEW t \in Tasks, Page!AnswerEvents(t) PROVE PageInv'
    <2>1. PICK k \in Job : k = tasks[t] /\ Serving(k, epoch, active, ledger, hist)
        BY <1>3, <1>n DEF Page!AnswerEvents
    <2> DEFINE n == Len(hist[k.run])
               q == [k EXCEPT !.answer = n]
    <2>2. /\ k.pc = "events" /\ tasks' = [tasks EXCEPT ![t] = q]
          /\ UNCHANGED <<hist, epoch, active, watcher, watchers, view, ledger, broken>>
        BY <1>3, <2>1 DEF Page!AnswerEvents, Page!page
    <2>3. n \in Nat /\ n <= n
        BY <1>h DEF Job
    <2>4. /\ q \in Job /\ q.pc = k.pc /\ q.epoch = k.epoch /\ q.run = k.run /\ q.answer = n
          /\ q.after = k.after
        BY <2>3 DEF Job
    <2> HIDE DEF q
    <2>5. Serving(q, epoch, active, ledger, hist)
        BY <2>1, <2>2, <2>3, <2>4 DEF Serving
    <2> QED BY <2>2, <2>4, <2>5, <1>t, <1>l, TaskMoves
<1>4. ASSUME NEW t \in Tasks, Page!Drop(t) PROVE PageInv'
    <2>1. /\ tasks' = [tasks EXCEPT ![t] = None]
          /\ UNCHANGED <<hist, epoch, active, watcher, watchers, view, ledger, broken>>
        BY <1>4 DEF Page!Drop, Page!page, Page!Ended
    <2> QED BY <2>1, <1>t, <1>l, TaskMoves
\* The page takes them in.
<1>5. ASSUME NEW t \in Tasks, Page!ReceiveProjection(t) PROVE PageInv'
    <2>1. PICK k \in Job : k = tasks[t]
        BY <1>5, <1>n DEF Page!ReceiveProjection
    <2>2. /\ active # None /\ k.epoch = active.epoch /\ k.run = active.run /\ ledger.run = k.run
          /\ Serving(k, epoch, active, ledger, hist)
        BY <1>5, <2>1, ServedRun DEF Page!ReceiveProjection
    <2>3. /\ k.pc \in {"get", "check", "post"} /\ k.answer # None /\ k.answer \in Shot
          /\ view' = Page!Shown(k, k.answer)
          /\ UNCHANGED <<hist, epoch, active, watchers, ledger, broken>>
        BY <1>5, <2>1, <2>2 DEF Page!ReceiveProjection, Serving
    <2>4. view' \in View \cup {None}
        <3>1. /\ k.answer.revision \in Nat /\ k.answer.state \in States /\ k.run \in Runs
            BY <2>3 DEF Shot, Job
        <3>2. [run |-> k.run, revision |-> k.answer.revision, state |-> k.answer.state] \in View
            BY <3>1 DEF View
        <3> QED BY <3>2, <2>3, <1>t DEF Page!Shown
    <2>5. \/ Page!ToEvents(t, k) /\ UNCHANGED watcher
          \/ Page!StopWatch(t)
          \/ tasks' = [tasks EXCEPT ![t] = [k EXCEPT !.pc = "get", !.answer = None]] /\ UNCHANGED watcher
        BY <1>5, <2>1 DEF Page!ReceiveProjection
    <2>6. CASE Page!ToEvents(t, k) /\ UNCHANGED watcher
        <3> DEFINE s == IF k.kind \in {"open", "resume"} THEN k.answer.state ELSE k.state
                   q == [k EXCEPT !.pc = "events", !.answer = None, !.after = ledger.cursor, !.state = s]
        <3>1. s \in States
            BY <2>3 DEF Shot, Job
        <3>2. tasks' = [tasks EXCEPT ![t] = q]
            BY <2>6 DEF Page!ToEvents
        <3> HIDE DEF s
        <3>3. /\ q \in Job /\ q.pc = "events" /\ q.epoch = k.epoch /\ q.run = k.run /\ q.answer = None
              /\ q.after = ledger.cursor
            BY <3>1, <1>l DEF Job
        <3> HIDE DEF q
        <3>4. Serving(q, epoch, active, ledger, hist)
            BY <2>2, <3>3, <1>l DEF Serving
        <3> QED BY <2>3, <2>4, <2>6, <3>2, <3>3, <3>4, <1>t, <1>l, TaskMoves
    <2>7. CASE Page!StopWatch(t)
        <3>1. tasks' = [tasks EXCEPT ![t] = None] /\ watcher' = None
            BY <2>7 DEF Page!StopWatch, Page!Ended
        <3> QED BY <2>3, <2>4, <3>1, <1>t, <1>l, TaskMoves
    <2>8. CASE tasks' = [tasks EXCEPT ![t] = [k EXCEPT !.pc = "get", !.answer = None]] /\ UNCHANGED watcher
        <3> DEFINE q == [k EXCEPT !.pc = "get", !.answer = None]
        <3>1. q \in Job /\ q.pc = "get" /\ q.epoch = k.epoch /\ q.run = k.run /\ q.answer = None
            BY DEF Job
        <3> HIDE DEF q
        <3>2. Serving(q, epoch, active, ledger, hist)
            BY <2>2, <3>1 DEF Serving
        <3>3. tasks' = [tasks EXCEPT ![t] = q]
            BY <2>8 DEF q
        <3> QED BY <2>3, <2>4, <2>8, <3>1, <3>2, <3>3, <1>t, <1>l, TaskMoves
    <2> QED BY <2>5, <2>6, <2>7, <2>8
<1>6. ASSUME NEW t \in Tasks, Page!ReceiveEvents(t) PROVE PageInv'
    <2>1. PICK k \in Job : k = tasks[t]
        BY <1>6, <1>n DEF Page!ReceiveEvents
    <2>2. /\ active # None /\ k.epoch = active.epoch /\ k.run = active.run /\ ledger.run = k.run
          /\ Serving(k, epoch, active, ledger, hist)
        BY <1>6, <2>1, ServedRun DEF Page!ReceiveEvents
    <2>3. /\ k.pc = "events" /\ k.answer # None /\ k.answer \in Nat /\ k.after \in Nat
          /\ k.after <= ledger.cursor /\ k.answer <= Len(hist[active.run])
          /\ Page!Reduce(k.run, k.after + 1, k.answer)
          /\ UNCHANGED <<hist, epoch, active, view>>
        BY <1>6, <2>1, <2>2 DEF Page!ReceiveEvents, Serving, Job
    <2>4. /\ broken' = broken /\ ledger' \in Ledger /\ ledger'.run = ledger.run
          /\ ledger'.cursor >= ledger.cursor /\ ledger'.cursor \in {ledger.cursor, k.answer}
        <3>1. k.after + 1 \in Nat /\ k.after + 1 <= ledger.cursor + 1
            BY <2>3, <1>l
        <3> QED BY <3>1, <2>2, <2>3, <1>t, Reduced
    <2>5. ledger'.cursor <= Len(hist[active.run])
        BY <2>2, <2>3, <2>4, <1>l
    <2>6. \/ /\ tasks' = [tasks EXCEPT ![t] = [k EXCEPT !.pc = "connect", !.answer = None, !.after = 0]]
             /\ UNCHANGED <<watcher, watchers>>
          \/ Page!StopWatch(t) /\ UNCHANGED watchers
          \/ Page!StartWatch(t, k)
          \/ tasks' = Page!Ended(t) /\ UNCHANGED <<watcher, watchers>>
        BY <1>6, <2>1 DEF Page!ReceiveEvents
    <2>7. CASE /\ tasks' = [tasks EXCEPT ![t] = [k EXCEPT !.pc = "connect", !.answer = None, !.after = 0]]
               /\ UNCHANGED <<watcher, watchers>>
        <3> DEFINE q == [k EXCEPT !.pc = "connect", !.answer = None, !.after = 0]
        <3>1. q \in Job /\ q.pc = "connect" /\ q.epoch = k.epoch /\ q.run = k.run /\ q.answer = None
            BY DEF Job
        <3> HIDE DEF q
        <3>2. Serving(q, epoch, active, ledger', hist)
            BY <2>2, <3>1 DEF Serving
        <3>3. tasks' = [tasks EXCEPT ![t] = q]
            BY <2>7 DEF q
        <3> QED BY <2>3, <2>4, <2>5, <2>7, <3>1, <3>2, <3>3, <1>t, TaskMoves
    <2>8. CASE Page!StopWatch(t) /\ UNCHANGED watchers
        <3>1. tasks' = [tasks EXCEPT ![t] = None] /\ watcher' = None
            BY <2>8 DEF Page!StopWatch, Page!Ended
        <3> QED BY <2>3, <2>4, <2>5, <2>8, <3>1, <1>t, TaskMoves
    <2>9. CASE Page!StartWatch(t, k)
        <3> DEFINE q == Page!Request("watch", k.run, k.epoch, watchers + 1, "get")
        <3>1. tasks' = [tasks EXCEPT ![t] = q] /\ watchers' = watchers + 1 /\ watcher' = watchers + 1
            BY <2>9 DEF Page!StartWatch
        <3>2. k.run \in Runs /\ k.epoch \in Nat /\ watchers + 1 \in Nat
            BY <1>t DEF Job
        <3>3. q \in Job /\ q.pc = "get" /\ q.epoch = k.epoch /\ q.run = k.run /\ q.answer = None
            BY <3>2, Requested
        <3> HIDE DEF q
        <3>4. Serving(q, epoch, active, ledger', hist)
            BY <2>2, <3>3 DEF Serving
        <3>5. watchers' \in Nat /\ watcher' \in Nat \cup {None} /\ view' \in View \cup {None}
            BY <2>3, <3>1, <3>2, <1>t
        <3> QED BY <2>3, <2>4, <2>5, <3>1, <3>3, <3>4, <3>5, <1>t, TaskMoves
    <2>10. CASE tasks' = Page!Ended(t) /\ UNCHANGED <<watcher, watchers>>
        <3>1. tasks' = [tasks EXCEPT ![t] = None]
            BY <2>10 DEF Page!Ended
        <3> QED BY <2>3, <2>4, <2>5, <2>10, <3>1, <1>t, TaskMoves
    <2> QED BY <2>6, <2>7, <2>8, <2>9, <2>10
\* A request fails, and a watcher starts over.
<1>7. ASSUME NEW t \in Tasks, Page!Fail(t) PROVE PageInv'
    <2>1. PICK k \in Job : k = tasks[t] /\ Serving(k, epoch, active, ledger, hist)
        BY <1>7, <1>n DEF Page!Fail
    <2>2. k.answer = None /\ UNCHANGED <<hist, epoch, active, watcher, watchers, view, ledger, broken>>
        BY <1>7, <2>1 DEF Page!Fail, Page!page
    <2> DEFINE q == [k EXCEPT !.pc = "delay", !.after = 0]
               g == Page!Request("refresh", k.run, k.epoch, None, "get")
    <2>3. tasks' \in {[tasks EXCEPT ![t] = q], [tasks EXCEPT ![t] = g], [tasks EXCEPT ![t] = None]}
        <3>1. [tasks EXCEPT ![t].pc = "delay", ![t].after = 0] = [tasks EXCEPT ![t] = q]
            BY <2>1, <1>t
        <3>2. \/ tasks' = [tasks EXCEPT ![t].pc = "delay", ![t].after = 0]
              \/ tasks' = [tasks EXCEPT ![t] = g]
              \/ tasks' = Page!Ended(t)
            BY <1>7, <2>1 DEF Page!Fail
        <3> QED BY <3>1, <3>2 DEF Page!Ended
    <2>4. /\ q \in Job /\ q.pc = "delay" /\ q.epoch = k.epoch /\ q.run = k.run /\ q.answer = None
          /\ g \in Job /\ g.pc = "get" /\ g.epoch = k.epoch /\ g.run = k.run /\ g.answer = None
        <3>1. k.run \in Runs /\ k.epoch \in Nat
            BY DEF Job
        <3>2. /\ g \in Job /\ g.pc = "get" /\ g.epoch = k.epoch /\ g.run = k.run
              /\ g.answer = None
            BY <3>1, EmptySeq DEF Page!Request, Job, States
        <3> HIDE DEF g
        <3> QED BY <2>2, <3>2 DEF Job
    <2> HIDE DEF q, g
    <2>5. Serving(q, epoch, active, ledger, hist) /\ Serving(g, epoch, active, ledger, hist)
        BY <2>1, <2>4 DEF Serving
    <2>6. CASE tasks' = [tasks EXCEPT ![t] = q]
        BY <2>2, <2>4, <2>5, <2>6, <1>t, <1>l, TaskMoves
    <2>7. CASE tasks' = [tasks EXCEPT ![t] = g]
        BY <2>2, <2>4, <2>5, <2>7, <1>t, <1>l, TaskMoves
    <2>8. CASE tasks' = [tasks EXCEPT ![t] = None]
        BY <2>2, <2>8, <1>t, <1>l, TaskMoves
    <2> QED BY <2>3, <2>6, <2>7, <2>8
<1>8. ASSUME NEW t \in Tasks, Page!DelayEnds(t) PROVE PageInv'
    <2>1. PICK k \in Job : k = tasks[t] /\ Serving(k, epoch, active, ledger, hist)
        BY <1>8, <1>n DEF Page!DelayEnds
    <2> DEFINE q == [k EXCEPT !.pc = "get"]
    <2>2. /\ k.pc = "delay" /\ tasks' = [tasks EXCEPT ![t] = q]
          /\ UNCHANGED <<hist, epoch, active, watcher, watchers, view, ledger, broken>>
        BY <1>8, <2>1 DEF Page!DelayEnds, Page!page
    <2>3. q \in Job /\ q.pc = "get" /\ q.epoch = k.epoch /\ q.run = k.run /\ q.answer = k.answer
        BY DEF Job
    <2> HIDE DEF q
    <2>4. Serving(q, epoch, active, ledger, hist)
        BY <2>1, <2>2, <2>3 DEF Serving
    <2> QED BY <2>2, <2>3, <2>4, <1>t, <1>l, TaskMoves
\* The event stream.
<1>s. ASSUME NEW t \in Tasks, Page!Stream(t)
      PROVE  \E k \in Job : /\ k = tasks[t] /\ k.pc = "stream" /\ k.answer = None
                            /\ active # None /\ k.epoch = active.epoch /\ k.run = active.run
                            /\ ledger.run = k.run /\ k.epoch <= epoch /\ Flowing(k, ledger, hist)
    BY <1>s, ServedRun DEF Page!Stream, Serving
<1>9. ASSUME NEW t \in Tasks, Page!Connect(t) PROVE PageInv'
    <2>1. PICK k \in Job : k = tasks[t]
        BY <1>9, <1>n DEF Page!Connect
    <2>2. /\ active # None /\ k.epoch = active.epoch /\ k.run = active.run /\ ledger.run = k.run
          /\ Serving(k, epoch, active, ledger, hist)
        BY <1>9, <2>1, ServedRun DEF Page!Connect
    <2> DEFINE q == [k EXCEPT !.pc = "stream", !.cursor = ledger.cursor, !.pipe = <<>>, !.server = "batch"]
    <2>3. /\ k.pc = "connect" /\ tasks' = [tasks EXCEPT ![t] = q]
          /\ UNCHANGED <<hist, epoch, active, watcher, watchers, view, ledger, broken>>
        BY <1>9, <2>1 DEF Page!Connect, Page!page
    <2>4. <<>> \in Seq(Nat) /\ Len(<<>>) = 0
        BY EmptySeq
    <2>5. /\ q \in Job /\ q.pc = "stream" /\ q.epoch = k.epoch /\ q.run = k.run /\ q.answer = k.answer
          /\ q.cursor = ledger.cursor /\ q.pipe = <<>>
        BY <2>4, <1>l DEF Job
    <2> HIDE DEF q
    <2>6. Flowing(q, ledger, hist)
        BY <2>2, <2>4, <2>5, <1>l DEF Flowing
    <2>7. Serving(q, epoch, active, ledger, hist)
        BY <2>2, <2>3, <2>5, <2>6 DEF Serving
    <2> QED BY <2>3, <2>5, <2>7, <1>t, <1>l, TaskMoves
<1>10. ASSUME NEW t \in Tasks, Page!SendBatch(t) PROVE PageInv'
    <2>1. PICK k \in Job : /\ k = tasks[t] /\ k.pc = "stream" /\ k.answer = None
                           /\ active # None /\ k.epoch = active.epoch /\ k.run = active.run
                           /\ ledger.run = k.run /\ k.epoch <= epoch /\ Flowing(k, ledger, hist)
        BY <1>10, <1>s DEF Page!SendBatch
    <2>2. PICK last \in Nat : last = Len(hist[k.run])
        BY <1>h DEF Job
    <2> DEFINE batch == [i \in 1 .. last - k.cursor |-> k.cursor + i]
               pipe == k.pipe \o batch
               server == IF last > k.cursor /\ hist[k.run][last] \in {"over", "doubt"}
                         THEN "closed" ELSE "state"
               q == [k EXCEPT !.pipe = pipe, !.cursor = last, !.server = server]
    <2>3. /\ tasks' = [tasks EXCEPT ![t] = q]
          /\ UNCHANGED <<hist, epoch, active, watcher, watchers, view, ledger, broken>>
        BY <1>10, <2>1, <2>2 DEF Page!SendBatch, Page!page
    <2>4. /\ k.cursor \in Nat /\ k.cursor <= last /\ k.pipe \in Seq(Nat) /\ Len(k.pipe) \in Nat
          /\ Len(k.pipe) <= k.cursor /\ k.cursor - Len(k.pipe) <= ledger.cursor
          /\ \A i \in 1 .. Len(k.pipe) : k.pipe[i] = k.cursor - Len(k.pipe) + i
        BY <2>1, <2>2, LenProperties DEF Job, Flowing
    <2>5. /\ batch \in Seq(Nat) /\ Len(batch) = last - k.cursor
          /\ \A i \in 1 .. last - k.cursor : batch[i] = k.cursor + i
        <3>1. last - k.cursor \in Nat /\ \A i \in 1 .. last - k.cursor : k.cursor + i \in Nat
            BY <2>4
        <3> QED BY <3>1
    <2> HIDE DEF batch
    <2>6. /\ pipe \in Seq(Nat) /\ Len(pipe) = Len(k.pipe) + (last - k.cursor)
          /\ \A i \in 1 .. Len(k.pipe) + (last - k.cursor) :
                pipe[i] = IF i <= Len(k.pipe) THEN k.pipe[i] ELSE batch[i - Len(k.pipe)]
        <3>1. k.pipe \in Seq(Nat) /\ batch \in Seq(Nat)
            BY <2>4, <2>5
        <3>2. /\ k.pipe \o batch \in Seq(Nat) /\ Len(k.pipe \o batch) = Len(k.pipe) + Len(batch)
              /\ \A i \in 1 .. Len(k.pipe) + Len(batch) :
                    (k.pipe \o batch)[i] = IF i <= Len(k.pipe) THEN k.pipe[i] ELSE batch[i - Len(k.pipe)]
            BY <3>1, ConcatProperties
        <3>3. Len(batch) = last - k.cursor
            BY <2>5
        <3> QED BY <3>2, <3>3
    <2> HIDE DEF pipe
    <2>7. server \in {"closed", "state"}
        OBVIOUS
    <2> HIDE DEF server
    <2>8. /\ q \in Job /\ q.pc = "stream" /\ q.epoch = k.epoch /\ q.run = k.run /\ q.answer = None
          /\ q.cursor = last /\ q.pipe = pipe
        BY <2>1, <2>6, <2>7, ZenonT(60) DEF Job
    <2> HIDE DEF q
    <2>9. \A i \in 1 .. Len(pipe) : pipe[i] = last - Len(pipe) + i
        <3> SUFFICES ASSUME NEW i \in 1 .. Len(k.pipe) + (last - k.cursor)
                     PROVE  pipe[i] = last - (Len(k.pipe) + (last - k.cursor)) + i
            BY <2>6
        <3>1. last - (Len(k.pipe) + (last - k.cursor)) + i = k.cursor - Len(k.pipe) + i
            BY <2>4
        <3>2. CASE i <= Len(k.pipe)
            <4>1. i \in 1 .. Len(k.pipe)
                BY <3>2, <2>4
            <4> QED BY <4>1, <3>1, <3>2, <2>4, <2>6
        <3>3. CASE ~(i <= Len(k.pipe))
            <4>1. i - Len(k.pipe) \in 1 .. last - k.cursor /\ k.cursor + (i - Len(k.pipe)) = k.cursor - Len(k.pipe) + i
                BY <3>3, <2>4
            <4> QED BY <4>1, <3>1, <3>3, <2>5, <2>6
        <3> QED BY <3>2, <3>3
    <2>10. Len(pipe) \in Nat /\ Len(pipe) <= last /\ last - Len(pipe) <= ledger.cursor /\ last <= last
        BY <2>4, <2>6, <1>l
    <2>11. Flowing(q, ledger, hist)
        BY <2>2, <2>8, <2>9, <2>10 DEF Flowing
    <2>12. Serving(q, epoch, active, ledger, hist)
        BY <2>1, <2>8, <2>11 DEF Serving
    <2> QED BY <2>3, <2>8, <2>12, <1>t, <1>l, TaskMoves
<1>11. ASSUME NEW t \in Tasks, Page!CheckState(t) PROVE PageInv'
    <2>1. PICK k \in Job : /\ k = tasks[t] /\ k.pc = "stream" /\ k.answer = None
                           /\ active # None /\ k.epoch = active.epoch /\ k.run = active.run
                           /\ ledger.run = k.run /\ k.epoch <= epoch /\ Flowing(k, ledger, hist)
        BY <1>11, <1>s DEF Page!CheckState
    <2>2. PICK s \in {"batch", "closed"} : tasks' = [tasks EXCEPT ![t].server = s]
        BY <1>11 DEF Page!CheckState
    <2>3. UNCHANGED <<hist, epoch, active, watcher, watchers, view, ledger, broken>>
        BY <1>11 DEF Page!CheckState, Page!page
    <2> DEFINE q == [k EXCEPT !.server = s]
    <2>4. tasks' = [tasks EXCEPT ![t] = q]
        BY <2>1, <2>2
    <2>5. /\ q \in Job /\ q.pc = "stream" /\ q.epoch = k.epoch /\ q.run = k.run /\ q.answer = None
          /\ q.cursor = k.cursor /\ q.pipe = k.pipe
        BY <2>1 DEF Job
    <2> HIDE DEF q
    <2>6. Flowing(q, ledger, hist)
        BY <2>1, <2>5 DEF Flowing
    <2>7. Serving(q, epoch, active, ledger, hist)
        BY <2>1, <2>5, <2>6 DEF Serving
    <2> QED BY <2>3, <2>4, <2>5, <2>7, <1>t, <1>l, TaskMoves
<1>12. ASSUME NEW t \in Tasks, Page!Cut(t) PROVE PageInv'
    <2>1. PICK k \in Job : /\ k = tasks[t] /\ k.pc = "stream" /\ k.answer = None
                           /\ active # None /\ k.epoch = active.epoch /\ k.run = active.run
                           /\ ledger.run = k.run /\ k.epoch <= epoch /\ Flowing(k, ledger, hist)
        BY <1>12, <1>s DEF Page!Cut
    <2> DEFINE q == [k EXCEPT !.pc = "delay", !.pipe = <<>>, !.cursor = 0, !.server = "idle"]
    <2>2. /\ \/ tasks' = [tasks EXCEPT ![t] = q] /\ UNCHANGED watcher
             \/ tasks' = [tasks EXCEPT ![t] = None] /\ watcher' = None
          /\ UNCHANGED <<hist, epoch, active, watchers, view, ledger, broken>>
        BY <1>12, <2>1 DEF Page!Cut, Page!StopWatch, Page!Ended
    <2>3. <<>> \in Seq(Nat)
        BY EmptySeq
    <2>4. q \in Job /\ q.pc = "delay" /\ q.epoch = k.epoch /\ q.run = k.run /\ q.answer = None
        BY <2>1, <2>3 DEF Job
    <2> HIDE DEF q
    <2>5. Serving(q, epoch, active, ledger, hist)
        BY <2>1, <2>4 DEF Serving
    <2>6. CASE tasks' = [tasks EXCEPT ![t] = q] /\ UNCHANGED watcher
        BY <2>2, <2>4, <2>5, <2>6, <1>t, <1>l, TaskMoves
    <2>7. CASE tasks' = [tasks EXCEPT ![t] = None] /\ watcher' = None
        BY <2>2, <2>7, <1>t, <1>l, TaskMoves
    <2> QED BY <2>2, <2>6, <2>7
<1>13. ASSUME NEW t \in Tasks, Page!ReadFrame(t) PROVE PageInv'
    <2>1. PICK k \in Job : /\ k = tasks[t] /\ k.pc = "stream" /\ k.answer = None
                           /\ active # None /\ k.epoch = active.epoch /\ k.run = active.run
                           /\ ledger.run = k.run /\ k.epoch <= epoch /\ Flowing(k, ledger, hist)
        BY <1>13, <1>s DEF Page!ReadFrame
    <2>2. /\ k.pipe # <<>> /\ Page!Reduce(k.run, Head(k.pipe), Head(k.pipe))
          /\ tasks' = [tasks EXCEPT ![t].pipe = Tail(k.pipe)]
          /\ UNCHANGED <<hist, epoch, active, watcher, watchers, view>>
        BY <1>13, <2>1, <1>t DEF Page!ReadFrame
    <2>3. /\ k.pipe \in Seq(Nat) /\ Len(k.pipe) \in Nat \ {0} /\ k.cursor \in Nat
          /\ k.cursor <= Len(hist[k.run]) /\ Len(hist[k.run]) \in Nat
          /\ Len(k.pipe) <= k.cursor /\ k.cursor - Len(k.pipe) <= ledger.cursor
          /\ \A i \in 1 .. Len(k.pipe) : k.pipe[i] = k.cursor - Len(k.pipe) + i
        BY <2>1, <2>2, <1>h, EmptySeq DEF Job, Flowing
    <2> DEFINE rest == Tail(k.pipe)
               q == [k EXCEPT !.pipe = rest]
    <2>4. /\ rest \in Seq(Nat) /\ Len(rest) = Len(k.pipe) - 1
          /\ \A i \in 1 .. Len(k.pipe) - 1 : rest[i] = k.pipe[i + 1]
          /\ Head(k.pipe) = k.pipe[1]
        BY <2>2, <2>3, HeadTailProperties
    <2>5. tasks' = [tasks EXCEPT ![t] = q]
        BY <2>1, <2>2
    <2> HIDE DEF rest
    <2>6. /\ q \in Job /\ q.pc = "stream" /\ q.epoch = k.epoch /\ q.run = k.run /\ q.answer = None
          /\ q.cursor = k.cursor /\ q.pipe = rest
        BY <2>1, <2>4 DEF Job
    <2> HIDE DEF q
    <2>7. PICK n \in Nat : n = Head(k.pipe) /\ n = k.cursor - Len(k.pipe) + 1
        <3>1. 1 \in 1 .. Len(k.pipe) /\ k.cursor - Len(k.pipe) + 1 \in Nat
            BY <2>3
        <3> QED BY <3>1, <2>3, <2>4
    <2>8. /\ broken' = broken /\ ledger' \in Ledger /\ ledger'.run = ledger.run
          /\ ledger'.cursor >= ledger.cursor /\ ledger'.cursor >= n /\ ledger'.cursor \in {ledger.cursor, n}
        <3>1. n <= ledger.cursor + 1
            BY <2>3, <2>7, <1>l
        <3> QED BY <3>1, <2>1, <2>2, <2>7, <1>t, Reduced
    <2>9. ledger'.cursor <= Len(hist[active.run])
        <3>1. n <= Len(hist[k.run])
            BY <2>3, <2>7
        <3> QED BY <3>1, <2>1, <2>8, <1>l
    <2>10. \A i \in 1 .. Len(rest) : rest[i] = k.cursor - Len(rest) + i
        <3> SUFFICES ASSUME NEW i \in 1 .. Len(k.pipe) - 1
                     PROVE  rest[i] = k.cursor - (Len(k.pipe) - 1) + i
            BY <2>4
        <3>1. i + 1 \in 1 .. Len(k.pipe) /\ k.cursor - Len(k.pipe) + (i + 1) = k.cursor - (Len(k.pipe) - 1) + i
            BY <2>3
        <3> QED BY <3>1, <2>3, <2>4
    <2>11. Flowing(q, ledger', hist)
        <3>1. ledger'.cursor \in Nat
            BY <2>8 DEF Ledger
        <3>2. Len(rest) <= k.cursor /\ k.cursor - Len(rest) <= ledger'.cursor
            BY <3>1, <2>3, <2>4, <2>7, <2>8
        <3> QED BY <3>2, <2>3, <2>6, <2>10 DEF Flowing
    <2>12. Serving(q, epoch, active, ledger', hist)
        BY <2>1, <2>6, <2>11 DEF Serving
    <2> QED BY <2>2, <2>5, <2>6, <2>8, <2>9, <2>12, <1>t, TaskMoves
<1>14. ASSUME NEW t \in Tasks, Page!EndOfStream(t) PROVE PageInv'
    <2>1. PICK k \in Job : /\ k = tasks[t] /\ k.pc = "stream" /\ k.answer = None
                           /\ active # None /\ k.epoch = active.epoch /\ k.run = active.run
                           /\ ledger.run = k.run /\ k.epoch <= epoch /\ Flowing(k, ledger, hist)
        BY <1>14, <1>s DEF Page!EndOfStream
    <2> DEFINE q == [k EXCEPT !.pc = "check", !.server = "idle", !.cursor = 0]
    <2>2. /\ tasks' = [tasks EXCEPT ![t] = q]
          /\ UNCHANGED <<hist, epoch, active, watcher, watchers, view, ledger, broken>>
        BY <1>14, <2>1 DEF Page!EndOfStream, Page!page
    <2>3. q \in Job /\ q.pc = "check" /\ q.epoch = k.epoch /\ q.run = k.run /\ q.answer = None
        BY <2>1 DEF Job
    <2> HIDE DEF q
    <2>4. Serving(q, epoch, active, ledger, hist)
        BY <2>1, <2>3 DEF Serving
    <2> QED BY <2>2, <2>3, <2>4, <1>t, <1>l, TaskMoves
\* The operator opens, creates and acts on runs.
<1>f. Page!Free # {} => Page!First \in Tasks
    BY DEF Page!First, Page!Free
<1>15. ASSUME NEW r \in Runs, Page!OpenRun(r) PROVE PageInv'
    <2> DEFINE t == Page!First
               k == Page!Request("open", r, epoch + 1, None, "get")
    <2>1. /\ Page!Activate(r) /\ watcher' = None /\ t \in Tasks /\ tasks' = [tasks EXCEPT ![t] = k]
          /\ UNCHANGED <<hist, watchers, view, broken>>
        BY <1>15, <1>f DEF Page!OpenRun
    <2>2. /\ epoch' = epoch + 1 /\ epoch' \in Nat
          /\ active' \in [run : Runs, epoch : Nat] /\ active'.run = r /\ active'.epoch = epoch'
          /\ ledger' \in Ledger /\ ledger'.run = r /\ ledger'.cursor = 0
        BY <2>1, Activated
    <2>3. k \in Job /\ k.run = r /\ k.epoch = epoch' /\ k.pc = "get" /\ k.answer = None
        <3>1. epoch + 1 \in Nat /\ None \in Nat \cup {None}
            BY <2>2
        <3>2. "open" \in {"open", "create", "watch", "resume", "resolve", "refresh"} /\ "get" \in {"get", "post"}
            OBVIOUS
        <3> HIDE DEF t
        <3>3. k \in Job /\ k.run = r /\ k.epoch = epoch + 1 /\ k.pc = "get" /\ k.answer = None
            BY <3>1, <3>2, EmptySeq DEF Page!Request, Job, States
        <3> QED BY <2>2, <3>3
    <2> HIDE DEF t, k
    <2>4. \A s \in Tasks : tasks'[s] = IF s = t THEN k ELSE tasks[s]
        BY <2>1, <1>t
    <2>5. PageTypes'
        BY <2>1, <2>2, <2>3, <1>t DEF PageTypes
    <2>6. PageLedger'
        BY <2>1, <2>2, <1>h, <1>i DEF PageLedger
    <2>7. Serving(k, epoch', active', ledger', hist)
        BY <2>2, <2>3 DEF Serving
    <2>8. PageTasks'
        <3> SUFFICES ASSUME NEW s \in Tasks, tasks'[s] # None
                     PROVE  Serving(tasks'[s], epoch', active', ledger', hist)
            BY <2>1 DEF PageTasks
        <3> QED BY <2>1, <2>4, <2>7, ViewLeft
    <2> QED BY <2>5, <2>6, <2>8 DEF PageInv
<1>16. ASSUME NEW r \in Runs, Page!CreateRun(r) PROVE PageInv'
    <2> DEFINE t == Page!First
               k == Page!Request("create", r, epoch + 1, None, "post")
               w == Page!Request("watch", r, epoch + 1, watchers + 1, "get")
    <2>1. PICK u \in Tasks : tasks' = [tasks EXCEPT ![t] = k, ![u] = w] /\ t \in Tasks
        BY <1>16, <1>f DEF Page!CreateRun, Page!Free
    <2>2. /\ Page!Activate(r) /\ watcher' = watchers + 1 /\ watchers' = watchers + 1
          /\ view' = [run |-> r, revision |-> 0, state |-> "running"]
          /\ UNCHANGED <<hist, broken>>
        BY <1>16 DEF Page!CreateRun
    <2>3. /\ epoch' = epoch + 1 /\ epoch' \in Nat
          /\ active' \in [run : Runs, epoch : Nat] /\ active'.run = r /\ active'.epoch = epoch'
          /\ ledger' \in Ledger /\ ledger'.run = r /\ ledger'.cursor = 0
        BY <2>2, Activated
    <2>4. /\ k \in Job /\ k.run = r /\ k.epoch = epoch' /\ k.pc = "post" /\ k.answer = None
          /\ w \in Job /\ w.run = r /\ w.epoch = epoch' /\ w.pc = "get" /\ w.answer = None
        <3>1. epoch + 1 \in Nat /\ watchers + 1 \in Nat \cup {None} /\ None \in Nat \cup {None}
            BY <2>3, <1>t
        <3>2. /\ "create" \in {"open", "create", "watch", "resume", "resolve", "refresh"}
              /\ "watch" \in {"open", "create", "watch", "resume", "resolve", "refresh"}
              /\ "post" \in {"get", "post"} /\ "get" \in {"get", "post"}
            OBVIOUS
        <3>3. k \in Job /\ k.run = r /\ k.epoch = epoch + 1 /\ k.pc = "post" /\ k.answer = None
            BY <3>1, <3>2, EmptySeq DEF Page!Request, Job, States
        <3>4. w \in Job /\ w.run = r /\ w.epoch = epoch + 1 /\ w.pc = "get" /\ w.answer = None
            BY <3>1, <3>2, EmptySeq DEF Page!Request, Job, States
        <3> HIDE DEF k, w
        <3> QED BY <2>3, <3>3, <3>4
    <2>5. view' \in View /\ watchers + 1 \in Nat
        BY <2>2, <1>t DEF View, States
    <2> HIDE DEF t, k, w
    <2>6. /\ \A s \in Tasks : tasks'[s] \in {k, w, tasks[s]}
          /\ tasks' \in [Tasks -> Job \cup {None}]
        BY <2>1, <2>4, <1>t
    <2>7. PageTypes'
        BY <2>2, <2>3, <2>5, <2>6, <1>t DEF PageTypes
    <2>8. PageLedger'
        BY <2>2, <2>3, <1>h, <1>i DEF PageLedger
    <2>9. Serving(k, epoch', active', ledger', hist) /\ Serving(w, epoch', active', ledger', hist)
        BY <2>3, <2>4 DEF Serving
    <2>10. PageTasks'
        <3> SUFFICES ASSUME NEW s \in Tasks, tasks'[s] # None
                     PROVE  Serving(tasks'[s], epoch', active', ledger', hist)
            BY <2>2 DEF PageTasks
        <3> QED BY <2>2, <2>6, <2>9, ViewLeft
    <2> QED BY <2>7, <2>8, <2>10 DEF PageInv
<1>17. ASSUME NEW kind \in {"resume", "resolve"}, Page!Mutate(kind) PROVE PageInv'
    <2> DEFINE t == Page!First
               k == Page!Request(kind, active.run, active.epoch, None, "post")
    <2>1. /\ active # None /\ watcher' = None /\ t \in Tasks /\ tasks' = [tasks EXCEPT ![t] = k]
          /\ UNCHANGED <<hist, epoch, active, watchers, view, ledger, broken>>
        BY <1>17, <1>f DEF Page!Mutate
    <2>2. active.run \in Runs /\ active.epoch \in Nat /\ active.epoch = epoch
        BY <2>1, <1>t, <1>i DEF PageLedger
    <2>3. k \in Job /\ k.run = active.run /\ k.epoch = active.epoch /\ k.pc = "post" /\ k.answer = None
        <3>1. None \in Nat \cup {None} /\ "post" \in {"get", "post"}
            OBVIOUS
        <3>2. kind \in {"open", "create", "watch", "resume", "resolve", "refresh"}
            OBVIOUS
        <3> QED BY <3>1, <3>2, <2>2, EmptySeq DEF Page!Request, Job, States
    <2> HIDE DEF t, k
    <2>4. Serving(k, epoch, active, ledger, hist)
        BY <2>2, <2>3, <1>t DEF Serving
    <2> QED BY <2>1, <2>3, <2>4, <1>t, <1>l, TaskMoves
<1>18. CASE UNCHANGED pageVars
    <2>1. UNCHANGED <<hist, epoch, active, watcher, watchers, view, ledger, tasks, broken>>
        BY <1>18 DEF pageVars
    <2> QED BY <2>1, <1>i DEF PageInv, PageTypes, PageLedger, PageTasks
<1> QED BY <1>1, <1>2, <1>3, <1>4, <1>5, <1>6, <1>7, <1>8, <1>9, <1>10, <1>11, <1>12, <1>13, <1>14,
           <1>15, <1>16, <1>17, <1>18 DEF Page!Next

\* As long as a run stays selected, no answer takes its view back.
LEMMA PageForward ==
    ASSUME PageInv, [Page!Next]_pageVars, view # None, active # None, active' = active,
           view.run = active.run
    PROVE  view'.run = view.run /\ view'.revision >= view.revision
<1>i. PageTypes /\ PageLedger /\ PageTasks
    BY DEF PageInv
<1>1. view \in View /\ view.revision \in Nat
    BY <1>i DEF PageTypes, View
<1>2. CASE view' = view
    BY <1>1, <1>2
<1>3. ASSUME NEW t \in Tasks, Page!ReceiveProjection(t)
      PROVE  view'.run = view.run /\ view'.revision >= view.revision
    <2>1. PICK k \in Job : k = tasks[t] /\ k.run = active.run
        BY <1>3, ServedRun DEF Page!ReceiveProjection
    <2>2. view' = IF Page!Newer(k, k.answer)
                  THEN [run |-> k.run, revision |-> k.answer.revision, state |-> k.answer.state] ELSE view
        BY <1>3, <2>1 DEF Page!ReceiveProjection, Page!Shown
    <2>3. Page!Newer(k, k.answer) => k.answer.revision >= view.revision
        BY <2>1 DEF Page!Newer
    <2> QED BY <1>1, <2>1, <2>2, <2>3
<1>4. ASSUME NEW r \in Runs, Page!Activate(r) PROVE FALSE
    <2>1. active.epoch = epoch /\ epoch \in Nat /\ active'.epoch = epoch + 1
        BY <1>4, <1>i, SMTT(30) DEF PageTypes, PageLedger, Page!Activate
    <2> QED BY <2>1
<1>5. \/ view' = view
      \/ \E t \in Tasks : Page!ReceiveProjection(t)
      \/ \E r \in Runs : Page!Activate(r)
    BY DEF Page!Next, pageVars, Page!page, Page!OpenRun, Page!CreateRun, Page!Commit, Page!Mutate,
           Page!AnswerProjection, Page!AnswerEvents, Page!Drop, Page!ReceiveEvents, Page!Fail,
           Page!DelayEnds, Page!Connect, Page!SendBatch, Page!CheckState, Page!Cut, Page!ReadFrame,
           Page!EndOfStream
<1> QED BY <1>2, <1>3, <1>4, <1>5

-----------------------------------------------------------------------------
\* Opening and migrating the run store.

Places == [at : {"out", "connect", "schema", "open"}, version : 0 .. 4, next : 1 .. 10]

\* The lock file admits one process, and every other one is outside.
Exclusive == \A p \in Processes : opener[p].at # "out" <=> lock = p

\* A file that has no version yet is a creation somebody died in; every other
\* file is exactly what a release writes.
Unfinished(db) ==
    /\ db = [version |-> 0, tables |-> db.tables, columns |-> db.columns]
    /\ db.tables \subseteq Schema!Statements
    /\ db.columns = UNION {Schema!ColumnsOf(t) : t \in db.tables}

FileIsKnown == Unfinished(file) \/ file \in {Schema!Database(n) : n \in 1 .. 5}

\* What a process knows of the file: in the schema its version, and that what
\* it has created is there.
Knows(r, db) ==
    /\ r.at \in {"out", "connect"} => r.next = 1
    /\ r.at = "schema" => /\ r.version = db.version
                          /\ r.next # 1 => r.version \in {0, 4}
                          /\ \A i \in 1 .. r.next - 1 : Schema!Script[i] \in db.tables
    /\ r.at = "open" => db = Schema!Database(4)

OpenersKnow == \A p \in Processes : Knows(opener[p], file)

SchemaInv ==
    /\ opener \in [Processes -> Places]
    /\ Exclusive
    /\ FileIsKnown
    /\ OpenersKnow
-----------------------------------------------------------------------------
\* The script, statement by statement.
LEMMA StatementsAre ==
    Schema!Statements = {"runs", "events", "checkpoints", "accepted_replies", "tool_calls",
                  "approvals", "artifacts", "append_only", "immutable"}
<1>1. DOMAIN Schema!Script = 1 .. 9
  BY DEF Schema!Script
<1>2. /\ Schema!Script[1] = "runs" /\ Schema!Script[2] = "events" /\ Schema!Script[3] = "checkpoints"
      /\ Schema!Script[4] = "accepted_replies" /\ Schema!Script[5] = "tool_calls"
      /\ Schema!Script[6] = "approvals" /\ Schema!Script[7] = "artifacts"
      /\ Schema!Script[8] = "append_only" /\ Schema!Script[9] = "immutable"
  BY DEF Schema!Script
<1>3. \A i \in 1 .. 9 : i \in {1, 2, 3, 4, 5, 6, 7, 8, 9}
  OBVIOUS
<1> QED
  BY <1>1, <1>2, <1>3 DEF Schema!Statements

\* It has nine.
LEMMA ScriptDomain == DOMAIN Schema!Script = 1 .. 9
  BY DEF Schema!Script

\* The columns of each release.
LEMMA ColumnsAre ==
    /\ Schema!Columns(0) = {} /\ Schema!Columns(1) = {}
    /\ Schema!Columns(2) = {"tool_revision"}
    /\ \A n \in 3 .. 5 : Schema!Columns(n) = {"tool_revision", "app_id"}
  BY DEF Schema!Columns, Schema!AddedIn

\* What a release writes, version by version.
LEMMA Releases ==
    LET early == Schema!Statements \ {"artifacts", "immutable"} IN
    /\ Schema!Database(1) = [version |-> 1, tables |-> early, columns |-> {}]
    /\ Schema!Database(2) = [version |-> 2, tables |-> early, columns |-> {"tool_revision"}]
    /\ Schema!Database(3) = [version |-> 3, tables |-> early,
                             columns |-> {"tool_revision", "app_id"}]
    /\ Schema!Database(4) = [version |-> 4, tables |-> Schema!Statements,
                             columns |-> {"tool_revision", "app_id"}]
    /\ Schema!Database(5) = [version |-> 5, tables |-> Schema!Statements,
                             columns |-> {"tool_revision", "app_id"}]
<1>1. \A n \in 1 .. 3 :
        Schema!Database(n) = [version |-> n, tables |-> Schema!Statements \ {"artifacts", "immutable"},
                              columns |-> Schema!Columns(n)]
    BY DEF Schema!Database
<1>2. \A n \in 4 .. 5 :
        Schema!Database(n) = [version |-> n, tables |-> Schema!Statements, columns |-> Schema!Columns(n)]
    BY DEF Schema!Database
<1> QED
    BY <1>1, <1>2, ColumnsAre

\* A migration makes of one release's file the next one's.
LEMMA MigrationsChain ==
    ASSUME NEW n \in 1 .. 3
    PROVE  Schema!Migrated(Schema!Database(n), n + 1) = Schema!Database(n + 1)
<1>1. CASE n = 1
  BY <1>1, Releases DEF Schema!Migrated, Schema!AddedIn
<1>2. CASE n = 2
  BY <1>2, Releases DEF Schema!Migrated, Schema!AddedIn
<1>3. CASE n = 3
  BY <1>3, Releases, StatementsAre DEF Schema!Migrated, Schema!AddedIn
<1> QED
  BY <1>1, <1>2, <1>3

\* One statement of a creation leaves an unfinished file with one table more.
LEMMA CreationGrows ==
    ASSUME NEW db, Unfinished(db), NEW table \in Schema!Statements
    PROVE  /\ Unfinished(Schema!Created(db, table))
           /\ Schema!Created(db, table).tables = db.tables \cup {table}
<1>1. CASE table \in db.tables
  BY <1>1 DEF Schema!Created
<1>2. CASE table \notin db.tables
  <2> DEFINE new == Schema!Created(db, table)
  <2> DEFINE t0 == db.tables
             c0 == db.columns
  <2>0. db = [version |-> 0, tables |-> t0, columns |-> c0]
    BY DEF Unfinished
  <2>1. new = [version |-> 0, tables |-> t0 \cup {table}, columns |-> c0 \cup Schema!ColumnsOf(table)]
    <3>1. new = [db EXCEPT !.tables = db.tables \cup {table},
                           !.columns = db.columns \cup Schema!ColumnsOf(table)]
      BY <1>2 DEF Schema!Created
    <3> HIDE DEF new, t0, c0
    <3>2. db.tables = t0 /\ db.columns = c0
      BY <2>0
    <3> QED
      BY <2>0, <3>1, <3>2
  <2>2. new.columns = UNION {Schema!ColumnsOf(t) : t \in new.tables}
    BY <2>1 DEF Unfinished
  <2> QED
    BY <2>1, <2>2 DEF Unfinished
<1> QED
  BY <1>1, <1>2

\* A creation that has run to its end has made the current schema.
LEMMA CreationEnds ==
    ASSUME NEW db, Unfinished(db), \A i \in 1 .. 9 : Schema!Script[i] \in db.tables
    PROVE  [db EXCEPT !.version = Schema!Current] = Schema!Database(4)
<1>1. db.tables = Schema!Statements
  BY ScriptDomain DEF Unfinished, Schema!Statements
<1>2. UNION {Schema!ColumnsOf(t) : t \in Schema!Statements} = {"tool_revision", "app_id"}
  BY StatementsAre DEF Schema!ColumnsOf
<1> QED
  BY <1>1, <1>2, Releases DEF Unfinished, Schema!Current
-----------------------------------------------------------------------------
\* The schema starts with a file of some release, or none.
LEMMA SchemaInit == Schema!Init => SchemaInv
<1> SUFFICES ASSUME Schema!Init PROVE SchemaInv
  OBVIOUS
<1>1. opener \in [Processes -> Places] /\ \A p \in Processes : opener[p] = Schema!Outside
  BY DEF Schema!Init, Schema!Outside, Places
<1>2. Exclusive
  BY <1>1, PartsAssumption DEF Exclusive, Schema!Init, Schema!Outside
<1>3. FileIsKnown
  <2>1. PICK n \in 0 .. 5 : file = Schema!Database(n)
    BY DEF Schema!Init, Schema!Current
  <2>2. CASE n = 0
    <3>1. file = [version |-> 0, tables |-> {}, columns |-> {}]
      BY <2>1, <2>2 DEF Schema!Database
    <3> QED
      BY <3>1 DEF FileIsKnown, Unfinished
  <2>3. CASE n # 0
    BY <2>1, <2>3 DEF FileIsKnown
  <2> QED
    BY <2>2, <2>3
<1> QED
  BY <1>1, <1>2, <1>3 DEF SchemaInv, OpenersKnow, Knows, Schema!Outside

\* What a process does concerns no other one: they are all outside.
LEMMA OneMoves ==
    ASSUME SchemaInv, NEW p \in Processes, NEW r \in Places, NEW db,
           opener' = [opener EXCEPT ![p] = r], file' = db,
           \A q \in Processes \ {p} : opener[q].at = "out" /\ lock' # q,
           r.at # "out" <=> lock' = p,
           FileIsKnown', Knows(r, db)
    PROVE  SchemaInv'
<1>1. /\ opener' \in [Processes -> Places] /\ opener'[p] = r
      /\ \A q \in Processes \ {p} : opener'[q] = opener[q]
  BY DEF SchemaInv
<1>2. Exclusive'
  BY <1>1 DEF Exclusive
<1>3. ASSUME NEW q \in Processes PROVE Knows(opener'[q], file')
  <2>1. CASE q = p
    BY <2>1, <1>1
  <2>2. CASE q # p
    BY <2>2, <1>1 DEF SchemaInv, OpenersKnow, Knows
  <2> QED
    BY <2>1, <2>2
<1> QED
  BY <1>1, <1>2, <1>3 DEF SchemaInv, OpenersKnow

\* The version tells an unfinished file from a release's.
LEMMA VersionTells ==
    ASSUME FileIsKnown
    PROVE  IF file.version = 0 THEN Unfinished(file)
           ELSE file = Schema!Database(file.version) /\ ~ Unfinished(file)
<1>1. Unfinished(file) => file.version = 0
  BY DEF Unfinished
<1>2. \A m \in 1 .. 5 : Schema!Database(m).version = m
  BY DEF Schema!Database
<1> QED
  BY <1>1, <1>2 DEF FileIsKnown

\* While one process is in, the others are out.
LEMMA OthersAreOut ==
    ASSUME SchemaInv, NEW p \in Processes, opener[p].at # "out", NEW q \in Processes \ {p}
    PROVE  opener[q].at = "out" /\ lock # q /\ lock = p
  BY DEF Exclusive, SchemaInv

\* No process that opens, leaves or dies breaks it.
LEMMA SchemaStep == SchemaInv /\ [Schema!Next]_schemaVars => SchemaInv'
<1> SUFFICES ASSUME SchemaInv, [Schema!Next]_schemaVars PROVE SchemaInv'
  OBVIOUS
<1>1. ASSUME NEW p \in Processes, Schema!Acquire(p)
      PROVE  SchemaInv'
  <2> DEFINE r == [opener[p] EXCEPT !.at = "connect"]
  <2>1. opener' = [opener EXCEPT ![p] = r] /\ lock' = p /\ file' = file /\ opener[p].at = "out"
    BY <1>1 DEF Schema!Acquire
  <2>2. \A q \in Processes \ {p} : opener[q].at = "out" /\ lock' # q
    BY <1>1, <2>1, PartsAssumption DEF Schema!Acquire, SchemaInv, Exclusive
  <2>3. opener[p] \in Places /\ Knows(opener[p], file)
    BY DEF SchemaInv, OpenersKnow
  <2>4. r \in Places /\ r.at = "connect" /\ r.next = opener[p].next
    BY <2>3 DEF Places
  <2>5. Knows(r, file)
    BY <2>1, <2>3, <2>4 DEF Knows
  <2>6. FileIsKnown'
    BY <2>1 DEF SchemaInv, FileIsKnown, Unfinished
  <2> HIDE DEF r
  <2> QED
    BY <2>1, <2>2, <2>4, <2>5, <2>6, OneMoves
<1>2. ASSUME NEW p \in Processes, Schema!Leave(p)
      PROVE  SchemaInv'
  <2>1. opener' = [opener EXCEPT ![p] = Schema!Outside] /\ file' = file /\ opener[p].at # "out"
    BY <1>2 DEF Schema!Leave
  <2>2. lock' = None
    BY <1>2, <2>1, PartsAssumption DEF Schema!Leave, SchemaInv, Exclusive
  <2>3. \A q \in Processes \ {p} : opener[q].at = "out" /\ lock' # q
    BY <2>1, <2>2, OthersAreOut, PartsAssumption
  <2>4. Schema!Outside \in Places /\ Schema!Outside.at = "out" /\ Knows(Schema!Outside, file)
    BY DEF Schema!Outside, Places, Knows
  <2>5. FileIsKnown'
    BY <2>1 DEF SchemaInv, FileIsKnown, Unfinished
  <2>6. ~(Schema!Outside.at # "out") /\ lock' # p
    BY <2>2, <2>4, PartsAssumption
  <2> QED
    BY <2>1, <2>3, <2>4, <2>5, <2>6, OneMoves
<1>3. ASSUME NEW p \in Processes, Schema!ReadVersion(p)
      PROVE  SchemaInv'
  <2> DEFINE r == [opener[p] EXCEPT !.at = "schema", !.version = file.version]
  <2>1. /\ opener' = [opener EXCEPT ![p] = r] /\ lock' = lock /\ file' = file
        /\ opener[p].at = "connect" /\ file.version \in 0 .. 4
    BY <1>3 DEF Schema!ReadVersion, Schema!Current
  <2>2. \A q \in Processes \ {p} : opener[q].at = "out" /\ lock' # q /\ lock' = p
    BY <2>1, OthersAreOut
  <2>3. opener[p] \in Places /\ Knows(opener[p], file) /\ lock' = p
    BY <2>1 DEF SchemaInv, OpenersKnow, Exclusive
  <2>4. /\ r \in Places /\ r.at = "schema" /\ r.next = opener[p].next
        /\ r.version = file.version
    BY <2>1, <2>3 DEF Places
  <2>5. Knows(r, file)
    BY <2>1, <2>3, <2>4 DEF Knows
  <2>6. FileIsKnown'
    BY <2>1 DEF SchemaInv, FileIsKnown, Unfinished
  <2> HIDE DEF r
  <2> QED
    BY <2>1, <2>2, <2>3, <2>4, <2>5, <2>6, OneMoves
<1>4. ASSUME NEW p \in Processes, Schema!Migrate(p)
      PROVE  SchemaInv'
  <2> DEFINE r == [opener[p] EXCEPT !.version = @ + 1]
             n == opener[p].version
  <2>1. /\ opener' = [opener EXCEPT ![p] = r] /\ lock' = lock
        /\ file' = Schema!Migrated(file, n + 1)
        /\ opener[p].at = "schema" /\ n \in 1 .. 3
    BY <1>4 DEF Schema!Migrate, Schema!Current
  <2>2. \A q \in Processes \ {p} : opener[q].at = "out" /\ lock' # q
    BY <2>1, OthersAreOut
  <2>3. opener[p] \in Places /\ Knows(opener[p], file) /\ lock' = p
    BY <2>1 DEF SchemaInv, OpenersKnow, Exclusive
  <2>4. n = file.version /\ opener[p].next = 1
    BY <2>1, <2>3 DEF Knows
  <2>5. file = Schema!Database(n)
    BY <2>1, <2>4, VersionTells DEF SchemaInv
  <2>6. file' = Schema!Database(n + 1)
    BY <2>1, <2>5, MigrationsChain
  <2>7. r \in Places /\ r.at = "schema" /\ r.next = 1 /\ r.version = n + 1
    BY <2>1, <2>3, <2>4 DEF Places
  <2>8. Knows(r, file')
    <3>1. Schema!Database(n + 1).version = n + 1
      BY DEF Schema!Database
    <3> HIDE DEF r, n
    <3> QED
      BY <2>6, <2>7, <3>1 DEF Knows
  <2>9. FileIsKnown'
    BY <2>1, <2>6 DEF FileIsKnown
  <2> HIDE DEF r, n
  <2> QED
    BY <2>1, <2>2, <2>3, <2>7, <2>8, <2>9, OneMoves
<1>5. ASSUME NEW p \in Processes, Schema!Create(p)
      PROVE  SchemaInv'
  <2> DEFINE r == [opener[p] EXCEPT !.next = @ + 1]
             i == opener[p].next
  <2>1. /\ opener' = [opener EXCEPT ![p] = r] /\ lock' = lock
        /\ file' = Schema!Created(file, Schema!Script[i])
        /\ opener[p].at = "schema" /\ opener[p].version \in {0, 4} /\ i \in 1 .. 9
    BY <1>5, ScriptDomain DEF Schema!Create, Schema!Settled, Schema!Current
  <2>2. \A q \in Processes \ {p} : opener[q].at = "out" /\ lock' # q
    BY <2>1, OthersAreOut
  <2>3. opener[p] \in Places /\ Knows(opener[p], file) /\ lock' = p
    BY <2>1 DEF SchemaInv, OpenersKnow, Exclusive
  <2>4. /\ r \in Places /\ r.at = "schema" /\ r.next = i + 1
        /\ r.version = opener[p].version /\ r.version = file.version
    BY <2>1, <2>3 DEF Places, Knows
  <2>5. Schema!Script[i] \in Schema!Statements
    BY <2>1, ScriptDomain DEF Schema!Statements
  <2>6. /\ FileIsKnown' /\ file'.version = file.version
        /\ file'.tables = file.tables \cup {Schema!Script[i]}
    <3>1. CASE Unfinished(file)
      <4>1. Unfinished(file') /\ file'.tables = file.tables \cup {Schema!Script[i]}
        BY <2>1, <2>5, <3>1, CreationGrows
      <4> QED
        BY <3>1, <4>1 DEF FileIsKnown, Unfinished
    <3>2. CASE ~ Unfinished(file)
      <4>1. file = Schema!Database(4)
        BY <2>1, <2>4, <3>2, VersionTells DEF SchemaInv
      <4>2. Schema!Script[i] \in file.tables
        BY <2>5, <4>1, Releases
      <4>3. file' = file
        BY <2>1, <4>2 DEF Schema!Created
      <4> QED
        BY <4>1, <4>2, <4>3 DEF FileIsKnown
    <3> QED
      BY <3>1, <3>2
  <2>7. \A j \in 1 .. r.next - 1 : Schema!Script[j] \in file'.tables
    <3>1. \A j \in 1 .. i : j = i \/ j \in 1 .. i - 1
      BY <2>1
    <3>2. \A j \in 1 .. i - 1 : Schema!Script[j] \in file.tables
      BY <2>1, <2>3 DEF Knows
    <3>3. r.next - 1 = i
      BY <2>1, <2>4
    <3> HIDE DEF r, i
    <3> QED
      BY <2>6, <3>1, <3>2, <3>3
  <2>8. Knows(r, file')
    <3> HIDE DEF r, i
    <3> QED
      BY <2>1, <2>4, <2>6, <2>7 DEF Knows
  <2> HIDE DEF r, i
  <2> QED
    BY <2>1, <2>2, <2>3, <2>4, <2>6, <2>8, OneMoves
<1>6. ASSUME NEW p \in Processes, Schema!Open(p)
      PROVE  SchemaInv'
  <2> DEFINE r == [Schema!Outside EXCEPT !.at = "open"]
  <2>1. /\ opener' = [opener EXCEPT ![p] = r] /\ lock' = lock
        /\ file' = IF opener[p].version = 0 THEN [file EXCEPT !.version = Schema!Current] ELSE file
        /\ opener[p].at = "schema" /\ opener[p].version \in {0, 4}
        /\ opener[p].next \notin 1 .. 9
    BY <1>6, ScriptDomain DEF Schema!Open, Schema!Settled, Schema!Current
  <2>2. \A q \in Processes \ {p} : opener[q].at = "out" /\ lock' # q
    BY <2>1, OthersAreOut
  <2>3. opener[p] \in Places /\ Knows(opener[p], file) /\ lock' = p
    BY <2>1 DEF SchemaInv, OpenersKnow, Exclusive
  <2>4. opener[p].next = 10
    BY <2>1, <2>3 DEF Places
  <2>5. opener[p].version = file.version /\ \A i \in 1 .. 9 : Schema!Script[i] \in file.tables
    BY <2>1, <2>3, <2>4 DEF Knows
  <2>6. file' = Schema!Database(4)
    <3>1. CASE opener[p].version = 0
      <4>1. Unfinished(file)
        BY <2>5, <3>1, VersionTells DEF SchemaInv
      <4> QED
        BY <2>1, <2>5, <3>1, <4>1, CreationEnds
    <3>2. CASE opener[p].version = 4
      BY <2>1, <2>5, <3>2, VersionTells DEF SchemaInv
    <3> QED
      BY <2>1, <3>1, <3>2
  <2>7. r \in Places /\ r.at = "open"
    BY DEF Schema!Outside, Places
  <2>8. Knows(r, file') /\ FileIsKnown'
    BY <2>6, <2>7 DEF Knows, FileIsKnown
  <2> HIDE DEF r
  <2> QED
    BY <2>1, <2>2, <2>3, <2>7, <2>8, OneMoves
<1>7. CASE UNCHANGED schemaVars
  BY <1>7 DEF schemaVars, SchemaInv, Exclusive, FileIsKnown, OpenersKnow, Knows, Unfinished
<1> QED
  BY <1>1, <1>2, <1>3, <1>4, <1>5, <1>6, <1>7 DEF Schema!Next

\* The property of the run, from the invariant.
LEMMA SchemaSafe == SchemaInv => Schema!SchemaIsWhole
<1> SUFFICES ASSUME SchemaInv PROVE Schema!SchemaIsWhole
  OBVIOUS
<1>1. ASSUME file.version # 0
      PROVE  file = Schema!Database(file.version)
  BY <1>1, VersionTells DEF SchemaInv
<1>2. ASSUME NEW p \in Processes, opener[p].at = "open"
      PROVE  /\ file = Schema!Database(Schema!Current)
             /\ \A q \in Processes \ {p} : opener[q].at = "out"
  BY <1>2, OthersAreOut DEF SchemaInv, OpenersKnow, Knows, Schema!Current
<1> QED
  BY <1>1, <1>2 DEF Schema!SchemaIsWhole

-----------------------------------------------------------------------------
\* The document index.

Source == [revision : Nat \ {0}, text : Texts]
Chunk  == [source : Sources, text : Texts, ordinal : Nat]
Record == [source : Sources, text : Texts, revision : Nat, collection : Nat]
Attempt == [at : {"idle", "connect", "open", "begun", "answered", "superseded"},
            source : Sources \cup {None}, text : Texts \cup {None}, answer : Record \cup {None}]

IndexTypes ==
    /\ index \in [identity : {"blank", "rag", "other"}, revision : Nat,
                  sources : [Sources -> Source \cup {None}],
                  chunks : SUBSET Chunk, fts : SUBSET Chunk, records : SUBSET Record]
    /\ indexer \in [Attempts -> Attempt]
    /\ writer \in Attempts \cup {None}
    /\ writer # None => indexer[writer].at = "begun"
    /\ \A a \in Attempts : indexer[a].at # "idle" =>
          indexer[a].source \in Sources /\ indexer[a].text \in Texts

\* The generation of a source.
Generation(s) == IF index.sources[s] = None THEN 0 ELSE index.sources[s].revision

\* The records number what was committed, in all and of each source, and the
\* last of a source is its current generation.
IndexRecords ==
    /\ IsFiniteSet(index.records) /\ Cardinality(index.records) = index.revision
    /\ {e.collection : e \in index.records} = 1 .. index.revision
    /\ \A s \in Sources :
          /\ IsFiniteSet(Index!Of(s)) /\ Cardinality(Index!Of(s)) = Generation(s)
          /\ {e.revision : e \in Index!Of(s)} = 1 .. Generation(s)
    /\ \A d, e \in index.records :
          d.source = e.source /\ (d.text = e.text \/ d.revision = e.revision) => d = e
    /\ \A e \in index.records :
          e.revision = Generation(e.source) => e.text = index.sources[e.source].text

\* The rows are the chunks of the current generations.
IndexRows ==
    /\ index.fts = index.chunks
    /\ \A c \in Chunk : c \in index.chunks <=>
          /\ index.sources[c.source] # None /\ index.sources[c.source].text = c.text
          /\ c.ordinal < c.text

\* An answer is the record of its request; a request that was refused has one
\* that is not current.
IndexAnswers ==
    \A a \in Attempts :
        /\ indexer[a].at = "answered" => indexer[a].answer \in Index!Recorded(indexer[a])
        /\ indexer[a].at = "superseded" =>
              /\ Index!Recorded(indexer[a]) # {}
              /\ \A e \in Index!Recorded(indexer[a]) : e.revision # Generation(e.source)

IndexInv == IndexTypes /\ IndexRecords /\ IndexRows /\ IndexAnswers

\* One cardinality.
LEMMA Counting == \A S : Index!Cardinality(S) = Cardinality(S)
BY DEF Cardinality, Index!Cardinality

\* The file starts empty, or belongs to something else.
LEMMA IndexInit == Index!Init => IndexInv
<1> SUFFICES ASSUME Index!Init PROVE IndexInv OBVIOUS
<1>1. /\ index.sources = [s \in Sources |-> None] /\ index.records = {} /\ index.revision = 0
      /\ index.chunks = {} /\ index.fts = {} /\ index.identity \in {"blank", "other"}
      /\ index = [identity |-> index.identity, revision |-> 0, sources |-> [s \in Sources |-> None],
                  chunks |-> {}, fts |-> {}, records |-> {}]
      /\ writer = None /\ \A a \in Attempts : indexer[a].at = "idle"
    BY DEF Index!Init, Index!Blank, Index!Idle
<1>2. IndexTypes
    <2>1. index \in [identity : {"blank", "rag", "other"}, revision : Nat,
                  sources : [Sources -> Source \cup {None}],
                  chunks : SUBSET Chunk, fts : SUBSET Chunk, records : SUBSET Record]
        BY <1>1
    <2>2. indexer \in [Attempts -> Attempt]
        BY DEF Index!Init, Index!Idle, Attempt
    <2> QED BY <1>1, <2>1, <2>2 DEF IndexTypes
<1>3. \A s \in Sources : Index!Of(s) = {} /\ Generation(s) = 0
    BY <1>1 DEF Index!Of, Generation
<1>4. IsFiniteSet({}) /\ Cardinality({}) = 0
    BY FS_EmptySet
<1>5. IndexRecords
    BY <1>1, <1>3, <1>4 DEF IndexRecords
<1>6. IndexRows
    BY <1>1 DEF IndexRows, Chunk
<1>7. IndexAnswers
    BY <1>1 DEF IndexAnswers
<1> QED BY <1>2, <1>5, <1>6, <1>7 DEF IndexInv

\* The property of the run, from the invariant.
LEMMA IndexSafe == IndexInv => Index!GenerationsAreLinear
<1> SUFFICES ASSUME IndexInv PROVE Index!GenerationsAreLinear OBVIOUS
<1>i. IndexTypes /\ IndexRecords /\ IndexRows /\ IndexAnswers
    BY DEF IndexInv
<1>t. /\ index.records \subseteq Record /\ index.chunks \subseteq Chunk
      /\ index.sources \in [Sources -> Source \cup {None}]
    BY <1>i DEF IndexTypes
<1>1. /\ {e.collection : e \in index.records} = 1 .. Cardinality(index.records)
      /\ \A s \in Sources : {e.revision : e \in Index!Of(s)} = 1 .. Cardinality(Index!Of(s))
      /\ \A d, e \in index.records : d.source = e.source /\ d.text = e.text => d = e
    BY <1>i DEF IndexRecords
<1>2. \A s \in Sources : Index!Newest(s) = {e \in Index!Of(s) : e.revision = Generation(s)}
    <2> SUFFICES ASSUME NEW s \in Sources
                 PROVE  Index!Newest(s) = {e \in Index!Of(s) : e.revision = Generation(s)}
        OBVIOUS
    <2>1. Cardinality(Index!Of(s)) = Generation(s)
        BY <1>i DEF IndexRecords
    <2> QED BY <2>1, Counting DEF Index!Newest
<1>3. \A e : e \in UNION {Index!Newest(s) : s \in Sources} <=>
                e \in index.records /\ e.revision = Generation(e.source)
    BY <1>2, <1>t DEF Index!Of, Record
<1>4. \A s \in Sources : index.sources[s] # None =>
         /\ \E e \in index.records : /\ e.source = s /\ e.revision = index.sources[s].revision
                                     /\ e.text = index.sources[s].text
    <2> SUFFICES ASSUME NEW s \in Sources, index.sources[s] # None
                 PROVE  \E e \in index.records : /\ e.source = s /\ e.revision = index.sources[s].revision
                                                 /\ e.text = index.sources[s].text
        OBVIOUS
    <2>1. Generation(s) = index.sources[s].revision /\ index.sources[s].revision \in Nat \ {0}
        BY <1>t DEF Generation, Source
    <2>2. Generation(s) \in {e.revision : e \in Index!Of(s)}
        BY <2>1, <1>i DEF IndexRecords
    <2>3. PICK e \in Index!Of(s) : e.revision = Generation(s)
        BY <2>2
    <2>4. e \in index.records /\ e.source = s
        BY DEF Index!Of
    <2> QED BY <2>1, <2>3, <2>4, <1>i DEF IndexRecords
<1>5. \A e \in index.records : e.revision = Generation(e.source) =>
         /\ index.sources[e.source] # None /\ e.revision = index.sources[e.source].revision
         /\ e.text = index.sources[e.source].text
    <2> SUFFICES ASSUME NEW e \in index.records, e.revision = Generation(e.source)
                 PROVE  index.sources[e.source] # None
        BY <1>i DEF IndexRecords, Generation
    <2>1. e.source \in Sources /\ e \in Index!Of(e.source)
        BY <1>t DEF Record, Index!Of
    <2>2. e.revision \in 1 .. Generation(e.source)
        BY <2>1, <1>i DEF IndexRecords
    <2> QED BY <2>2 DEF Generation
<1>6. Index!Matches = UNION {{[chunk |-> c, revision |-> e.revision] : c \in Index!Chunks(e.source, e.text)} :
                                e \in UNION {Index!Newest(s) : s \in Sources}}
    <2>1. ASSUME NEW c \in index.chunks, index.sources[c.source] # None
          PROVE  \E e \in UNION {Index!Newest(s) : s \in Sources} :
                    /\ c \in Index!Chunks(e.source, e.text)
                    /\ e.revision = index.sources[c.source].revision
        <3>1. /\ c \in Chunk /\ c.source \in Sources /\ c.text \in Nat /\ c.ordinal \in 0 .. c.text - 1
              /\ c = [source |-> c.source, text |-> c.text, ordinal |-> c.ordinal]
              /\ index.sources[c.source].text = c.text
            BY <1>t, <1>i, PartsAssumption DEF Chunk, IndexRows
        <3>2. PICK e \in index.records : /\ e.source = c.source /\ e.text = c.text
                                         /\ e.revision = index.sources[c.source].revision
            BY <3>1, <2>1, <1>4
        <3>3. e.revision = Generation(e.source)
            BY <3>2, <2>1 DEF Generation
        <3>4. e \in UNION {Index!Newest(s) : s \in Sources}
            BY <3>3, <1>3
        <3>5. c \in Index!Chunks(c.source, c.text)
            BY <3>1 DEF Index!Chunks
        <3> QED BY <3>2, <3>4, <3>5
    <2>2. ASSUME NEW e \in UNION {Index!Newest(s) : s \in Sources},
                 NEW c \in Index!Chunks(e.source, e.text)
          PROVE  /\ c \in index.chunks /\ c \in index.fts /\ index.sources[c.source] # None
                 /\ e.revision = index.sources[c.source].revision
        <3>1. e \in index.records /\ e.revision = Generation(e.source)
            BY <1>3
        <3>2. /\ e.source \in Sources /\ e.text \in Texts /\ e.text \in Nat
              /\ index.sources[e.source] # None /\ e.revision = index.sources[e.source].revision
              /\ e.text = index.sources[e.source].text
            BY <3>1, <1>5, <1>t, PartsAssumption DEF Record
        <3>3. PICK n \in 0 .. e.text - 1 : c = [source |-> e.source, text |-> e.text, ordinal |-> n]
            BY DEF Index!Chunks
        <3>4. c \in Chunk /\ c.source = e.source /\ c.text = e.text /\ c.ordinal < c.text
            BY <3>2, <3>3 DEF Chunk
        <3> QED BY <3>2, <3>4, <1>i DEF IndexRows
    <2>3. index.fts = index.chunks
        BY <1>i DEF IndexRows
    <2>4. \A m : m \in Index!Matches <=>
             \E c \in index.chunks : index.sources[c.source] # None
                /\ m = [chunk |-> c, revision |-> index.sources[c.source].revision]
        BY <2>3 DEF Index!Matches
    <2> DEFINE Shown == UNION {{[chunk |-> c, revision |-> e.revision] : c \in Index!Chunks(e.source, e.text)} :
                                e \in UNION {Index!Newest(s) : s \in Sources}}
    <2>5. \A m : m \in Shown <=>
             \E e \in UNION {Index!Newest(s) : s \in Sources} : \E c \in Index!Chunks(e.source, e.text) :
                m = [chunk |-> c, revision |-> e.revision]
        OBVIOUS
    <2> HIDE DEF Shown
    <2>6. \A m : m \in Index!Matches => m \in Shown
        <3> SUFFICES ASSUME NEW c \in index.chunks, index.sources[c.source] # None
                     PROVE  [chunk |-> c, revision |-> index.sources[c.source].revision] \in Shown
            BY <2>4
        <3>1. PICK e \in UNION {Index!Newest(s) : s \in Sources} :
                    /\ c \in Index!Chunks(e.source, e.text)
                    /\ e.revision = index.sources[c.source].revision
            BY <2>1
        <3> QED BY <3>1, <2>5
    <2>7. \A m : m \in Shown => m \in Index!Matches
        <3> SUFFICES ASSUME NEW e \in UNION {Index!Newest(s) : s \in Sources},
                            NEW c \in Index!Chunks(e.source, e.text)
                     PROVE  [chunk |-> c, revision |-> e.revision] \in Index!Matches
            BY <2>5
        <3> QED BY <2>2, <2>4
    <2>8. Index!Matches = Shown
        BY <2>6, <2>7
    <2> QED BY <2>8 DEF Shown
<1>7. \A a \in Attempts :
         /\ indexer[a].at = "answered" => indexer[a].answer \in Index!Recorded(indexer[a])
         /\ indexer[a].at = "superseded" =>
               /\ Index!Recorded(indexer[a]) # {}
               /\ Index!Recorded(indexer[a]) \cap Index!Newest(indexer[a].source) = {}
    <2> SUFFICES ASSUME NEW a \in Attempts, indexer[a].at = "superseded",
                        NEW e \in Index!Recorded(indexer[a]), e \in Index!Newest(indexer[a].source)
                 PROVE  FALSE
        BY <1>i DEF IndexAnswers
    <2>1. indexer[a].source \in Sources /\ e.source = indexer[a].source
        BY <1>i DEF IndexTypes, Index!Recorded
    <2>2. e.revision = Generation(e.source)
        BY <2>1, <1>2
    <2> QED BY <2>2, <1>i DEF IndexAnswers
<1> QED BY <1>1, <1>6, <1>7, Counting DEF Index!GenerationsAreLinear

\* A step of the attempts, which leaves the database alone.
LEMMA IndexSame ==
    ASSUME IndexInv, index' = index, IndexTypes',
           \A a \in Attempts : indexer'[a].at \in {"answered", "superseded"} =>
              \/ indexer'[a] = indexer[a]
              \/ /\ indexer'[a].at = "answered"
                 /\ indexer'[a].answer \in Index!Recorded(indexer'[a])
              \/ /\ indexer'[a].at = "superseded"
                 /\ Index!Recorded(indexer'[a]) # {}
                 /\ \A e \in Index!Recorded(indexer'[a]) : e.revision # Generation(e.source)
    PROVE  IndexInv'
<1>i. IndexTypes /\ IndexRecords /\ IndexRows /\ IndexAnswers
    BY DEF IndexInv
<1>1. /\ \A s : Index!Of(s)' = Index!Of(s) /\ Generation(s)' = Generation(s)
      /\ \A a \in Attempts : Index!Recorded(indexer[a])' = Index!Recorded(indexer'[a])
    BY DEF Index!Of, Generation, Index!Recorded
<1>2. IndexRecords'
    BY <1>i, <1>1 DEF IndexRecords
<1>3. IndexRows'
    BY <1>i DEF IndexRows
<1>4. IndexAnswers'
    <2> SUFFICES ASSUME NEW a \in Attempts
                 PROVE  /\ indexer'[a].at = "answered" => indexer'[a].answer \in Index!Recorded(indexer'[a])
                        /\ indexer'[a].at = "superseded" =>
                              /\ Index!Recorded(indexer'[a]) # {}
                              /\ \A e \in Index!Recorded(indexer'[a]) : e.revision # Generation(e.source)
        BY <1>1 DEF IndexAnswers
    <2> QED BY <1>i DEF IndexAnswers
<1> QED BY <1>2, <1>3, <1>4 DEF IndexInv

\* The transaction that replaces a generation.
LEMMA IndexReplace ==
    ASSUME IndexInv, NEW a \in Attempts, Index!Replace(a)
    PROVE  IndexInv'
<1> DEFINE r == indexer[a]
           g == Generation(r.source) + 1
           e == [source |-> r.source, text |-> r.text, revision |-> g, collection |-> index.revision + 1]
<1>i. IndexTypes /\ IndexRecords /\ IndexRows /\ IndexAnswers
    BY DEF IndexInv
<1>t. /\ index \in [identity : {"blank", "rag", "other"}, revision : Nat,
                  sources : [Sources -> Source \cup {None}],
                  chunks : SUBSET Chunk, fts : SUBSET Chunk, records : SUBSET Record]
      /\ indexer \in [Attempts -> Attempt]
    BY <1>i DEF IndexTypes
<1>0. writer = a /\ r.at = "begun" /\ r.source \in Sources /\ r.text \in Texts /\ r.text \in Nat
    BY <1>i, PartsAssumption DEF Index!Replace, IndexTypes
<1>1. g \in Nat \ {0} /\ [revision |-> g, text |-> r.text] \in Source /\ e \in Record
    BY <1>0, <1>t DEF Generation, Source, Record
<1>2. /\ index'.identity = index.identity /\ index'.revision = index.revision + 1
      /\ index'.sources = [index.sources EXCEPT ![r.source] = [revision |-> g, text |-> r.text]]
      /\ index'.chunks = {c \in index.chunks : c.source # r.source} \cup Index!Chunks(r.source, r.text)
      /\ index'.fts = {c \in index.fts : c.source # r.source} \cup Index!Chunks(r.source, r.text)
      /\ index'.records = index.records \cup {e}
      /\ index' = [identity |-> index'.identity, revision |-> index'.revision, sources |-> index'.sources,
                   chunks |-> index'.chunks, fts |-> index'.fts, records |-> index'.records]
    <2>1. (IF index.sources[r.source] = None THEN 1 ELSE index.sources[r.source].revision + 1) = g
        BY DEF Generation
    <2>2. index' = Index!Replaced(r)
        BY DEF Index!Replace
    <2> QED BY <1>t, <2>1, <2>2 DEF Index!Replaced
<1>3. Index!Recorded(r) = {}
    BY DEF Index!Replace
<1>4. e \notin index.records
    BY <1>3 DEF Index!Recorded
<1>5. /\ writer' = None
      /\ indexer' = [indexer EXCEPT ![a].at = "answered", ![a].answer = e]
    BY <1>2, <1>4 DEF Index!Replace, Index!Return
<1>s. \A s \in Sources : Generation(s)' = IF s = r.source THEN g ELSE Generation(s)
    BY <1>0, <1>1, <1>2, <1>t, PartsAssumption DEF Generation, Source
<1>6. IndexTypes'
    <2>1. Index!Chunks(r.source, r.text) \subseteq Chunk
        BY <1>0 DEF Index!Chunks, Chunk
    <2>2. index' \in [identity : {"blank", "rag", "other"}, revision : Nat,
                  sources : [Sources -> Source \cup {None}],
                  chunks : SUBSET Chunk, fts : SUBSET Chunk, records : SUBSET Record]
        BY <1>1, <1>2, <1>t, <2>1
    <2>3. indexer' \in [Attempts -> Attempt]
        <3>1. indexer[a] \in Attempt
            BY <1>t
        <3>2. [indexer[a] EXCEPT !.at = "answered", !.answer = e] \in Attempt
            BY <3>1, <1>1 DEF Attempt
        <3> QED BY <3>2, <1>5, <1>t
    <2>4. \A b \in Attempts : indexer'[b].at # "idle" =>
             indexer'[b].source \in Sources /\ indexer'[b].text \in Texts
        BY <1>0, <1>5, <1>t, <1>i DEF IndexTypes, Attempt
    <2> QED BY <1>5, <2>2, <2>3, <2>4 DEF IndexTypes
<1>e. e.source = r.source /\ e.text = r.text /\ e.revision = g /\ e.collection = index.revision + 1
    OBVIOUS
<1>o. \A s \in Sources :
         /\ Index!Of(s)' = IF s = r.source THEN Index!Of(s) \cup {e} ELSE Index!Of(s)
         /\ e \notin Index!Of(s)
    <2> HIDE DEF e
    <2> SUFFICES ASSUME NEW s \in Sources
                 PROVE  /\ Index!Of(s)' = IF s = r.source THEN Index!Of(s) \cup {e} ELSE Index!Of(s)
                        /\ e \notin Index!Of(s)
        OBVIOUS
    <2>1. Index!Of(s)' = {d \in index'.records : d.source = s}
        BY DEF Index!Of
    <2>2. Index!Of(s) = {d \in index.records : d.source = s}
        BY DEF Index!Of
    <2> QED BY <2>1, <2>2, <1>e, <1>2, <1>4
<1>p. \A d \in index.records :
         /\ d \in Record /\ d \in Index!Of(d.source) /\ d.revision \in 1 .. Generation(d.source)
         /\ d.source = r.source => d.text # r.text
    <2> SUFFICES ASSUME NEW d \in index.records
                 PROVE  /\ d \in Record /\ d \in Index!Of(d.source) /\ d.revision \in 1 .. Generation(d.source)
                        /\ d.source = r.source => d.text # r.text
        OBVIOUS
    <2>1. d \in Record /\ d \in Index!Of(d.source) /\ d.source \in Sources
        BY <1>t DEF Record, Index!Of
    <2>2. d.revision \in 1 .. Generation(d.source)
        BY <2>1, <1>i DEF IndexRecords
    <2> QED BY <2>1, <2>2, <1>3 DEF Index!Recorded
<1>g. \A s \in Sources : Generation(s) \in Nat
    BY <1>t DEF Generation, Source
<1> HIDE DEF e, g
<1>G. g = Generation(r.source) + 1
    BY DEF g
<1>7. IndexRecords'
    <2>1. IsFiniteSet(index'.records) /\ Cardinality(index'.records) = index'.revision
        BY <1>2, <1>4, <1>i, <1>t, FS_AddElement DEF IndexRecords
    <2>2. {d.collection : d \in index'.records} = 1 .. index'.revision
        <3>1. {d.collection : d \in index'.records} = {d.collection : d \in index.records} \cup {index.revision + 1}
            BY <1>2, <1>e
        <3>2. index.revision \in Nat
            BY <1>t
        <3> QED BY <3>1, <3>2, <1>2, <1>i DEF IndexRecords
    <2>3. ASSUME NEW s \in Sources
          PROVE  /\ IsFiniteSet(Index!Of(s)') /\ Cardinality(Index!Of(s)') = Generation(s)'
                 /\ {d.revision : d \in Index!Of(s)'} = 1 .. Generation(s)'
        <3>1. CASE s # r.source
            BY <3>1, <1>o, <1>s, <1>i DEF IndexRecords
        <3>2. CASE s = r.source
            <4>1. Index!Of(s)' = Index!Of(s) \cup {e} /\ e \notin Index!Of(s) /\ Generation(s)' = Generation(s) + 1
                BY <3>2, <1>o, <1>s, <1>G
            <4>2. IsFiniteSet(Index!Of(s)') /\ Cardinality(Index!Of(s)') = Generation(s)'
                BY <4>1, <1>i, FS_AddElement DEF IndexRecords
            <4>3. {d.revision : d \in Index!Of(s)'} = {d.revision : d \in Index!Of(s)} \cup {g}
                BY <4>1, <1>e
            <4>4. {d.revision : d \in Index!Of(s)} = 1 .. Generation(s)
                BY <1>i DEF IndexRecords
            <4>5. g = Generation(s) + 1 /\ Generation(s) \in Nat
                BY <3>2, <1>G, <1>g
            <4>6. (1 .. Generation(s)) \cup {g} = 1 .. Generation(s) + 1
                BY <4>5
            <4> QED BY <4>1, <4>2, <4>3, <4>4, <4>6
        <3> QED BY <3>1, <3>2
    <2>4. ASSUME NEW d \in index'.records, NEW f \in index'.records,
                 d.source = f.source, d.text = f.text \/ d.revision = f.revision
          PROVE  d = f
        <3>1. CASE d \in index.records /\ f \in index.records
            BY <3>1, <2>4, <1>i DEF IndexRecords
        <3>2. ASSUME NEW h \in index.records, h.source = r.source PROVE h.text # r.text /\ h.revision # g
            BY <3>2, <1>p, <1>G, <1>g, <1>0
        <3> QED BY <2>4, <3>1, <3>2, <1>2, <1>e
    <2>5. ASSUME NEW d \in index'.records, d.revision = Generation(d.source)'
          PROVE  d.text = index'.sources[d.source].text
        <3>1. d.source \in Sources
            BY <1>0, <1>2, <1>e, <1>p DEF Record
        <3>2. CASE d = e
            BY <3>2, <1>e, <1>2, <1>0, <1>t
        <3>3. CASE d # e
            <4>1. d \in index.records
                BY <3>3, <1>2
            <4>2. d.source # r.source
                BY <4>1, <2>5, <1>p, <1>s, <1>G, <1>g, <1>0
            <4> QED BY <4>1, <4>2, <2>5, <3>1, <1>s, <1>2, <1>t, <1>i DEF IndexRecords
        <3> QED BY <3>2, <3>3
    <2> QED BY <2>1, <2>2, <2>3, <2>4, <2>5 DEF IndexRecords
<1>8. IndexRows'
    <2>1. index'.fts = index'.chunks
        BY <1>2, <1>i DEF IndexRows
    <2>2. ASSUME NEW c \in Chunk
          PROVE  c \in index'.chunks <=>
                    /\ index'.sources[c.source] # None /\ index'.sources[c.source].text = c.text
                    /\ c.ordinal < c.text
        <3>0. /\ c.source \in Sources /\ c.text \in Nat /\ c.ordinal \in Nat
              /\ c = [source |-> c.source, text |-> c.text, ordinal |-> c.ordinal]
            BY PartsAssumption DEF Chunk
        <3>1. CASE c.source = r.source
            <4>1. index'.sources[c.source] = [revision |-> g, text |-> r.text] /\ index'.sources[c.source] # None
                BY <3>1, <1>0, <1>1, <1>2, <1>t, PartsAssumption DEF Source
            <4>2. c \in index'.chunks <=> c \in Index!Chunks(r.source, r.text)
                BY <3>1, <1>2
            <4>3. c \in Index!Chunks(r.source, r.text) <=> c.text = r.text /\ c.ordinal < c.text
                BY <3>0, <3>1, <1>0 DEF Index!Chunks
            <4> QED BY <4>1, <4>2, <4>3
        <3>2. CASE c.source # r.source
            <4>1. index'.sources[c.source] = index.sources[c.source]
                BY <3>0, <3>2, <1>2, <1>t
            <4>2. c \notin Index!Chunks(r.source, r.text)
                BY <3>2 DEF Index!Chunks
            <4>3. c \in index'.chunks <=> c \in index.chunks
                BY <3>2, <4>2, <1>2
            <4> QED BY <4>1, <4>3, <1>i DEF IndexRows
        <3> QED BY <3>1, <3>2
    <2> QED BY <2>1, <2>2 DEF IndexRows
<1>9. IndexAnswers'
    <2> SUFFICES ASSUME NEW b \in Attempts
                 PROVE  /\ indexer'[b].at = "answered" => indexer'[b].answer \in Index!Recorded(indexer[b])'
                        /\ indexer'[b].at = "superseded" =>
                              /\ Index!Recorded(indexer[b])' # {}
                              /\ \A d \in Index!Recorded(indexer[b])' : d.revision # Generation(d.source)'
        BY DEF IndexAnswers
    <2>1. CASE b = a
        <3>1. /\ indexer'[b].at = "answered" /\ indexer'[b].answer = e
              /\ indexer'[b].source = r.source /\ indexer'[b].text = r.text
            BY <2>1, <1>5, <1>t DEF Attempt
        <3> QED BY <3>1, <1>2, <1>e DEF Index!Recorded
    <2>2. CASE b # a
        <3>1. indexer'[b] = indexer[b]
            BY <2>2, <1>5, <1>t
        <3>2. Index!Recorded(indexer[b]) \subseteq Index!Recorded(indexer[b])'
            BY <3>1, <1>2 DEF Index!Recorded
        <3>3. ASSUME indexer[b].at = "superseded", NEW d \in Index!Recorded(indexer[b])'
              PROVE  d.revision # Generation(d.source)'
            <4>1. d \in index'.records /\ d.source = indexer[b].source /\ d.text = indexer[b].text
                BY <3>1 DEF Index!Recorded
            <4>2. PICK f \in Index!Recorded(indexer[b]) : TRUE
                BY <3>3, <1>i DEF IndexAnswers
            <4>3. f \in index.records /\ f.source = indexer[b].source /\ f.text = indexer[b].text
                BY DEF Index!Recorded
            <4>4. d \in index.records
                BY <4>1, <4>3, <1>2, <1>e, <1>p
            <4>5. d \in Index!Recorded(indexer[b]) /\ d.source \in Sources
                BY <4>1, <4>4, <1>t DEF Index!Recorded, Record
            <4>6. d.revision # Generation(d.source)
                BY <4>5, <3>3, <1>i DEF IndexAnswers
            <4> QED BY <4>4, <4>5, <4>6, <1>p, <1>s, <1>G, <1>g
        <3> QED BY <3>1, <3>2, <3>3, <1>i DEF IndexAnswers
    <2> QED BY <2>1, <2>2
<1> QED BY <1>6, <1>7, <1>8, <1>9 DEF IndexInv

\* No step of an attempt and no death breaks it.
LEMMA IndexStep == IndexInv /\ [Index!Next]_indexVars => IndexInv'
<1> SUFFICES ASSUME IndexInv, [Index!Next]_indexVars PROVE IndexInv'
    OBVIOUS
<1>i. IndexTypes /\ IndexRecords /\ IndexRows /\ IndexAnswers
    BY DEF IndexInv
<1>t. /\ index \in [identity : {"blank", "rag", "other"}, revision : Nat,
                  sources : [Sources -> Source \cup {None}],
                  chunks : SUBSET Chunk, fts : SUBSET Chunk, records : SUBSET Record]
      /\ indexer \in [Attempts -> Attempt]
    BY <1>i DEF IndexTypes
<1>1. ASSUME NEW a \in Attempts, NEW source \in Sources, NEW text \in Texts, Index!Start(a, source, text)
      PROVE  IndexInv'
    <2> DEFINE v == [Index!Idle EXCEPT !.at = "connect", !.source = source, !.text = text]
    <2>1. v \in Attempt /\ v.at = "connect" /\ v.source = source /\ v.text = text
        <3>1. Index!Idle \in Attempt
            BY DEF Index!Idle, Attempt
        <3> QED BY <3>1 DEF Attempt
    <2>2. /\ index' = index /\ writer' = writer /\ indexer[a].at = "idle"
          /\ indexer' = [indexer EXCEPT ![a] = v]
        BY <1>1 DEF Index!Start, Index!Idle
    <2> HIDE DEF v
    <2>3. IndexTypes'
        BY <1>i, <2>1, <2>2 DEF IndexTypes
    <2> QED BY <2>1, <2>2, <2>3, <1>t, IndexSame
<1>2. ASSUME NEW a \in Attempts, Index!Open(a) PROVE IndexInv'
    <2>1. /\ index' = [index EXCEPT !.identity = "rag"] /\ writer' = writer /\ indexer[a].at = "connect"
          /\ indexer' = [indexer EXCEPT ![a].at = "open"]
        BY <1>2 DEF Index!Open
    <2>2. /\ index'.records = index.records /\ index'.sources = index.sources
          /\ index'.revision = index.revision /\ index'.chunks = index.chunks /\ index'.fts = index.fts
        BY <2>1, <1>t
    <2>3. IndexTypes'
        <3>1. indexer' \in [Attempts -> Attempt]
            BY <2>1, <1>t DEF Attempt
        <3>2. \A b \in Attempts : indexer'[b].at # "idle" =>
                 indexer'[b].source \in Sources /\ indexer'[b].text \in Texts
            BY <2>1, <1>t, <1>i DEF IndexTypes, Attempt
        <3>3. writer # None => indexer'[writer].at = "begun"
            BY <2>1, <1>t, <1>i DEF IndexTypes, Attempt
        <3> QED BY <1>i, <1>t, <2>1, <3>1, <3>2, <3>3 DEF IndexTypes
    <2>4. /\ \A s : Index!Of(s)' = Index!Of(s) /\ Generation(s)' = Generation(s)
          /\ \A b \in Attempts : indexer'[b].at \in {"answered", "superseded"} => indexer'[b] = indexer[b]
          /\ \A b \in Attempts : Index!Recorded(indexer[b])' = Index!Recorded(indexer'[b])
        BY <2>1, <2>2, <1>t DEF Index!Of, Generation, Index!Recorded, Attempt
    <2>5. IndexRecords'
        BY <1>i, <2>2, <2>4 DEF IndexRecords
    <2>6. IndexRows'
        BY <1>i, <2>2 DEF IndexRows
    <2>7. IndexAnswers'
        <3> SUFFICES ASSUME NEW b \in Attempts, indexer'[b].at \in {"answered", "superseded"}
                     PROVE  /\ indexer'[b].at = "answered" => indexer'[b].answer \in Index!Recorded(indexer'[b])
                            /\ indexer'[b].at = "superseded" =>
                                  /\ Index!Recorded(indexer'[b]) # {}
                                  /\ \A e \in Index!Recorded(indexer'[b]) : e.revision # Generation(e.source)
            BY <2>4 DEF IndexAnswers
        <3> QED BY <2>4, <1>i DEF IndexAnswers
    <2> QED BY <2>3, <2>5, <2>6, <2>7 DEF IndexInv
<1>3. ASSUME NEW a \in Attempts, Index!Begin(a) PROVE IndexInv'
    <2>1. index' = index /\ writer' = a /\ indexer[a].at = "open" /\ indexer' = [indexer EXCEPT ![a].at = "begun"]
        BY <1>3 DEF Index!Begin
    <2>2. IndexTypes'
        <3>1. indexer' \in [Attempts -> Attempt]
            BY <2>1, <1>t DEF Attempt
        <3>2. \A b \in Attempts : indexer'[b].at # "idle" =>
                 indexer'[b].source \in Sources /\ indexer'[b].text \in Texts
            BY <2>1, <1>t, <1>i DEF IndexTypes, Attempt
        <3> QED BY <1>i, <1>t, <2>1, <3>1, <3>2 DEF IndexTypes, Attempt
    <2>3. \A b \in Attempts : indexer'[b].at \in {"answered", "superseded"} => indexer'[b] = indexer[b]
        BY <2>1, <1>t DEF Attempt
    <2> QED BY <2>1, <2>2, <2>3, IndexSame
<1>4. ASSUME NEW a \in Attempts, Index!Replay(a) PROVE IndexInv'
    <2>1. PICK e \in Index!Recorded(indexer[a]) :
             IF index.sources[e.source].text = e.text
             THEN Index!Return(a, "answered", e) ELSE Index!Return(a, "superseded", None)
        BY <1>4 DEF Index!Replay
    <2>2. /\ index' = index /\ writer = a /\ writer' = None /\ indexer[a].at = "begun"
          /\ indexer[a].source \in Sources /\ indexer[a].text \in Texts
        BY <1>4, <2>1, <1>i, PartsAssumption DEF Index!Replay, Index!Return, IndexTypes
    <2>3. /\ e \in index.records /\ e \in Record
          /\ e.source = indexer[a].source /\ e.text = indexer[a].text
        BY <1>t DEF Index!Recorded
    <2>4. PICK at \in {"answered", "superseded"}, got \in Record \cup {None} :
             /\ indexer' = [indexer EXCEPT ![a].at = at, ![a].answer = got]
             /\ at = "answered" => got = e
             /\ at = "superseded" => index.sources[e.source].text # e.text
        BY <2>1, <2>3 DEF Index!Return
    <2>5. IndexTypes'
        <3>1. indexer' \in [Attempts -> Attempt]
            <4>1. indexer[a] \in Attempt
                BY <1>t
            <4>2. [indexer[a] EXCEPT !.at = at, !.answer = got] \in Attempt
                BY <4>1 DEF Attempt
            <4> QED BY <4>2, <2>4, <1>t
        <3>2. \A b \in Attempts : indexer'[b].at # "idle" =>
                 indexer'[b].source \in Sources /\ indexer'[b].text \in Texts
            BY <2>2, <2>4, <1>t, <1>i DEF IndexTypes, Attempt
        <3> QED BY <1>t, <2>2, <3>1, <3>2 DEF IndexTypes
    <2>6. /\ indexer'[a].at = at /\ indexer'[a].answer = got
          /\ Index!Recorded(indexer'[a]) = Index!Recorded(indexer[a])
          /\ \A b \in Attempts : b # a => indexer'[b] = indexer[b]
        BY <2>4, <1>t DEF Attempt, Index!Recorded
    <2>7. at = "superseded" => \A f \in Index!Recorded(indexer[a]) : f.revision # Generation(f.source)
        <3> SUFFICES ASSUME at = "superseded", NEW f \in Index!Recorded(indexer[a]),
                            f.revision = Generation(f.source)
                     PROVE  FALSE
            OBVIOUS
        <3>1. f \in index.records /\ f.source = e.source /\ f.text = e.text
            BY <2>3 DEF Index!Recorded
        <3> QED BY <3>1, <2>4, <1>i DEF IndexRecords
    <2> QED BY <2>2, <2>4, <2>5, <2>6, <2>7, IndexSame
<1>5. ASSUME NEW a \in Attempts, Index!Fail(a) PROVE IndexInv'
    <2>1. /\ index' = index /\ writer' = IF writer = a THEN None ELSE writer
          /\ indexer' = [indexer EXCEPT ![a] =
                [at |-> "idle", source |-> None, text |-> None, answer |-> None]]
        BY <1>5 DEF Index!Fail, Index!Idle
    <2>2. IndexTypes'
        BY <1>i, <2>1 DEF IndexTypes, Attempt
    <2> QED BY <2>1, <2>2, <1>t, IndexSame
<1>6. CASE UNCHANGED indexVars
    BY <1>6, <1>i, IndexSame DEF indexVars, IndexTypes
<1> QED BY <1>1, <1>2, <1>3, <1>4, <1>5, <1>6, IndexReplace DEF Index!Next
-----------------------------------------------------------------------------
\* The theorems.  A step of the whole is a step of each component or leaves it
\* alone.

\* The steps of the artifact component.
LEMMA StoreSteps == [Next]_vars => [Store!Next]_storeVars
BY DEF Next, ToolNext, StreamNext, ProviderNext, McpNext, StoreNext, PageNext, CacheNext,
       ContextNext, SchemaNext, IndexNext, vars,
       toolVars, streamVars, callVars, mcpVars, storeVars, pageVars,
       cacheVars, contextVars, schemaVars, indexVars

\* The steps of the page component.
LEMMA PageSteps == [Next]_vars => [Page!Next]_pageVars
BY DEF Next, ToolNext, StreamNext, ProviderNext, McpNext, StoreNext, PageNext, CacheNext,
       ContextNext, SchemaNext, IndexNext, vars,
       toolVars, streamVars, callVars, mcpVars, storeVars, pageVars,
       cacheVars, contextVars, schemaVars, indexVars

\* The steps of the schema component.
LEMMA SchemaSteps == [Next]_vars => [Schema!Next]_schemaVars
BY DEF Next, ToolNext, StreamNext, ProviderNext, McpNext, StoreNext, PageNext, CacheNext,
       ContextNext, SchemaNext, IndexNext, vars,
       toolVars, streamVars, callVars, mcpVars, storeVars, pageVars,
       cacheVars, contextVars, schemaVars, indexVars

\* The steps of the index component.
LEMMA IndexSteps == [Next]_vars => [Index!Next]_indexVars
BY DEF Next, ToolNext, StreamNext, ProviderNext, McpNext, StoreNext, PageNext, CacheNext,
       ContextNext, SchemaNext, IndexNext, vars,
       toolVars, streamVars, callVars, mcpVars, storeVars, pageVars,
       cacheVars, contextVars, schemaVars, indexVars

\* A registered artifact can be read whatever puts, failures and crashes came
\* before it (the artifact store and its registration).
THEOREM NoArtifactDangles == Spec => []RefsAreReadable
<1>1. Init => StoreInv
    BY StoreInit DEF Init
<1>2. StoreInv /\ [Next]_vars => StoreInv'
    BY StoreStep, StoreSteps
<1>3. StoreInv => RefsAreReadable
    BY StoreSafe DEF RefsAreReadable
<1> QED BY <1>1, <1>2, <1>3, PTL DEF Spec

\* What the Workbench shows is the durable history of the run it shows, without
\* a gap or an event of another run, whatever answers come late or not at all.
THEOREM NothingFalseIsShown == Spec => []TimelineIsTheRuns
<1>1. Init => PageInv
    BY PageInit DEF Init
<1>2. PageInv /\ [Next]_vars => PageInv'
    BY PageStep, PageSteps
<1>3. PageInv => TimelineIsTheRuns
    BY PageSafe DEF TimelineIsTheRuns
<1> QED BY <1>1, <1>2, <1>3, PTL DEF Spec

\* A store that has been opened has its whole schema and is open once, whichever
\* processes opened, migrated or died before (the schema of the run store).
THEOREM OpenedMeansWhole == Spec => []SchemaIsWhole
<1> DEFINE Known == part = "schema" => SchemaInv
<1>1. Init => Known
    BY SchemaInit DEF Init
<1>2. Known /\ [Next]_vars => Known'
    <2> SUFFICES ASSUME Known, [Next]_vars, part' = "schema" PROVE SchemaInv'
        OBVIOUS
    <2>1. part' = part
        BY DEF Next, ToolNext, StreamNext, ProviderNext, McpNext, StoreNext, PageNext, CacheNext,
       ContextNext, SchemaNext, IndexNext, vars
    <2> QED BY <2>1, SchemaStep, SchemaSteps
<1>3. Known => SchemaIsWhole
    BY SchemaSafe DEF SchemaIsWhole
<1> HIDE DEF Known
<1> QED BY <1>1, <1>2, <1>3, PTL DEF Spec

\* The generations of an indexed source follow one another, however attempts
\* overlap and die.
THEOREM OneGenerationAtATime == Spec => []GenerationsAreLinear
<1>1. Init => IndexInv
    BY IndexInit DEF Init
<1>2. IndexInv /\ [Next]_vars => IndexInv'
    BY IndexStep, IndexSteps
<1>3. IndexInv => GenerationsAreLinear
    BY IndexSafe DEF GenerationsAreLinear
<1> QED BY <1>1, <1>2, <1>3, PTL DEF Spec

\* The owner opens only once every completed run has its result published.
THEOREM OpenMeansPublished == Spec => ReadyMeansPublished
<1>1. Init => StoreInv
    BY StoreInit DEF Init
<1>2. StoreInv /\ [Next]_vars => StoreInv'
    BY StoreStep, StoreSteps
<1>3. StoreInv /\ [Next]_vars =>
        [owner = "starting" /\ owner' = "open" =>
            \A r \in DOMAIN runs : runs[r].status = "completed" =>
                \E a \in rows : a.id = Store!ResultId(r)]_storeVars
    BY StoreReady, StoreSteps
<1> QED BY <1>1, <1>2, <1>3, PTL DEF Spec, ReadyMeansPublished, Store!ReadyMeansPublished, Store!vars, storeVars

\* As long as the page stays on a run, no answer shows an earlier revision of it
\* or another run.
THEOREM ViewOnlyAdvances == Spec => ViewNeverGoesBack
<1>1. Init => PageInv
    BY PageInit DEF Init
<1>2. PageInv /\ [Next]_vars => PageInv'
    BY PageStep, PageSteps
<1>3. PageInv /\ [Next]_vars =>
        [(view # None /\ active # None /\ active' = active /\ view.run = active.run) =>
            view'.run = view.run /\ view'.revision >= view.revision]_pageVars
    BY PageForward, PageSteps
<1> QED BY <1>1, <1>2, <1>3, PTL DEF Spec, ViewNeverGoesBack, Page!ViewNeverGoesBack, Page!vars, pageVars
=============================================================================
