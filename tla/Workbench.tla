----------------------------- MODULE Workbench ------------------------------
(***************************************************************************)
(* The Workbench page and the event stream it follows: the run gate and    *)
(* the event reducer (sasori_web/event-reducer.0.1.0.js), the asynchronous *)
(* functions of the page that load, watch and act on a run                 *)
(* (app.0.1.2.js), and the server's answers (server.py: _get_events, _sse).*)
(* A function of the page runs alone up to its next await; its answer may  *)
(* arrive after the view, or its watcher, has been replaced.               *)
(***************************************************************************)
EXTENDS Naturals, Sequences, FiniteSets

CONSTANTS
    Runs,
    Tasks,          \* bound: asynchronous functions at a time
    MaxEvents,      \* bound: durable events of each run
    MaxEpoch,       \* bound: views activated
    MaxActions,     \* bound: mutations requested
    MaxFaults,      \* bound: requests and streams that fail
    None

VARIABLES
    hist,     \* the durable events of each run
    epoch,    \* views activated so far
    active,   \* the active view: [run, epoch], or None
    watcher,  \* the number of the current watcher, or None
    watchers, \* watchers started so far
    view,     \* the projection shown: [run, revision, state], or None
    ledger,   \* the reducer: [run, cursor]
    tasks,    \* the asynchronous functions under way
    actions,  \* mutations requested so far
    broken,   \* the reducer met a gap or a conflict
    faults

page == <<epoch, active, watcher, watchers, view, ledger, broken>>
vars == <<hist, epoch, active, watcher, watchers, view, ledger, tasks, actions, broken, faults>>

Init ==
    /\ hist = [r \in Runs |-> <<>>]
    /\ epoch = 0 /\ active = None /\ watcher = None /\ watchers = 0
    /\ view = None /\ ledger = [run |-> None, cursor |-> 0]
    /\ tasks = [t \in Tasks |-> None]
    /\ actions = 0 /\ broken = FALSE /\ faults = 0
-----------------------------------------------------------------------------
\* The server.

\* What an event tells the page: the run goes on, it pauses, it is over, it is
\* cancelled with an effect in doubt, the operator settles that effect, or an
\* artifact of the run is available.
Types == {"step", "pause", "over", "doubt", "settled", "artifact"}

Over(r) == \E k \in DOMAIN hist[r] : hist[r][k] \in {"over", "doubt"}

\* A snapshot is committed with each event but artifact.available, which
\* register_artifact appends without a new one.
Commits(r) == {k \in DOMAIN hist[r] : hist[r][k] # "artifact"}
Revision(r) == Cardinality(Commits(r))
Last(r, type) == \E k \in Commits(r) : hist[r][k] = type /\ \A i \in Commits(r) : i <= k

\* A cancelled run whose effect is in doubt is over and waits for the operator.
Projection(r) ==
    [revision |-> Revision(r),
     state |-> CASE Last(r, "pause") -> "paused"
                 [] Last(r, "doubt") -> "doubt"
                 [] Last(r, "over") \/ Last(r, "settled") -> "over"
                 [] OTHER -> "running"]

\* resolve_effect settles the doubt of a cancelled run; the host publishes
\* artifacts of a run that has started, over or not, as often as it likes.
Commit(r, type) ==
    /\ Len(hist[r]) < MaxEvents[r]
    /\ CASE type = "step" -> ~Over(r)
         [] type = "settled" -> Last(r, "doubt")
         [] type = "artifact" -> hist[r] # <<>>
         [] OTHER -> ~Over(r) /\ hist[r] # <<>>
    /\ hist' = [hist EXCEPT ![r] = Append(@, type)]
    /\ UNCHANGED <<page, tasks, actions, faults>>
-----------------------------------------------------------------------------
\* The page's tasks.

Request(kind, run, e, w, pc) ==
    [kind |-> kind, run |-> run, epoch |-> e, watcher |-> w, pc |-> pc,
     answer |-> None, after |-> 0, state |-> "running",
     cursor |-> 0, pipe |-> <<>>, server |-> "idle"]

Free == {t \in Tasks : tasks[t] = None}
First == CHOOSE t \in Free : TRUE
Ended(t) == [tasks EXCEPT ![t] = None]

\* isActive, isWatcherActive: the task still serves what is shown.
Serves_SameRun(k) ==
    /\ active # None /\ active.run = k.run
    /\ k.kind = "watch" => watcher # None
Serves(k) ==
    /\ active # None /\ active.epoch = k.epoch
    /\ k.kind = "watch" => watcher = k.watcher

\* The answer of a status request or a mutation, and that of loadEvents; what
\* the server still does for an aborted request, nobody sees.
AnswerProjection(t) ==
    LET k == tasks[t] IN
    /\ k # None /\ k.pc \in {"get", "check", "post"} /\ k.answer = None /\ Serves(k)
    /\ hist[k.run] # <<>>
    /\ tasks' = [tasks EXCEPT ![t].answer = Projection(k.run)]
    /\ UNCHANGED <<hist, page, actions, faults>>

AnswerEvents(t) ==
    LET k == tasks[t] IN
    /\ k # None /\ k.pc = "events" /\ k.answer = None /\ Serves(k)
    /\ tasks' = [tasks EXCEPT ![t].answer = Len(hist[k.run])]
    /\ UNCHANGED <<hist, page, actions, faults>>

\* The abort of its view or its watcher has reached a task: it returns.
Drop(t) ==
    /\ tasks[t] # None /\ ~Serves(tasks[t])
    /\ tasks' = Ended(t)
    /\ UNCHANGED <<hist, page, actions, faults>>

\* setRunProjection never replaces a projection by an older one.
Newer_Always(k, p) == TRUE
Newer(k, p) == view = None \/ view.run # k.run \/ p.revision >= view.revision
Shown(k, p) ==
    IF Newer(k, p) THEN [run |-> k.run, revision |-> p.revision, state |-> p.state] ELSE view

\* The watch is over, and startWatching's finally clears the watcher.
StopWatch(t) == tasks' = Ended(t) /\ watcher' = None

ToEvents(t, k) ==
    tasks' = [tasks EXCEPT ![t] = [k EXCEPT !.pc = "events", !.answer = None,
                                            !.after = ledger.cursor,
                                            !.state = IF k.kind \in {"open", "resume"}
                                                       THEN k.answer.state ELSE @]]

ReceiveProjection(t) ==
    LET k == tasks[t] IN
    /\ k # None /\ k.pc \in {"get", "check", "post"} /\ k.answer # None /\ Serves(k)
    /\ view' = Shown(k, k.answer)
    /\ IF k.pc # "check" THEN ToEvents(t, k) /\ UNCHANGED watcher
       ELSE IF view'.state # "running" THEN StopWatch(t)
       ELSE tasks' = [tasks EXCEPT ![t] = [k EXCEPT !.pc = "get", !.answer = None]]
            /\ UNCHANGED watcher
    /\ UNCHANGED <<hist, epoch, active, watchers, ledger, actions, broken, faults>>

\* reduceEvent over consecutive events: those it has are skipped, the next
\* ones extend the ledger, and a gap is an EventProjectionError.
Reduce(run, first, last) ==
    IF ledger.run # run \/ last < first THEN UNCHANGED <<ledger, broken>>
    ELSE IF first > ledger.cursor + 1 THEN broken' = TRUE /\ UNCHANGED ledger
    ELSE /\ ledger' = [ledger EXCEPT !.cursor = IF last > @ THEN last ELSE @]
         /\ UNCHANGED broken

StartWatch(t, k) ==
    /\ watchers' = watchers + 1 /\ watcher' = watchers + 1
    /\ tasks' = [tasks EXCEPT ![t] = Request("watch", k.run, k.epoch, watchers + 1, "get")]

ReceiveEvents(t) ==
    LET k == tasks[t] IN
    /\ k # None /\ k.pc = "events" /\ k.answer # None /\ Serves(k)
    /\ Reduce(k.run, k.after + 1, k.answer)
    /\ CASE k.kind = "watch" /\ view.state = "running" ->
              /\ tasks' = [tasks EXCEPT ![t] = [k EXCEPT !.pc = "connect", !.answer = None, !.after = 0]]
              /\ UNCHANGED <<watcher, watchers>>
         [] k.kind = "watch" /\ view.state # "running" -> StopWatch(t) /\ UNCHANGED watchers
         [] k.kind \in {"open", "resume"} /\ k.state = "running" -> StartWatch(t, k)
         [] OTHER -> tasks' = Ended(t) /\ UNCHANGED <<watcher, watchers>>
    /\ UNCHANGED <<hist, epoch, active, view, actions, faults>>

\* A request fails, for want of a run (404) or of a network: a watcher waits
\* and starts over, createRun and resumeRun load the run once more, whichever of
\* their two requests it was, and anything else gives up.
Fail(t) ==
    LET k == tasks[t] IN
    /\ k # None /\ k.pc \notin {"stream", "delay"} /\ k.answer = None /\ Serves(k)
    /\ IF hist[k.run] = <<>> /\ k.pc # "post" THEN UNCHANGED faults
       ELSE faults < MaxFaults /\ faults' = faults + 1
    /\ tasks' = CASE k.kind = "watch" -> [tasks EXCEPT ![t].pc = "delay", ![t].after = 0]
                  [] k.kind \in {"create", "resume"} ->
                       [tasks EXCEPT ![t] = Request("refresh", k.run, k.epoch, None, "get")]
                  [] OTHER -> Ended(t)
    /\ UNCHANGED <<hist, page, actions>>

DelayEnds(t) ==
    /\ tasks[t] # None /\ tasks[t].pc = "delay" /\ Serves(tasks[t])
    /\ tasks' = [tasks EXCEPT ![t].pc = "get"]
    /\ UNCHANGED <<hist, page, actions, faults>>
-----------------------------------------------------------------------------
\* The event stream: _sse reads a batch, writes it, and looks at the state.

Stream(t) == tasks[t] # None /\ tasks[t].pc = "stream" /\ Serves(tasks[t])

\* The cursor is the one of the request the page sends.
Connect(t) ==
    LET k == tasks[t] IN
    /\ k # None /\ k.pc = "connect" /\ Serves(k)
    /\ tasks' = [tasks EXCEPT ![t] = [k EXCEPT !.pc = "stream", !.cursor = ledger.cursor,
                                               !.pipe = <<>>, !.server = "batch"]]
    /\ UNCHANGED <<hist, page, actions, faults>>

\* The stream closes on a batch that ends with the terminal event.
SendBatch(t) ==
    LET k == tasks[t]
        last == Len(hist[k.run]) IN
    /\ Stream(t) /\ k.server = "batch"
    /\ tasks' = [tasks EXCEPT ![t] = [k EXCEPT
           !.pipe = @ \o [i \in 1 .. last - k.cursor |-> k.cursor + i],
           !.cursor = last,
           !.server = IF last > k.cursor /\ hist[k.run][last] \in {"over", "doubt"}
                      THEN "closed" ELSE "state"]]
    /\ UNCHANGED <<hist, page, actions, faults>>

\* It also closes when its time is up, and on a terminal state: one committed
\* since the batch was read leaves its event unsent.
CheckState(t) ==
    /\ Stream(t) /\ tasks[t].server = "state"
    /\ \E s \in (IF Over(tasks[t].run) THEN {"closed"} ELSE {"batch", "closed"}) :
          tasks' = [tasks EXCEPT ![t].server = s]
    /\ UNCHANGED <<hist, page, actions, faults>>

\* The connection is lost with what it held, between two frames or in one: the
\* page reconnects, or stops at an incomplete frame.
Cut(t) ==
    /\ Stream(t) /\ faults < MaxFaults /\ faults' = faults + 1
    /\ \/ /\ tasks' = [tasks EXCEPT ![t] = [@ EXCEPT !.pc = "delay", !.pipe = <<>>,
                                                        !.cursor = 0, !.server = "idle"]]
          /\ UNCHANGED watcher
       \/ StopWatch(t)
    /\ UNCHANGED <<hist, epoch, active, watchers, view, ledger, actions, broken>>

ReadFrame(t) ==
    LET k == tasks[t] IN
    /\ Stream(t) /\ k.pipe # <<>>
    /\ Reduce(k.run, Head(k.pipe), Head(k.pipe))
    /\ tasks' = [tasks EXCEPT ![t].pipe = Tail(@)]
    /\ UNCHANGED <<hist, epoch, active, watcher, watchers, view, actions, faults>>

EndOfStream(t) ==
    /\ Stream(t) /\ tasks[t].pipe = <<>> /\ tasks[t].server = "closed"
    /\ tasks' = [tasks EXCEPT ![t] = [@ EXCEPT !.pc = "check", !.server = "idle", !.cursor = 0]]
    /\ UNCHANGED <<hist, page, actions, faults>>
-----------------------------------------------------------------------------
\* The operator.

\* activateRun: a new view, whose ledger starts empty.
Activate(r) ==
    /\ epoch < MaxEpoch /\ epoch' = epoch + 1
    /\ active' = [run |-> r, epoch |-> epoch + 1]
    /\ ledger' = [run |-> r, cursor |-> 0]

OpenRun(r) ==
    /\ Activate(r) /\ watcher' = None
    /\ Free # {}
    /\ tasks' = [tasks EXCEPT ![First] = Request("open", r, epoch + 1, None, "get")]
    /\ UNCHANGED <<hist, watchers, view, actions, broken, faults>>

\* createRun shows a projection of its own making, watches and posts.
CreateRun(r) ==
    /\ hist[r] = <<>> /\ actions < MaxActions /\ actions' = actions + 1
    /\ Activate(r)
    /\ view' = [run |-> r, revision |-> 0, state |-> "running"]
    /\ watchers' = watchers + 1 /\ watcher' = watchers + 1
    /\ \E t \in Free \ {First} :
          tasks' = [tasks EXCEPT ![First] = Request("create", r, epoch + 1, None, "post"),
                                 ![t] = Request("watch", r, epoch + 1, watchers + 1, "get")]
    /\ UNCHANGED <<hist, broken, faults>>

\* resumeRun; and resolveApproval or resolveRecovery, which leave the run for
\* the operator to resume, or settle a run that is cancelled.
Mutate(kind) ==
    /\ view # None /\ active # None /\ view.run = active.run
    /\ view.state = "paused" \/ (kind = "resolve" /\ view.state = "doubt")
    /\ actions < MaxActions /\ actions' = actions + 1
    /\ watcher' = None
    /\ Free # {}
    /\ tasks' = [tasks EXCEPT ![First] = Request(kind, active.run, active.epoch, None, "post")]
    /\ UNCHANGED <<hist, epoch, active, watchers, view, ledger, broken, faults>>

Next ==
    \/ \E r \in Runs :
          \/ OpenRun(r) \/ CreateRun(r)
          \/ \E type \in Types : Commit(r, type)
    \/ Mutate("resume") \/ Mutate("resolve")
    \/ \E t \in Tasks :
          \/ AnswerProjection(t) \/ AnswerEvents(t) \/ Drop(t)
          \/ ReceiveProjection(t) \/ ReceiveEvents(t) \/ Fail(t) \/ DelayEnds(t)
          \/ Connect(t) \/ SendBatch(t) \/ CheckState(t) \/ Cut(t)
          \/ ReadFrame(t) \/ EndOfStream(t)

Spec == Init /\ [][Next]_vars
-----------------------------------------------------------------------------
\* Loads, live frames, cuts and reconnections, of this view or of views that
\* were left, make one gap-free timeline: that of the run shown.
TimelineIsTheRuns ==
    /\ ~broken
    /\ active # None => ledger.run = active.run /\ ledger.cursor <= Len(hist[active.run])

\* As long as a run stays selected, no late answer takes its view back.
ViewNeverGoesBack ==
    [][(view # None /\ active # None /\ active' = active /\ view.run = active.run) =>
          view'.run = view.run /\ view'.revision >= view.revision]_vars
=============================================================================
