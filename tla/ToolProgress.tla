---------------------------- MODULE ToolProgress ----------------------------
(***************************************************************************)
(* The progress events of one dispatched tool: _ToolProgressReporter and   *)
(* the drive that closes, drains or abandons it (runtime.py of             *)
(* sasori-core).                                                           *)
(*                                                                         *)
(* Three threads meet.  The tool reports from its own thread, which nobody *)
(* can stop once it has started.  The event loop runs callbacks in the     *)
(* order they were posted: _schedule for each accepted event and the       *)
(* wake-ups of the drive.  The sink is called in worker threads, one event *)
(* after the other.                                                        *)
(***************************************************************************)
EXTENDS Naturals, Sequences, SequencesExt

CONSTANTS
    MaxEvents,   \* MAX_TOOL_PROGRESS_EVENTS; the byte bound acts alike
    Wake         \* the drive in the queue of the loop

VARIABLES
    tool,        \* the tool's thread: "running" or "ended"
    drive,       \* "handling", "yielding", "gathering", "settled", "left"
    accepting,   \* _accepting
    sink,        \* _sink is set
    accepted,    \* _sequence
    ready,       \* callbacks posted to the loop: event numbers and Wake
    task,        \* of each event: "none", "posted", "waiting", "observing",
                 \* "done", "dropped", "cancelled", or "detached" when its task
                 \* was cancelled while the sink ran
    gathered     \* the tasks drain() waits for

vars == <<tool, drive, accepting, sink, accepted, ready, task, gathered>>

Events  == 1 .. MaxEvents
Pending == {n \in Events : task[n] \in {"waiting", "observing"}}

Init ==
    /\ tool = "running" /\ drive = "handling"
    /\ accepting = TRUE /\ sink = TRUE /\ accepted = 0
    /\ ready = <<>> /\ gathered = {}
    /\ task = [n \in Events |-> "none"]

\* Task.cancel on tasks: a sink that runs goes on in its thread.
Cancelled(tasks) ==
    [n \in Events |->
        IF n \notin tasks \cap Pending THEN task[n]
        ELSE IF task[n] = "observing" THEN "detached" ELSE "cancelled"]
-----------------------------------------------------------------------------
\* The tool's thread.

\* report: under the lock the event gets its number and is posted to the loop.
Report ==
    /\ tool = "running" /\ accepting /\ accepted < MaxEvents
    /\ accepted' = accepted + 1
    /\ task' = [task EXCEPT ![accepted'] = "posted"]
    /\ ready' = Append(ready, accepted')
    /\ UNCHANGED <<tool, drive, accepting, sink, gathered>>

\* The handler returns or raises; the drive hears of it through the loop, if it
\* still waits.
ToolEnds ==
    /\ tool = "running" /\ tool' = "ended"
    /\ ready' = IF drive = "handling" /\ Wake \notin {ready[i] : i \in DOMAIN ready}
                THEN Append(ready, Wake) ELSE ready
    /\ UNCHANGED <<drive, accepting, sink, accepted, task, gathered>>

\* The timer of tool_timeout.
Deadline ==
    /\ drive = "handling" /\ Wake \notin {ready[i] : i \in DOMAIN ready}
    /\ ready' = Append(ready, Wake)
    /\ UNCHANGED <<tool, drive, accepting, sink, accepted, task, gathered>>
-----------------------------------------------------------------------------
\* The event loop.

\* _schedule.
Schedule(n) ==
    /\ task' = [task EXCEPT ![n] = IF sink THEN "waiting" ELSE "dropped"]
    /\ ready' = Tail(ready)
    /\ UNCHANGED <<tool, drive, accepting, sink, accepted, gathered>>

\* drain() looks at the pending tasks: it waits for them, or it is over.
Await ==
    IF Pending = {} THEN drive' = "settled" /\ gathered' = {}
    ELSE drive' = "gathering" /\ gathered' = Pending

\* The drive wakes up from the handler: close(), and drain() yields once, so
\* that what was posted before runs first.
CloseAtOnce ==
    /\ drive = "handling"
    /\ accepting' = FALSE
    /\ Await
    /\ ready' = Tail(ready)
    /\ UNCHANGED <<tool, sink, accepted, task>>
Close ==
    /\ drive = "handling"
    /\ accepting' = FALSE
    /\ drive' = "yielding"
    /\ ready' = Append(Tail(ready), Wake)
    /\ UNCHANGED <<tool, sink, accepted, task, gathered>>

Drain ==
    /\ drive = "yielding"
    /\ Await
    /\ ready' = Tail(ready)
    /\ UNCHANGED <<tool, accepting, sink, accepted, task>>

LoopStep ==
    /\ ready # <<>>
    /\ IF Head(ready) = Wake THEN Close \/ Drain ELSE Schedule(Head(ready))

\* The gather is complete: drain() looks again.
Gathered ==
    /\ drive = "gathering" /\ gathered \cap Pending = {}
    /\ Await
    /\ UNCHANGED <<tool, accepting, sink, accepted, ready, task>>

\* _observe_tool_progress: an event waits for the task of the event before it,
\* however that one ended.
Observe(n) ==
    /\ task[n] = "waiting"
    /\ n > 1 => task[n - 1] \notin {"posted", "waiting", "observing"}
    /\ task' = [task EXCEPT ![n] = "observing"]
    /\ UNCHANGED <<tool, drive, accepting, sink, accepted, ready, gathered>>

\* The sink returns or raises.
Observed(n) ==
    /\ task[n] \in {"observing", "detached"}
    /\ task' = [task EXCEPT ![n] = IF @ = "observing" THEN "done" ELSE "cancelled"]
    /\ UNCHANGED <<tool, drive, accepting, sink, accepted, ready, gathered>>
-----------------------------------------------------------------------------
\* The cancellation of the drive.

\* The drive is in the queue once at most.
WithoutWake ==
    LET places == {i \in DOMAIN ready : ready[i] = Wake}
    IN  IF places = {} THEN ready ELSE RemoveAt(ready, CHOOSE i \in places : TRUE)

\* During the handler: abandon().
Abandon ==
    /\ drive = "handling" /\ drive' = "left"
    /\ accepting' = FALSE /\ sink' = FALSE
    /\ task' = Cancelled(Pending)
    /\ ready' = WithoutWake
    /\ UNCHANGED <<tool, accepted, gathered>>

\* During drain(): the tasks it waits for are cancelled with it, those it has
\* not seen yet go on.
CancelDrain ==
    /\ drive \in {"yielding", "gathering"} /\ drive' = "left"
    /\ task' = IF drive = "gathering" THEN Cancelled(gathered) ELSE task
    /\ gathered' = {}
    /\ ready' = WithoutWake
    /\ UNCHANGED <<tool, accepting, sink, accepted>>

Next ==
    \/ Report \/ ToolEnds \/ Deadline
    \/ LoopStep \/ Gathered
    \/ \E n \in Events : Observe(n) \/ Observed(n)
    \/ Abandon \/ CancelDrain

Spec == Init /\ [][Next]_vars
-----------------------------------------------------------------------------
\* Properties.

\* The result of a tool is committed only when each event it was told is
\* accepted has been observed, the tool's thread may run on or not, and the
\* sink hears of one event after the other, in their order.
ProgressPrecedesResult ==
    /\ drive = "settled" =>
          /\ \A n \in Events : n <= accepted => task[n] = "done"
          /\ ~accepting
    /\ \A n \in Events : task[n] = "observing" =>
          \A m \in 1 .. n - 1 : task[m] \in {"done", "cancelled"}
=============================================================================
