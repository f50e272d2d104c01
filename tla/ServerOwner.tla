---------------------------- MODULE ServerOwner ----------------------------
(***************************************************************************)
(* sasori.server: the HTTP server, its handler threads, and the owner      *)
(* thread whose event loop is the only one that touches the stores.        *)
(*                                                                         *)
(* A handler hands its operation to the loop with run_coroutine_threadsafe *)
(* and blocks on the future; create_server and server_close start and stop *)
(* the owner from a third thread.  The loop is a FIFO of callbacks:        *)
(*   create  the coroutine of a call becomes a task                        *)
(*   step    a task runs up to its next await                              *)
(*   deliver the outcome of a finished task is copied to its future        *)
(*   settle  the shutdown task runs;  stop  run_forever returns            *)
(*                                                                         *)
(* A definition Name_Variant is Name with the mistake its suffix names; no *)
(* specification uses it.                                                  *)
(***************************************************************************)
EXTENDS Naturals, Sequences, FiniteSets

CONSTANTS
    Conns,             \* connections clients make, one request each
    None,              \* no connection, no task
    MaxConnections,    \* permits of the BoundedSemaphore
    Requests           \* what the connections may ask for

\* What the requests ask of the owner.  A drive (POST runs, resume) awaits the
\* model and the tools under the gate; a decision (approval, effect) holds the
\* gate for one step; a put saves a workflow; a read answers a GET; a stream
\* is an SSE response, which reads again and again.
Kinds == {"drive", "decision", "put", "read", "stream"}
Exclusive(kind) == kind \in {"drive", "decision"}
Bounded(kind) == kind \in {"put", "read", "stream"}

ASSUME ServerAssumption ==
    /\ IsFiniteSet(Conns) /\ None \notin Conns
    /\ MaxConnections \in Nat \ {0}
    /\ \A kinds \in Requests : DOMAIN kinds \subseteq Conns /\ kinds \in [DOMAIN kinds -> Kinds]

\* How a call can end, and what the client is told.  _handle_exception marks
\* what it considers safe to repeat as retryable.
Outcomes == {"ok", "rejected", "busy", "shutting_down", "unavailable", "cancelled",
             "outcome_unknown"}
ASSUME NoneAssumption == None \notin Outcomes

Retryable(outcome) == outcome \in {"busy", "shutting_down"}

VARIABLES
    pc,        \* the owner thread
    state,     \* _state
    stopAsked, \* _stop_requested
    running,   \* _running
    started,   \* _ready
    failed,    \* _error is not None
    ready,     \* callbacks of the loop that are due
    task,      \* the task of each call
    future,    \* the concurrent future of each call
    gate,      \* the task holding _gate
    active,    \* _active_drive
    settle,    \* the shutdown task
    shutdown,  \* _shutdown_future
    main,      \* the thread of create_server and server_close
    closing,   \* SasoriHTTPServer._closing
    acceptor,  \* the connection process_request is working on
    permits,   \* _connections
    handlers,  \* _active_handlers
    conn,      \* the handler of each connection: where it is, its request, its answer
    effects    \* calls whose operation changed a store

thread == <<pc, state, stopAsked, running, started, failed>>
loop == <<ready, task, future, gate, active, settle, shutdown>>
http == <<closing, acceptor, permits, handlers, conn>>
vars == <<thread, loop, main, http, effects>>

Callback(kind, c) == [do |-> kind, call |-> c]
Callbacks == [do : {"create", "step", "deliver", "settle", "stop"}, call : Conns \cup {None}]
Handler == [at : {"absent", "calling", "waiting", "answered", "gone"},
            kind : Kinds, answer : Outcomes \cup {None}]

TypeOK ==
    /\ pc \in {"starting", "started", "announced", "looping", "closed"}
    /\ state \in {"OPEN", "CLOSING", "CLOSED"}
    /\ stopAsked \in BOOLEAN /\ running \in BOOLEAN /\ started \in BOOLEAN
    /\ failed \in BOOLEAN
    /\ ready \in Seq(Callbacks)
    /\ task \in [Conns -> {"none", "queued", "doomed", "awaiting", "cancelling"} \cup Outcomes]
    /\ future \in [Conns -> {"none", "pending", "abandoned"} \cup Outcomes]
    /\ gate \in Conns \cup {None} /\ active \in Conns \cup {None}
    /\ settle \in {"none", "queued", "grace", "await", "gather", "done"}
    /\ shutdown \in {"none", "pending", "done"}
    /\ main \in {"start", "bind", "serving", "stopping", "schedule", "settling", "join",
                 "drain", "closed", "incomplete", "aborted"}
    /\ closing \in BOOLEAN /\ acceptor \in Conns \cup {None}
    /\ permits \in 0 .. MaxConnections /\ handlers \in 0 .. Cardinality(Conns)
    /\ conn \in [Conns -> Handler]
    /\ effects \subseteq Conns

Init ==
    /\ pc = "starting" /\ state = "OPEN" /\ stopAsked = FALSE /\ running = FALSE
    /\ started = FALSE /\ failed = FALSE
    /\ ready = <<>>
    /\ task = [c \in Conns |-> "none"] /\ future = [c \in Conns |-> "none"]
    /\ gate = None /\ active = None /\ settle = "none" /\ shutdown = "none"
    /\ main = "start"
    /\ closing = FALSE /\ acceptor = None /\ permits = MaxConnections /\ handlers = 0
    /\ \E kinds \in Requests :
          conn = [c \in Conns |->
                     IF c \in DOMAIN kinds
                     THEN [at |-> "absent", kind |-> kinds[c], answer |-> None]
                     ELSE [at |-> "gone", kind |-> "read", answer |-> None]]
    /\ effects = {}

(***************************************************************************)
(* The owner thread                                                        *)
(***************************************************************************)
\* The finally block of _thread_main.  No task is left to be cancelled here:
\* the settling task has ended them, or the loop never ran.  loop.close drops
\* the callbacks that are due.
Wind(error) ==
    /\ pc' = "closed" /\ state' = "CLOSED" /\ running' = FALSE /\ started' = TRUE
    /\ failed' = error /\ ready' = <<>>
    /\ UNCHANGED stopAsked

\* The stores, the applications and the reconciliation come up, or one fails.
OpenStores ==
    /\ pc = "starting"
    /\ pc' = "started"
    /\ UNCHANGED <<state, stopAsked, running, started, failed, loop, main, http, effects>>

FailToOpen ==
    /\ pc = "starting"
    /\ Wind(TRUE)
    /\ UNCHANGED <<task, future, gate, active, settle, shutdown, main, http, effects>>

Announce ==
    /\ pc = "started"
    /\ \/ /\ stopAsked
          /\ Wind(FALSE)
       \/ /\ ~stopAsked
          /\ pc' = "announced" /\ running' = TRUE /\ started' = TRUE
          /\ UNCHANGED <<state, stopAsked, failed, ready>>
    /\ UNCHANGED <<task, future, gate, active, settle, shutdown, main, http, effects>>

EnterLoop ==
    /\ pc = "announced"
    /\ \/ /\ stopAsked
          /\ Wind(FALSE)
       \/ /\ ~stopAsked
          /\ pc' = "looping"
          /\ UNCHANGED <<state, stopAsked, running, started, failed, ready>>
    /\ UNCHANGED <<task, future, gate, active, settle, shutdown, main, http, effects>>

(***************************************************************************)
(* The loop                                                                *)
(***************************************************************************)
Due(kind) == pc = "looping" /\ ready # <<>> /\ Head(ready).do = kind
This == Head(ready).call
\* The loop goes on with what was due and with what this callback scheduled.
Then(more) == ready' = Tail(ready) \o more

End_GateKept(c, outcome) ==
    /\ task' = [task EXCEPT ![c] = outcome]
    /\ gate' = gate
    /\ active' = IF active = c THEN None ELSE active

\* A task ends: the copy of its outcome to the future is scheduled, and the
\* finally of _exclusive releases the gate.
End(c, outcome) ==
    /\ task' = [task EXCEPT ![c] = outcome]
    /\ gate' = IF gate = c THEN None ELSE gate
    /\ active' = IF active = c THEN None ELSE active

\* run_coroutine_threadsafe: a caller that gave up before its task existed
\* cancels the task as it is created, so that the operation never starts.  A
\* later cancellation is queued behind the only step such an operation has.
CreateTask ==
    /\ Due("create")
    /\ \/ /\ future[This] = "abandoned"
          /\ task' = [task EXCEPT ![This] = "cancelled"]
          /\ Then(<<>>)
       \/ /\ future[This] # "abandoned"
          /\ task' = [task EXCEPT ![This] = "queued"]
          /\ Then(<<Callback("step", This)>>)
    /\ UNCHANGED <<thread, future, gate, active, settle, shutdown, main, http, effects>>

\* _exclusive does not wait for the gate: it refuses.
Refusal == IF state # "OPEN" THEN "shutting_down"
           ELSE IF gate # None THEN "busy" ELSE None

\* A call that is one step long: a read, a put, a decision, or a drive that
\* does not come to its first await.  The application, the run or the workflow
\* it names may be missing or refuse it, before _exclusive is asked or after.
StepCall ==
    /\ Due("step") /\ task[This] = "queued"
    /\ LET kind == conn[This].kind
           refused == Exclusive(kind) /\ Refusal # None
       IN  \/ /\ refused
              /\ End(This, Refusal)
              /\ UNCHANGED effects
           \/ /\ End(This, "rejected")
              /\ UNCHANGED effects
           \/ /\ ~refused /\ kind # "drive"
              /\ End(This, "ok")
              /\ effects' = IF kind \in {"put", "decision"} THEN effects \cup {This} ELSE effects
    /\ Then(<<Callback("deliver", This)>>)
    /\ UNCHANGED <<thread, future, settle, shutdown, main, http>>

\* A drive takes the gate and runs up to where it awaits the model or a tool.
StepDrive ==
    /\ Due("step") /\ task[This] = "queued"
    /\ conn[This].kind = "drive" /\ Refusal = None
    /\ task' = [task EXCEPT ![This] = "awaiting"]
    /\ gate' = This /\ active' = This
    /\ effects' = effects \cup {This}
    /\ Then(<<>>)
    /\ UNCHANGED <<thread, future, settle, shutdown, main, http>>

\* A task that is cancelled before its first step never runs its operation.
StepCancelled ==
    /\ Due("step") /\ task[This] = "doomed"
    /\ End(This, "cancelled")
    /\ Then(<<Callback("deliver", This)>>)
    /\ UNCHANGED <<thread, future, settle, shutdown, main, http, effects>>

\* What a drive awaits answers, and the drive ends: the run is complete or
\* paused, or the drive raised.  A drive that is deaf to its cancellation gets
\* here too.
DriveEnds(c) ==
    /\ pc = "looping"
    /\ task[c] \in {"awaiting", "cancelling"}
    /\ \E outcome \in {"ok", "rejected"} : End(c, outcome)
    /\ ready' = Append(ready, Callback("deliver", c))
    /\ UNCHANGED <<thread, future, settle, shutdown, main, http, effects>>

\* A cancelled drive settles its run and raises.
DriveCancelled(c) ==
    /\ pc = "looping"
    /\ task[c] = "cancelling"
    /\ End(c, "cancelled")
    /\ ready' = Append(ready, Callback("deliver", c))
    /\ UNCHANGED <<thread, future, settle, shutdown, main, http, effects>>

\* The outcome reaches the future unless the caller has cancelled it.
Deliver ==
    /\ Due("deliver")
    /\ future' = [future EXCEPT ![This] = IF @ = "abandoned" THEN @ ELSE task[This]]
    /\ Then(<<>>)
    /\ UNCHANGED <<thread, task, gate, active, settle, shutdown, main, http, effects>>

(***************************************************************************)
(* The shutdown task, _settle                                              *)
(***************************************************************************)
Unfinished == {c \in Conns : task[c] \in {"queued", "doomed", "awaiting", "cancelling"}}

\* Every task but this one is cancelled, and gathered.
CancelAll ==
    /\ task' = [c \in Conns |-> CASE task[c] = "queued" -> "doomed"
                                  [] task[c] = "awaiting" -> "cancelling"
                                  [] OTHER -> task[c]]
    /\ settle' = "gather"

StartSettle ==
    /\ Due("settle")
    /\ \/ /\ active # None
          /\ settle' = "grace"
          /\ UNCHANGED task
       \/ /\ active = None
          /\ CancelAll
    /\ Then(<<>>)
    /\ UNCHANGED <<thread, future, gate, active, shutdown, main, http, effects>>

\* The grace period is over while the drive goes on: it is cancelled.
GraceEnds ==
    /\ pc = "looping" /\ settle = "grace" /\ active # None
    /\ task' = [task EXCEPT ![active] = "cancelling"]
    /\ settle' = "await"
    /\ UNCHANGED <<thread, ready, future, gate, active, shutdown, main, http, effects>>

DriveSettled ==
    /\ pc = "looping" /\ settle \in {"grace", "await"} /\ active = None
    /\ CancelAll
    /\ UNCHANGED <<thread, ready, future, gate, active, shutdown, main, http, effects>>

FinishSettle_NotGathered ==
    /\ pc = "looping" /\ settle = "gather"
    /\ settle' = "done" /\ shutdown' = "done"
    /\ ready' = Append(ready, Callback("stop", None))
    /\ UNCHANGED <<thread, task, future, gate, active, main, http, effects>>

\* The gather returns after the callbacks of the tasks it waits for, the
\* copies to their futures among them; _settled then stops the loop.
FinishSettle ==
    /\ pc = "looping" /\ settle = "gather"
    /\ Unfinished = {}
    /\ \A i \in DOMAIN ready : ready[i].do # "deliver"
    /\ settle' = "done" /\ shutdown' = "done"
    /\ ready' = Append(ready, Callback("stop", None))
    /\ UNCHANGED <<thread, task, future, gate, active, main, http, effects>>

StopLoop ==
    /\ Due("stop")
    /\ Wind(FALSE)
    /\ UNCHANGED <<task, future, gate, active, settle, shutdown, main, http, effects>>

(***************************************************************************)
(* Handler threads                                                         *)
(***************************************************************************)
\* process_request takes a permit, then counts the handler unless the server
\* began to close in between.
TakeConnection(c) ==
    /\ main \in {"serving", "stopping"} /\ acceptor = None
    /\ conn[c].at = "absent"
    /\ \/ /\ closing \/ permits = 0
          /\ conn' = [conn EXCEPT ![c].at = "gone", ![c].answer = "shutting_down"]
          /\ UNCHANGED <<acceptor, permits>>
       \/ /\ ~closing /\ permits > 0
          /\ permits' = permits - 1
          /\ acceptor' = c
          /\ UNCHANGED conn
    /\ UNCHANGED <<thread, loop, main, closing, handlers, effects>>

StartHandler_PermitLost ==
    /\ acceptor # None
    /\ acceptor' = None
    /\ \/ /\ closing
          /\ conn' = [conn EXCEPT ![acceptor].at = "gone", ![acceptor].answer = "shutting_down"]
          /\ UNCHANGED <<permits, handlers>>
       \/ /\ ~closing
          /\ handlers' = handlers + 1
          /\ conn' = [conn EXCEPT ![acceptor].at = "calling"]
          /\ UNCHANGED permits
    /\ UNCHANGED <<thread, loop, main, closing, effects>>

StartHandler ==
    /\ acceptor # None
    /\ acceptor' = None
    /\ \/ /\ closing
          /\ permits' = permits + 1
          /\ conn' = [conn EXCEPT ![acceptor].at = "gone", ![acceptor].answer = "shutting_down"]
          /\ UNCHANGED handlers
       \/ /\ ~closing
          /\ handlers' = handlers + 1
          /\ conn' = [conn EXCEPT ![acceptor].at = "calling"]
          /\ UNCHANGED permits
    /\ UNCHANGED <<thread, loop, main, closing, effects>>

Answer(c, outcome) ==
    conn' = [conn EXCEPT ![c].at = "answered", ![c].answer = outcome]

Refuse(c, outcome) ==
    /\ Answer(c, outcome)
    /\ UNCHANGED <<thread, loop, main, closing, acceptor, permits, handlers, effects>>

\* Before the owner is asked: a server that is closing answers so, at once and
\* between two reads of a stream; the headers may not be authorized.
RefuseHeaders(c) ==
    /\ conn[c].at = "calling"
    /\ \/ closing /\ Refuse(c, "shutting_down")
       \/ future[c] = "none" /\ Refuse(c, "rejected")

\* The path, the query, the cursor or the conditional headers are malformed.
RefusePath(c) ==
    /\ conn[c].at = "calling" /\ future[c] = "none"
    /\ Refuse(c, "rejected")

\* POST and PUT read a body that may be late, short, too large or no JSON object.
RefuseBody(c) ==
    /\ conn[c].at = "calling" /\ future[c] = "none"
    /\ conn[c].kind \in {"drive", "decision", "put"}
    /\ Refuse(c, "rejected")

\* _Owner.call admits and schedules an operation under the state lock.
Call(c) ==
    /\ conn[c].at = "calling"
    /\ \/ /\ state # "OPEN"
          /\ Answer(c, "shutting_down")
          /\ UNCHANGED <<task, ready, future>>
       \/ /\ state = "OPEN" /\ ~running
          /\ Answer(c, "unavailable")
          /\ UNCHANGED <<task, ready, future>>
       \/ /\ state = "OPEN" /\ running
          /\ conn' = [conn EXCEPT ![c].at = "waiting"]
          /\ task' = [task EXCEPT ![c] = "none"]
          /\ future' = [future EXCEPT ![c] = "pending"]
          /\ ready' = Append(ready, Callback("create", c))
    /\ UNCHANGED <<thread, gate, active, settle, shutdown, main, closing, acceptor, permits,
                   handlers, effects>>

\* What the caller is told when its future was cancelled on the loop's side:
\* call() raises, and do_PUT makes an unknown outcome of RuntimeBusy.
CancelledAnswer(c) ==
    IF state # "OPEN" THEN "shutting_down"
    ELSE IF conn[c].kind = "put" THEN "outcome_unknown" ELSE "busy"

Return(c) ==
    /\ conn[c].at = "waiting" /\ future[c] \in Outcomes
    /\ \/ /\ conn[c].kind = "stream" /\ future[c] = "ok" /\ ~closing
          /\ conn' = [conn EXCEPT ![c].at = "calling"]
       \/ Answer(c, IF future[c] = "cancelled" THEN CancelledAnswer(c) ELSE future[c])
    /\ UNCHANGED <<thread, loop, main, closing, acceptor, permits, handlers, effects>>

GiveUp_AsBusy(c) ==
    /\ conn[c].at = "waiting" /\ Bounded(conn[c].kind) /\ future[c] = "pending"
    /\ future' = [future EXCEPT ![c] = "abandoned"]
    /\ Answer(c, "busy")
    /\ UNCHANGED <<thread, task, ready, gate, active, settle, shutdown, main, closing,
                   acceptor, permits, handlers, effects>>

\* A call with a timeout gives up: it cancels its future, whatever became of
\* the operation.
GiveUp(c) ==
    /\ conn[c].at = "waiting" /\ Bounded(conn[c].kind) /\ future[c] = "pending"
    /\ future' = [future EXCEPT ![c] = "abandoned"]
    /\ Answer(c, IF conn[c].kind = "put" THEN "outcome_unknown" ELSE "busy")
    /\ UNCHANGED <<thread, task, ready, gate, active, settle, shutdown, main, closing,
                   acceptor, permits, handlers, effects>>

FinishHandler(c) ==
    /\ conn[c].at = "answered"
    /\ conn' = [conn EXCEPT ![c].at = "gone"]
    /\ permits' = permits + 1 /\ handlers' = handlers - 1
    /\ UNCHANGED <<thread, loop, main, closing, acceptor, effects>>

(***************************************************************************)
(* create_server and server_close                                          *)
(***************************************************************************)
MarkClosing ==
    /\ state' = IF state = "OPEN" THEN "CLOSING" ELSE state
    /\ stopAsked' = TRUE

\* start() sees the owner ready, or failed, or gives up waiting for it; then
\* it has the loop stopped, should it run after all.
StartReturns ==
    /\ main = "start" /\ started
    /\ main' = IF failed \/ state # "OPEN" THEN "aborted" ELSE "bind"
    /\ UNCHANGED <<thread, loop, http, effects>>

StartTimesOut ==
    /\ main = "start" /\ ~started
    /\ MarkClosing
    /\ ready' = Append(ready, Callback("stop", None))
    /\ main' = "aborted"
    /\ UNCHANGED <<pc, running, started, failed, task, future, gate, active, settle, shutdown,
                   http, effects>>

Serve ==
    /\ main = "bind"
    /\ main' = "serving"
    /\ UNCHANGED <<thread, loop, http, effects>>

\* shutdown() announces the end, and returns when serve_forever has finished
\* the connection it is working on.
Shutdown ==
    /\ main = "serving"
    /\ closing' = TRUE
    /\ main' = "stopping"
    /\ UNCHANGED <<thread, loop, acceptor, permits, handlers, conn, effects>>

\* owner.close() is called because the socket could not be bound, or by
\* server_close.
BeginClose ==
    /\ main = "bind" \/ (main = "stopping" /\ acceptor = None)
    /\ MarkClosing
    /\ main' = "schedule"
    /\ closing' = (main = "stopping")
    /\ UNCHANGED <<pc, running, started, failed, loop, acceptor, permits, handlers, conn,
                   effects>>

ScheduleSettle ==
    /\ main = "schedule"
    /\ \/ /\ ~running
          /\ main' = "join"
          /\ UNCHANGED <<ready, settle, shutdown>>
       \/ /\ running
          /\ ready' = Append(ready, Callback("settle", None))
          /\ settle' = "queued" /\ shutdown' = "pending"
          /\ main' = "settling"
    /\ UNCHANGED <<thread, task, future, gate, active, http, effects>>

SettleReturns ==
    /\ main = "settling" /\ shutdown = "done"
    /\ main' = "join"
    /\ UNCHANGED <<thread, loop, http, effects>>

Joined ==
    /\ main = "join" /\ pc = "closed"
    /\ main' = "drain"
    /\ UNCHANGED <<thread, loop, http, effects>>

Drained ==
    /\ main = "drain" /\ handlers = 0
    /\ main' = "closed"
    /\ UNCHANGED <<thread, loop, http, effects>>

\* A hard deadline passes: the settling, the thread or the handlers are late.
Deadline ==
    /\ main \in {"settling", "join", "drain"}
    /\ main' = "incomplete"
    /\ UNCHANGED <<thread, loop, http, effects>>

OwnerThread == \/ OpenStores \/ FailToOpen \/ Announce \/ EnterLoop \/ CreateTask \/ StepCall
               \/ StepDrive \/ StepCancelled \/ Deliver \/ StartSettle \/ GraceEnds
               \/ DriveSettled \/ FinishSettle \/ StopLoop
MainThread == \/ StartReturns \/ StartTimesOut \/ Serve \/ Shutdown \/ BeginClose
              \/ ScheduleSettle \/ SettleReturns \/ Joined \/ Drained \/ Deadline

Next ==
    \/ OwnerThread
    \/ MainThread
    \/ StartHandler
    \/ \E c \in Conns : \/ TakeConnection(c) \/ RefuseHeaders(c) \/ RefusePath(c) \/ RefuseBody(c)
                        \/ Call(c) \/ Return(c)
                        \/ GiveUp(c) \/ FinishHandler(c) \/ DriveEnds(c) \/ DriveCancelled(c)

Spec == Init /\ [][Next]_vars

\* Threads run.  What a drive awaits ends: models and tools have timeouts.  No
\* one has to connect, to stop the server, or to fail it.
FairSpec ==
    /\ Spec
    /\ WF_vars(OwnerThread)
    /\ WF_vars(StartHandler)
    /\ WF_vars(StartReturns \/ ScheduleSettle \/ SettleReturns \/ Joined \/ Drained)
    /\ \A c \in Conns : /\ WF_vars(Call(c) \/ Return(c) \/ FinishHandler(c))
                        /\ WF_vars(DriveEnds(c))

(***************************************************************************)
(* Properties                                                              *)
(***************************************************************************)
\* One mutation at a time: the gate is held by exactly the drive that awaits
\* under it, and shutdown finds that drive in _active_drive.
GateIsTheActiveDrive ==
    /\ gate = active
    /\ \A c \in Conns : task[c] \in {"awaiting", "cancelling"} <=> gate = c

\* A put or a decision that was answered with "repeat it later" did not happen
\* and will not: its task is finished or can no longer run.
RetryableMeansUndone ==
    \A c \in Conns : /\ conn[c].kind \in {"put", "decision"}
                     /\ Retryable(conn[c].answer)
                     => c \notin effects

\* After close() has returned without an error no operation is unfinished, no
\* caller is left with a pending future, and every handler gave back its permit.
CloseIsComplete ==
    main = "closed" => /\ state = "CLOSED"
                       /\ Unfinished = {}
                       /\ \A c \in Conns : future[c] # "pending"
                       /\ permits = MaxConnections

\* Nobody waits for ever: a call that was admitted to the running loop returns,
\* also when the server is stopped around it.
AdmittedCallsReturn ==
    \A c \in Conns : pc = "looping" /\ conn[c].at = "waiting" ~> conn[c].at # "waiting"

\* "Shutdown stops accepting owner calls and settles them before closing
\* artifacts" (ADR-0017): whatever was scheduled on the loop is settled when
\* the owner is closed, the shutdown itself included.
ClosedMeansSettled ==
    pc = "closed" => shutdown # "pending" /\ \A c \in Conns : future[c] # "pending"
=============================================================================
