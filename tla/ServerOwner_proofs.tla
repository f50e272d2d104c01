------------------------- MODULE ServerOwner_proofs -------------------------
(***************************************************************************)
(* Safety of ServerOwner for any number of connections, permits and        *)
(* requests: the gate is held by exactly the active drive, an answer that  *)
(* says "repeat it" is given only for what never happened, and close()     *)
(* leaves nothing unfinished.                                              *)
(***************************************************************************)
EXTENDS ServerOwner, FiniteSetTheorems, TLAPS

\* The place of a call decides which of its callbacks is due: one at most, and
\* none once its future has an outcome.
Fits(cb) ==
    /\ cb.do \in {"settle", "stop"} => cb.call = None
    /\ cb.do \notin {"settle", "stop"} =>
          cb.call \in Conns /\ future[cb.call] \in {"pending", "abandoned"}
    /\ cb.do = "create" => task[cb.call] = "none"
    /\ cb.do = "step" => task[cb.call] \in {"queued", "doomed"}
    /\ cb.do = "deliver" => task[cb.call] \in Outcomes

QueueInv ==
    /\ \A i \in DOMAIN ready : Fits(ready[i])
    /\ \A i, j \in DOMAIN ready :
          ready[i].call = ready[j].call /\ i # j => ready[i].call = None

\* How a call's connection, future and task go together.
CallInv ==
    \A c \in Conns :
        /\ future[c] = "none" => task[c] = "none"
        /\ future[c] \in Outcomes => task[c] = future[c]
        /\ future[c] = "pending" => conn[c].at = "waiting"
        /\ conn[c].at = "absent" => future[c] = "none"
        /\ conn[c].at = "calling" =>
              future[c] = "none" \/ (future[c] = "ok" /\ conn[c].kind = "stream")
        /\ conn[c].at \in {"absent", "calling", "waiting"} => conn[c].answer = None

\* A put or a decision takes effect with the outcome "ok", and one that was
\* refused for now is over.
EffectInv ==
    \A c \in Conns :
        conn[c].kind \in {"put", "decision"} =>
            /\ c \in effects => task[c] = "ok"
            /\ Retryable(conn[c].answer) =>
                  c \notin effects /\ future[c] \in {"none"} \cup Outcomes

\* The shutdown task is scheduled once, behind every call that was admitted.
Settling == {"grace", "await", "gather", "done"}
SettleInv ==
    /\ settle # "none" => state # "OPEN"
    /\ \A i \in DOMAIN ready :
          /\ ready[i].do = "create" => settle \notin Settling
          /\ ready[i].do = "stop" => settle = "done" \/ main = "aborted"
          /\ ready[i].do = "settle" =>
                /\ settle = "queued"
                /\ \A j \in DOMAIN ready : j # i => ready[j].do # "settle"
                /\ \A j \in DOMAIN ready : j > i => ready[j].do # "create"
    /\ settle = "done" => Unfinished = {}

\* Where the two threads are.
LifeInv ==
    /\ pc = "closed" => state = "CLOSED" /\ (main = "aborted" \/ Unfinished = {})
    /\ pc \in {"starting", "started", "announced"} => Unfinished = {}
    /\ main \in {"start", "bind", "serving", "stopping", "schedule"} => settle = "none"
    /\ main \in {"schedule", "settling", "join", "drain", "closed", "incomplete"} =>
          state # "OPEN"
    /\ main \in {"drain", "closed"} => pc = "closed"

\* Every permit is with a handler or with the acceptor.
Busy == {c \in Conns : conn[c].at \in {"calling", "waiting", "answered"}}
PermitInv ==
    /\ handlers = Cardinality(Busy)
    /\ permits + handlers + (IF acceptor = None THEN 0 ELSE 1) = MaxConnections
    /\ acceptor # None => conn[acceptor].at = "absent"
    /\ main \notin {"serving", "stopping"} => acceptor = None
    /\ main = "closed" => handlers = 0

IInv ==
    /\ TypeOK /\ GateIsTheActiveDrive
    /\ QueueInv /\ CallInv /\ EffectInv /\ SettleInv /\ LifeInv /\ PermitInv
-----------------------------------------------------------------------------
\* The queue of callbacks.

\* The first callback of a queue is due.
LEMMA DueHead ==
    ASSUME ready \in Seq(Callbacks), NEW kind, Due(kind)
    PROVE  /\ 1 \in DOMAIN ready /\ Head(ready) = ready[1] /\ ready[1].do = kind
           /\ This = ready[1].call /\ ready[1] \in Callbacks
BY DEF Due, This

\* The loop runs a callback that schedules nothing.
LEMMA Popped ==
    ASSUME ready \in Seq(Callbacks), ready # <<>>, Then(<<>>)
    PROVE  /\ ready' \in Seq(Callbacks)
           /\ \A i \in DOMAIN ready' :
                 i \in Nat /\ i + 1 \in DOMAIN ready /\ ready'[i] = ready[i + 1]
<1>1. Tail(ready) \in Seq(Callbacks) /\ Len(Tail(ready)) = Len(ready) - 1
      /\ \A i \in 1 .. Len(ready) - 1 : Tail(ready)[i] = ready[i + 1]
    OBVIOUS
<1>2. \A s \in Seq(Callbacks) : s \o <<>> = s
    OBVIOUS
<1>3. ready' = Tail(ready)
    BY <1>1, <1>2 DEF Then
<1> QED BY <1>1, <1>3

\* The loop runs a callback that schedules another.
LEMMA PoppedPushed ==
    ASSUME ready \in Seq(Callbacks), ready # <<>>, NEW cb \in Callbacks, Then(<<cb>>)
    PROVE  /\ ready' \in Seq(Callbacks)
           /\ \A i \in DOMAIN ready' : i \in Nat /\
                 \/ i + 1 \in DOMAIN ready /\ ready'[i] = ready[i + 1]
                 \/ i = Len(ready) /\ ready'[i] = cb
<1>1. Tail(ready) \in Seq(Callbacks) /\ Len(Tail(ready)) = Len(ready) - 1
      /\ \A i \in 1 .. Len(ready) - 1 : Tail(ready)[i] = ready[i + 1]
    OBVIOUS
<1>2. \A s \in Seq(Callbacks) : s \o <<cb>> = Append(s, cb)
    BY SMTT(30)
<1>3. ready' = Append(Tail(ready), cb)
    BY <1>1, <1>2 DEF Then
<1> QED BY <1>1, <1>3

\* Another thread, or a task that ends, schedules a callback.
LEMMA Pushed ==
    ASSUME ready \in Seq(Callbacks), NEW cb \in Callbacks, ready' = Append(ready, cb)
    PROVE  /\ ready' \in Seq(Callbacks)
           /\ \A i \in DOMAIN ready' : i \in Nat /\
                 \/ i \in DOMAIN ready /\ ready'[i] = ready[i]
                 \/ i = Len(ready) + 1 /\ i \notin DOMAIN ready /\ ready'[i] = cb
OBVIOUS

\* A callback of the loop.
LEMMA CallbackType ==
    /\ \A kind \in {"create", "step", "deliver", "settle", "stop"}, c \in Conns \cup {None} :
          Callback(kind, c) \in Callbacks
    /\ \A kind, c : Callback(kind, c).do = kind /\ Callback(kind, c).call = c
BY DEF Callback, Callbacks

-----------------------------------------------------------------------------
\* Connections.

\* A connection that moves on.
LEMMA ConnMoves ==
    ASSUME conn \in [Conns -> Handler], NEW c \in Conns,
           NEW at \in {"absent", "calling", "waiting", "answered", "gone"},
           conn' = [conn EXCEPT ![c].at = at]
    PROVE  /\ conn' \in [Conns -> Handler]
           /\ conn'[c].at = at /\ conn'[c].kind = conn[c].kind
           /\ conn'[c].answer = conn[c].answer
           /\ \A d \in Conns \ {c} : conn'[d] = conn[d]
BY DEF Handler

\* A connection that is answered.
LEMMA ConnAnswered ==
    ASSUME conn \in [Conns -> Handler], NEW c \in Conns,
           NEW at \in {"absent", "calling", "waiting", "answered", "gone"},
           NEW outcome \in Outcomes,
           conn' = [conn EXCEPT ![c].at = at, ![c].answer = outcome]
    PROVE  /\ conn' \in [Conns -> Handler]
           /\ conn'[c].at = at /\ conn'[c].kind = conn[c].kind
           /\ conn'[c].answer = outcome
           /\ \A d \in Conns \ {c} : conn'[d] = conn[d]
BY DEF Handler

-----------------------------------------------------------------------------
\* The gate.

\* What the invariant says of one queued or finished call.
LEMMA NotActive ==
    ASSUME GateIsTheActiveDrive, NEW c \in Conns, task[c] \notin {"awaiting", "cancelling"}
    PROVE  gate # c /\ active # c
BY DEF GateIsTheActiveDrive

\* The gate follows the active drive through every step.
LEMMA GateStep ==
    ASSUME IInv, [Next]_vars
    PROVE  GateIsTheActiveDrive'
<1>0. /\ TypeOK /\ GateIsTheActiveDrive /\ QueueInv /\ CallInv
      /\ ready \in Seq(Callbacks) /\ None \notin Conns
      /\ task \in [Conns -> {"none", "queued", "doomed", "awaiting", "cancelling"}
                             \cup Outcomes]
      /\ gate \in Conns \cup {None} /\ gate = active
    BY ServerAssumption DEF IInv, TypeOK, GateIsTheActiveDrive
<1>e. ASSUME NEW c \in Conns, NEW outcome \in Outcomes, End(c, outcome)
      PROVE  GateIsTheActiveDrive'
    BY <1>e, <1>0 DEF End, GateIsTheActiveDrive, Outcomes
<1>c. ASSUME CancelAll, UNCHANGED <<gate, active>>
      PROVE  GateIsTheActiveDrive'
    BY <1>c, <1>0 DEF CancelAll, GateIsTheActiveDrive, Outcomes
<1>1. CASE UNCHANGED <<task, gate, active>>
    BY <1>1, <1>0 DEF GateIsTheActiveDrive
<1>2. CASE CreateTask
    <2>1. This \in Conns /\ task[This] = "none"
        BY <1>2, <1>0, DueHead DEF CreateTask, QueueInv, Fits
    <2>2. /\ task' = [task EXCEPT ![This] = "cancelled"]
             \/ task' = [task EXCEPT ![This] = "queued"]
          /\ UNCHANGED <<gate, active>>
        BY <1>2 DEF CreateTask
    <2> QED BY <2>1, <2>2, <1>0 DEF GateIsTheActiveDrive
<1>3. CASE StepCall
    <2>1. This \in Conns
        BY <1>3, <1>0, DueHead DEF StepCall, QueueInv, Fits
    <2>2. Refusal # None => Refusal \in Outcomes
        BY DEF Refusal, Outcomes
    <2> QED BY <1>3, <2>1, <2>2, <1>e DEF StepCall, Outcomes
<1>4. CASE StepDrive
    <2>1. This \in Conns
        BY <1>4, <1>0, DueHead DEF StepDrive, QueueInv, Fits
    <2>2. gate = None
        BY <1>4, NoneAssumption DEF StepDrive, Refusal, Outcomes
    <2> QED BY <1>4, <2>1, <2>2, <1>0 DEF StepDrive, GateIsTheActiveDrive
<1>5. CASE StepCancelled
    <2>1. This \in Conns
        BY <1>5, <1>0, DueHead DEF StepCancelled, QueueInv, Fits
    <2> QED BY <1>5, <2>1, <1>e DEF StepCancelled, Outcomes
<1>6. ASSUME NEW c \in Conns, DriveEnds(c) \/ DriveCancelled(c)
      PROVE  GateIsTheActiveDrive'
    BY <1>6, <1>e DEF DriveEnds, DriveCancelled, Outcomes
<1>7. CASE StartSettle \/ DriveSettled
    BY <1>7, <1>1, <1>c DEF StartSettle, DriveSettled
<1>8. CASE GraceEnds
    BY <1>8, <1>0 DEF GraceEnds, GateIsTheActiveDrive
<1>9. ASSUME NEW c \in Conns, Call(c)
      PROVE  GateIsTheActiveDrive'
    <2>1. task[c] \notin {"awaiting", "cancelling"}
        BY <1>9, <1>0 DEF Call, CallInv, Outcomes
    <2>2. task' = task \/ task' = [task EXCEPT ![c] = "none"]
        BY <1>9 DEF Call
    <2>3. UNCHANGED <<gate, active>>
        BY <1>9 DEF Call
    <2> QED BY <2>1, <2>2, <2>3, <1>0 DEF GateIsTheActiveDrive
<1> QED
    BY <1>1, <1>2, <1>3, <1>4, <1>5, <1>6, <1>7, <1>8, <1>9
    DEF Next, OwnerThread, MainThread, vars, loop, OpenStores, FailToOpen, Announce, EnterLoop,
        Deliver, FinishSettle, StopLoop, TakeConnection, StartHandler, RefuseHeaders,
        RefusePath, RefuseBody, Refuse, Return, GiveUp, FinishHandler, StartReturns,
        StartTimesOut, Serve, Shutdown, BeginClose, ScheduleSettle, SettleReturns, Joined,
        Drained, Deadline
-----------------------------------------------------------------------------
\* Calls: how the place of a call's connection, its future and its task agree.

\* The facts about one callback that every action of the loop starts from.
LEMMA DueCall ==
    ASSUME TypeOK, QueueInv, NEW kind \in {"create", "step", "deliver"}, Due(kind)
    PROVE  /\ ready \in Seq(Callbacks) /\ ready # <<>> /\ pc = "looping"
           /\ 1 \in DOMAIN ready /\ This = ready[1].call /\ ready[1].do = kind
           /\ This \in Conns /\ Fits(ready[1])
           /\ future[This] \in {"pending", "abandoned"}
           /\ kind = "create" => task[This] = "none"
           /\ kind = "step" => task[This] \in {"queued", "doomed"}
           /\ kind = "deliver" => task[This] \in Outcomes
<1>1. ready \in Seq(Callbacks) /\ ready # <<>> /\ pc = "looping"
    BY DEF TypeOK, Due
<1>2. 1 \in DOMAIN ready /\ This = ready[1].call /\ ready[1].do = kind
    BY <1>1, DueHead
<1>3. Fits(ready[1])
    BY <1>2 DEF QueueInv
<1> QED BY <1>1, <1>2, <1>3 DEF Fits

\* The task of an unfinished call moves.
LEMMA TaskMoves ==
    ASSUME CallInv, NEW c \in Conns, future[c] \notin {"none"} \cup Outcomes,
           \A d \in Conns \ {c} : task'[d] = task[d], UNCHANGED <<future, conn>>
    PROVE  CallInv'
BY DEF CallInv

\* A call is unfinished as long as its task may run.
LEMMA UnfinishedCall ==
    ASSUME CallInv, NEW c \in Unfinished
    PROVE  c \in Conns /\ future[c] \notin {"none"} \cup Outcomes
BY DEF CallInv, Unfinished, Outcomes

\* What the end of a task leaves alone.
LEMMA EndFrame ==
    ASSUME TypeOK, NEW c \in Conns, NEW outcome \in Outcomes, End(c, outcome)
    PROVE  /\ task'[c] = outcome /\ \A d \in Conns \ {c} : task'[d] = task[d]
           /\ task' \in [Conns -> {"none", "queued", "doomed", "awaiting", "cancelling"}
                                  \cup Outcomes]
           /\ gate' \in Conns \cup {None} /\ active' \in Conns \cup {None}
BY DEF TypeOK, End

\* The one step of a call ends it: with a refusal, a rejection or an effect.
LEMMA StepCallEnds ==
    ASSUME TypeOK, QueueInv, StepCall
    PROVE  \E outcome \in Outcomes :
              /\ End(This, outcome)
              /\ effects' = effects \/ (outcome = "ok" /\ effects' = effects \cup {This})
<1>1. Refusal # None => Refusal \in Outcomes
    BY DEF Refusal, Outcomes
<1>2. {"ok", "rejected"} \subseteq Outcomes
    BY DEF Outcomes
<1> QED BY <1>1, <1>2 DEF StepCall

\* CancelAll changes unfinished tasks only, and leaves them unfinished.
LEMMA CancelAllFrame ==
    ASSUME TypeOK, CancelAll
    PROVE  /\ task' \in [Conns -> {"none", "queued", "doomed", "awaiting", "cancelling"}
                                  \cup Outcomes]
           /\ settle' = "gather"
           /\ \A c \in Conns :
                 /\ c \notin Unfinished => task'[c] = task[c]
                 /\ c \in Unfinished => task'[c] \in {"doomed", "cancelling"}
                 /\ task[c] \in {"queued", "doomed"} => task'[c] = "doomed"
           /\ Unfinished' = Unfinished
<1>1. \A c \in Conns :
        /\ c \notin Unfinished => task'[c] = task[c]
        /\ c \in Unfinished => task'[c] \in {"doomed", "cancelling"}
        /\ task[c] \in {"queued", "doomed"} => task'[c] = "doomed"
    BY DEF CancelAll, Unfinished
<1>2. Unfinished' = Unfinished
    BY <1>1 DEF Unfinished
<1>3. task' \in [Conns -> {"none", "queued", "doomed", "awaiting", "cancelling"} \cup Outcomes]
    <2>1. DOMAIN task' = Conns /\ task' = [c \in Conns |-> task'[c]]
        BY DEF CancelAll
    <2>2. \A c \in Conns : task[c] \in {"none", "queued", "doomed", "awaiting", "cancelling"}
                                       \cup Outcomes
        BY DEF TypeOK
    <2> QED BY <2>1, <2>2, <1>1
<1>4. settle' = "gather"
    BY DEF CancelAll
<1> QED BY <1>1, <1>2, <1>3, <1>4

\* Every step keeps connections, futures and tasks in agreement.
LEMMA CallStep ==
    ASSUME IInv, [Next]_vars
    PROVE  CallInv'
<1>0. /\ TypeOK /\ GateIsTheActiveDrive /\ QueueInv /\ CallInv /\ PermitInv
      /\ conn \in [Conns -> Handler] /\ future \in [Conns -> {"none", "pending", "abandoned"}
                                                             \cup Outcomes]
      /\ task \in [Conns -> {"none", "queued", "doomed", "awaiting", "cancelling"}
                             \cup Outcomes]
      /\ "shutting_down" \in Outcomes /\ None \notin Conns /\ acceptor \in Conns \cup {None}
      /\ {"none", "pending", "abandoned"} \cap Outcomes = {}
    BY ServerAssumption DEF IInv, TypeOK, Outcomes
<1>1. CASE UNCHANGED <<task, future, conn>>
    BY <1>1, <1>0 DEF CallInv
<1>2. CASE CreateTask
    <2>1. This \in Conns /\ future[This] \in {"pending", "abandoned"}
        BY <1>2, <1>0, DueCall DEF CreateTask
    <2>2. UNCHANGED <<future, conn>> /\ \A d \in Conns \ {This} : task'[d] = task[d]
        BY <1>2, <1>0 DEF CreateTask, http
    <2> QED BY <2>1, <2>2, <1>0, TaskMoves
<1>3. CASE StepCall \/ StepCancelled
    <2>1. This \in Conns /\ future[This] \in {"pending", "abandoned"}
        BY <1>3, <1>0, DueCall DEF StepCall, StepCancelled
    <2>2. UNCHANGED <<future, conn>>
        BY <1>3 DEF StepCall, StepCancelled, http
    <2>3. \E outcome \in Outcomes : End(This, outcome)
        BY <1>3, <1>0, StepCallEnds DEF StepCancelled, Outcomes
    <2>4. \A d \in Conns \ {This} : task'[d] = task[d]
        BY <2>1, <2>3, <1>0, EndFrame
    <2> QED BY <2>1, <2>2, <2>4, <1>0, TaskMoves
<1>4. CASE StepDrive
    <2>1. This \in Conns /\ future[This] \in {"pending", "abandoned"}
        BY <1>4, <1>0, DueCall DEF StepDrive
    <2>2. UNCHANGED <<future, conn>> /\ \A d \in Conns \ {This} : task'[d] = task[d]
        BY <1>4, <1>0 DEF StepDrive, http
    <2> QED BY <2>1, <2>2, <1>0, TaskMoves
<1>5. ASSUME NEW c \in Conns, DriveEnds(c) \/ DriveCancelled(c)
      PROVE  CallInv'
    <2>1. c \in Unfinished
        BY <1>5 DEF DriveEnds, DriveCancelled, Unfinished
    <2>2. UNCHANGED <<future, conn>>
        BY <1>5 DEF DriveEnds, DriveCancelled, http
    <2>3. \E outcome \in Outcomes : End(c, outcome)
        BY <1>5 DEF DriveEnds, DriveCancelled, Outcomes
    <2>4. \A d \in Conns \ {c} : task'[d] = task[d]
        BY <2>3, <1>0, EndFrame
    <2> QED BY <2>1, <2>2, <2>4, <1>0, TaskMoves, UnfinishedCall
<1>6. CASE Deliver
    <2>1. /\ This \in Conns /\ future[This] \in {"pending", "abandoned"}
          /\ task[This] \in Outcomes
        BY <1>6, <1>0, DueCall DEF Deliver
    <2>2. /\ UNCHANGED <<task, conn>>
          /\ future' = [future EXCEPT ![This] = IF @ = "abandoned" THEN @ ELSE task[This]]
        BY <1>6 DEF Deliver, http
    <2> QED BY <2>1, <2>2, <1>0 DEF CallInv
<1>7. CASE StartSettle \/ DriveSettled
    <2>1. UNCHANGED <<future, conn>> /\ (CancelAll \/ UNCHANGED task)
        BY <1>7 DEF StartSettle, DriveSettled, http
    <2>2. \A c \in Conns : c \notin Unfinished => task'[c] = task[c]
        BY <2>1, <1>0, CancelAllFrame
    <2>3. \A c \in Unfinished : future[c] \notin {"none"} \cup Outcomes
        BY <1>0, UnfinishedCall
    <2> QED BY <2>1, <2>2, <2>3, <1>0 DEF CallInv
<1>8. CASE GraceEnds
    <2>1. /\ UNCHANGED <<future, conn>> /\ active # None
          /\ task' = [task EXCEPT ![active] = "cancelling"]
        BY <1>8 DEF GraceEnds, http
    <2>2. active \in Unfinished
        BY <2>1, <1>0 DEF TypeOK, GateIsTheActiveDrive, Unfinished
    <2>3. \A d \in Conns \ {active} : task'[d] = task[d]
        BY <2>1, <1>0
    <2> QED BY <2>1, <2>2, <2>3, <1>0, TaskMoves, UnfinishedCall
<1>9. ASSUME NEW c \in Conns, Call(c)
      PROVE  CallInv'
    <2>1. conn[c].at = "calling" /\ conn[c].answer = None
        BY <1>9, <1>0 DEF Call, CallInv
    <2>2. CASE state = "OPEN" /\ running
        <3>1. /\ conn' = [conn EXCEPT ![c].at = "waiting"]
              /\ task' = [task EXCEPT ![c] = "none"]
              /\ future' = [future EXCEPT ![c] = "pending"]
            BY <1>9, <2>2 DEF Call
        <3>2. /\ conn'[c].at = "waiting" /\ conn'[c].answer = None
              /\ conn'[c].kind = conn[c].kind /\ \A d \in Conns \ {c} : conn'[d] = conn[d]
            BY <3>1, <2>1, <1>0, ConnMoves
        <3>3. /\ task'[c] = "none" /\ future'[c] = "pending"
              /\ \A d \in Conns \ {c} : task'[d] = task[d] /\ future'[d] = future[d]
            BY <3>1, <1>0
        <3> QED BY <3>2, <3>3, <1>0 DEF CallInv
    <2>3. CASE ~(state = "OPEN" /\ running)
        <3>1. /\ UNCHANGED <<task, future>>
              /\ Answer(c, "shutting_down") \/ Answer(c, "unavailable")
            BY <1>9, <2>3, SMTT(30) DEF Call
        <3>2. /\ conn'[c].at = "answered" /\ conn'[c].kind = conn[c].kind
              /\ \A d \in Conns \ {c} : conn'[d] = conn[d]
            BY <3>1, <1>0, ConnAnswered DEF Answer, Outcomes
        <3>3. future[c] # "pending"
            BY <2>1, <1>0 DEF CallInv
        <3> QED BY <3>1, <3>2, <3>3, <1>0 DEF CallInv
    <2> QED BY <2>2, <2>3
<1>10. ASSUME NEW c \in Conns, NEW outcome \in Outcomes, Answer(c, outcome),
              UNCHANGED task, conn[c].at \in {"calling", "waiting"},
              \A d \in Conns \ {c} : future'[d] = future[d],
              \/ future'[c] = future[c] /\ future[c] # "pending"
              \/ future[c] = "pending" /\ future'[c] = "abandoned"
       PROVE  CallInv'
    <2>1. /\ conn'[c].at = "answered" /\ conn'[c].kind = conn[c].kind
          /\ \A d \in Conns \ {c} : conn'[d] = conn[d]
        BY <1>10, <1>0, ConnAnswered DEF Answer
    <2> QED BY <2>1, <1>10, <1>0 DEF CallInv
<1>11. ASSUME NEW c \in Conns, RefuseHeaders(c) \/ RefusePath(c) \/ RefuseBody(c)
       PROVE  CallInv'
    <2>1. conn[c].at = "calling" /\ UNCHANGED <<task, future>>
          /\ \E outcome \in Outcomes : Answer(c, outcome)
        BY <1>11 DEF RefuseHeaders, RefusePath, RefuseBody, Refuse, loop, Outcomes
    <2>2. future[c] # "pending"
        BY <2>1, <1>0 DEF CallInv
    <2> QED BY <2>1, <2>2, <1>10
<1>12. ASSUME NEW c \in Conns, Return(c)
       PROVE  CallInv'
    <2>1. conn[c].at = "waiting" /\ UNCHANGED <<task, future>> /\ future[c] \in Outcomes
        BY <1>12 DEF Return, loop
    <2>2. CASE conn' = [conn EXCEPT ![c].at = "calling"] /\ conn[c].kind = "stream"
               /\ future[c] = "ok"
        <3>1. /\ conn'[c].at = "calling" /\ conn'[c].answer = conn[c].answer
              /\ conn'[c].kind = conn[c].kind /\ \A d \in Conns \ {c} : conn'[d] = conn[d]
            BY <2>2, <1>0, ConnMoves
        <3> QED BY <2>1, <2>2, <3>1, <1>0 DEF CallInv
    <2>3. CASE \E outcome \in Outcomes : Answer(c, outcome)
        BY <2>1, <2>3, <1>10, <1>0
    <2> QED BY <1>12, <2>1, <2>2, <2>3 DEF Return, CancelledAnswer, Outcomes
<1>13. ASSUME NEW c \in Conns, GiveUp(c)
       PROVE  CallInv'
    <2>1. /\ conn[c].at = "waiting" /\ UNCHANGED task /\ future[c] = "pending"
          /\ future' = [future EXCEPT ![c] = "abandoned"]
          /\ \E outcome \in Outcomes : Answer(c, outcome)
        BY <1>13 DEF GiveUp, Outcomes
    <2> QED BY <2>1, <1>10, <1>0
<1>14. ASSUME NEW c \in Conns, FinishHandler(c)
       PROVE  CallInv'
    <2>1. /\ conn[c].at = "answered" /\ UNCHANGED <<task, future>>
          /\ conn' = [conn EXCEPT ![c].at = "gone"]
        BY <1>14 DEF FinishHandler, loop
    <2>2. conn'[c].at = "gone" /\ conn'[c].kind = conn[c].kind
          /\ \A d \in Conns \ {c} : conn'[d] = conn[d]
        BY <2>1, <1>0, ConnMoves
    <2> QED BY <2>1, <2>2, <1>0 DEF CallInv
<1>15. ASSUME NEW c \in Conns, conn[c].at = "absent", UNCHANGED <<task, future>>,
              conn' = [conn EXCEPT ![c].at = "gone", ![c].answer = "shutting_down"]
       PROVE  CallInv'
    <2>1. conn'[c].at = "gone" /\ \A d \in Conns \ {c} : conn'[d] = conn[d]
        BY <1>15, <1>0, ConnAnswered
    <2>2. future[c] = "none"
        BY <1>15, <1>0 DEF CallInv
    <2> QED BY <2>1, <2>2, <1>15, <1>0 DEF CallInv
<1>16. ASSUME NEW c \in Conns, TakeConnection(c)
       PROVE  CallInv'
    BY <1>16, <1>1, <1>15 DEF TakeConnection, loop
<1>17. CASE StartHandler
    <2>1. acceptor \in Conns /\ conn[acceptor].at = "absent" /\ UNCHANGED <<task, future>>
        BY <1>17, <1>0 DEF StartHandler, PermitInv, loop
    <2>2. CASE conn' = [conn EXCEPT ![acceptor].at = "calling"]
        <3>1. /\ conn'[acceptor].at = "calling" /\ conn'[acceptor].answer = conn[acceptor].answer
              /\ \A d \in Conns \ {acceptor} : conn'[d] = conn[d]
            BY <2>1, <2>2, <1>0, ConnMoves
        <3> QED BY <2>1, <3>1, <1>0 DEF CallInv
    <2> QED BY <1>17, <2>1, <2>2, <1>15 DEF StartHandler
<1> QED
    BY <1>1, <1>2, <1>3, <1>4, <1>5, <1>6, <1>7, <1>8, <1>9, <1>11, <1>12, <1>13, <1>14,
       <1>16, <1>17
    DEF Next, OwnerThread, MainThread, vars, loop, http, OpenStores, FailToOpen, Announce,
        EnterLoop, FinishSettle, StopLoop, StartReturns, StartTimesOut, Serve, Shutdown,
        BeginClose, ScheduleSettle, SettleReturns, Joined, Drained, Deadline
-----------------------------------------------------------------------------
\* Effects: what took place, and what the client is told.

\* Every step keeps effects with their outcome.
LEMMA EffectStep ==
    ASSUME IInv, [Next]_vars
    PROVE  EffectInv'
<1>0. /\ TypeOK /\ GateIsTheActiveDrive /\ QueueInv /\ CallInv /\ EffectInv /\ PermitInv
      /\ conn \in [Conns -> Handler] /\ future \in [Conns -> {"none", "pending", "abandoned"}
                                                             \cup Outcomes]
      /\ task \in [Conns -> {"none", "queued", "doomed", "awaiting", "cancelling"}
                             \cup Outcomes]
      /\ "shutting_down" \in Outcomes /\ None \notin Conns /\ acceptor \in Conns \cup {None}
      /\ {"none", "pending", "abandoned"} \cap Outcomes = {}
      /\ ~Retryable(None)
    BY ServerAssumption, NoneAssumption DEF IInv, TypeOK, Outcomes, Retryable
<1>1. CASE UNCHANGED <<task, future, conn, effects>>
    BY <1>1, <1>0 DEF EffectInv
<1>t. ASSUME NEW c \in Conns, task[c] # "ok", \A d \in Conns \ {c} : task'[d] = task[d],
             UNCHANGED <<future, conn, effects>>
      PROVE  EffectInv'
    BY <1>t, <1>0 DEF EffectInv
<1>2. CASE CreateTask
    <2>1. This \in Conns /\ task[This] = "none"
        BY <1>2, <1>0, DueCall DEF CreateTask
    <2>2. /\ UNCHANGED <<future, conn, effects>>
          /\ \A d \in Conns \ {This} : task'[d] = task[d]
        BY <1>2, <1>0 DEF CreateTask, http
    <2> QED BY <2>1, <2>2, <1>t
<1>3. CASE StepCall
    <2>1. /\ This \in Conns /\ task[This] \in {"queued", "doomed"}
          /\ future[This] \in {"pending", "abandoned"}
        BY <1>3, <1>0, DueCall DEF StepCall
    <2>2. UNCHANGED <<future, conn>>
        BY <1>3 DEF StepCall, http
    <2>3. PICK outcome \in Outcomes :
              /\ End(This, outcome)
              /\ effects' = effects \/ (outcome = "ok" /\ effects' = effects \cup {This})
        BY <1>3, <1>0, StepCallEnds
    <2>4. task'[This] = outcome /\ \A d \in Conns \ {This} : task'[d] = task[d]
        BY <2>1, <2>3, <1>0, EndFrame
    <2>5. CASE effects' = effects
        BY <2>1, <2>2, <2>4, <2>5, <1>t
    <2>6. CASE outcome = "ok" /\ effects' = effects \cup {This}
        <3>1. conn[This].kind \in {"put", "decision"} => ~Retryable(conn[This].answer)
            BY <2>1, <1>0 DEF EffectInv
        <3> QED BY <2>1, <2>2, <2>4, <2>6, <3>1, <1>0 DEF EffectInv
    <2> QED BY <2>3, <2>5, <2>6
<1>4. CASE StepDrive
    <2>1. This \in Conns /\ task[This] \in {"queued", "doomed"} /\ conn[This].kind = "drive"
        BY <1>4, <1>0, DueCall DEF StepDrive
    <2>2. /\ UNCHANGED <<future, conn>> /\ effects' = effects \cup {This}
          /\ \A d \in Conns \ {This} : task'[d] = task[d]
        BY <1>4, <1>0 DEF StepDrive, http
    <2> QED BY <2>1, <2>2, <1>0 DEF EffectInv
<1>5. CASE StepCancelled
    <2>1. This \in Conns /\ task[This] \in {"queued", "doomed"}
        BY <1>5, <1>0, DueCall DEF StepCancelled
    <2>2. \A d \in Conns \ {This} : task'[d] = task[d]
        BY <1>5, <2>1, <1>0, EndFrame DEF StepCancelled, Outcomes
    <2> QED BY <1>5, <2>1, <2>2, <1>t DEF StepCancelled, http
<1>6. ASSUME NEW c \in Conns, DriveEnds(c) \/ DriveCancelled(c)
      PROVE  EffectInv'
    <2>1. task[c] # "ok" /\ UNCHANGED <<future, conn, effects>>
        BY <1>6 DEF DriveEnds, DriveCancelled, http
    <2>2. \E outcome \in Outcomes : End(c, outcome)
        BY <1>6 DEF DriveEnds, DriveCancelled, Outcomes
    <2>3. \A d \in Conns \ {c} : task'[d] = task[d]
        BY <2>2, <1>0, EndFrame
    <2> QED BY <2>1, <2>3, <1>t
<1>7. CASE Deliver
    <2>1. This \in Conns /\ task[This] \in Outcomes /\ future[This] \in {"pending", "abandoned"}
        BY <1>7, <1>0, DueCall DEF Deliver
    <2>2. UNCHANGED <<task, conn, effects>>
          /\ future' = [future EXCEPT ![This] = IF @ = "abandoned" THEN @ ELSE task[This]]
        BY <1>7 DEF Deliver, http
    <2> QED BY <2>1, <2>2, <1>0 DEF EffectInv
<1>8. CASE StartSettle \/ DriveSettled
    <2>1. UNCHANGED <<future, conn, effects>> /\ (CancelAll \/ UNCHANGED task)
        BY <1>8 DEF StartSettle, DriveSettled, http
    <2>2. \A c \in Conns : c \notin Unfinished => task'[c] = task[c]
        BY <2>1, <1>0, CancelAllFrame
    <2>3. \A c \in Conns : task[c] = "ok" => c \notin Unfinished
        BY DEF Unfinished
    <2> QED BY <2>1, <2>2, <2>3, <1>0 DEF EffectInv
<1>9. CASE GraceEnds
    <2>1. /\ UNCHANGED <<future, conn, effects>> /\ active # None
          /\ task' = [task EXCEPT ![active] = "cancelling"]
        BY <1>9 DEF GraceEnds, http
    <2>2. active \in Conns /\ task[active] # "ok"
        BY <2>1, <1>0 DEF TypeOK, GateIsTheActiveDrive
    <2> QED BY <2>1, <2>2, <1>0, <1>t
<1>10. ASSUME NEW c \in Conns, conn[c].at = "calling"
       PROVE  /\ conn[c].answer = None
              /\ conn[c].kind \in {"put", "decision"} =>
                    future[c] = "none" /\ task[c] = "none" /\ c \notin effects
    BY <1>10, <1>0 DEF CallInv, EffectInv
<1>11. ASSUME NEW c \in Conns, NEW outcome \in Outcomes, Answer(c, outcome),
              UNCHANGED <<task, effects>>, \A d \in Conns \ {c} : future'[d] = future[d],
              conn[c].kind \in {"put", "decision"} /\ Retryable(outcome) =>
                  c \notin effects /\ future'[c] \in {"none"} \cup Outcomes
       PROVE  EffectInv'
    <2>1. /\ conn'[c].answer = outcome /\ conn'[c].kind = conn[c].kind
          /\ \A d \in Conns \ {c} : conn'[d] = conn[d]
        BY <1>11, <1>0, ConnAnswered DEF Answer
    <2> QED BY <2>1, <1>11, <1>0 DEF EffectInv
<1>12. ASSUME NEW c \in Conns, Call(c)
       PROVE  EffectInv'
    <2>1. /\ conn[c].answer = None /\ effects' = effects
          /\ conn[c].kind \in {"put", "decision"} =>
                future[c] = "none" /\ task[c] = "none" /\ c \notin effects
        BY <1>12, <1>10 DEF Call
    <2>2. CASE state = "OPEN" /\ running
        <3>1. /\ conn' = [conn EXCEPT ![c].at = "waiting"]
              /\ task' = [task EXCEPT ![c] = "none"]
              /\ future' = [future EXCEPT ![c] = "pending"]
            BY <1>12, <2>2 DEF Call
        <3>2. /\ conn'[c].answer = None
              /\ conn'[c].kind = conn[c].kind /\ \A d \in Conns \ {c} : conn'[d] = conn[d]
            BY <3>1, <2>1, <1>0, ConnMoves
        <3>3. /\ \A d \in Conns \ {c} : task'[d] = task[d] /\ future'[d] = future[d]
            BY <3>1, <1>0
        <3> QED BY <2>1, <3>2, <3>3, <1>0 DEF EffectInv
    <2>3. CASE ~(state = "OPEN" /\ running)
        <3>1. UNCHANGED <<task, future>> /\ \E outcome \in Outcomes : Answer(c, outcome)
            BY <1>12, <2>3 DEF Call, Outcomes
        <3> QED BY <2>1, <3>1, <1>11
    <2> QED BY <2>2, <2>3
<1>13. ASSUME NEW c \in Conns, RefuseHeaders(c) \/ RefusePath(c) \/ RefuseBody(c)
       PROVE  EffectInv'
    <2>1. /\ conn[c].at = "calling" /\ UNCHANGED <<task, future, effects>>
          /\ \E outcome \in Outcomes : Answer(c, outcome)
        BY <1>13 DEF RefuseHeaders, RefusePath, RefuseBody, Refuse, loop, Outcomes
    <2> QED BY <2>1, <1>10, <1>11
<1>14. ASSUME NEW c \in Conns, Return(c)
       PROVE  EffectInv'
    <2>1. conn[c].at = "waiting" /\ UNCHANGED <<task, future, effects>> /\ future[c] \in Outcomes
        BY <1>14 DEF Return, loop
    <2>2. CASE conn' = [conn EXCEPT ![c].at = "calling"]
        <3>1. /\ conn'[c].answer = conn[c].answer
              /\ conn'[c].kind = conn[c].kind /\ \A d \in Conns \ {c} : conn'[d] = conn[d]
            BY <2>2, <1>0, ConnMoves
        <3> QED BY <2>1, <3>1, <1>0 DEF EffectInv
    <2>3. CASE Answer(c, IF future[c] = "cancelled" THEN CancelledAnswer(c) ELSE future[c])
        <3> DEFINE told == IF future[c] = "cancelled" THEN CancelledAnswer(c) ELSE future[c]
        <3>1. told \in Outcomes
            BY <2>1 DEF CancelledAnswer, Outcomes
        <3>2. Retryable(told) => future[c] # "ok"
            BY DEF Retryable
        <3>3. task[c] = future[c]
            BY <2>1, <1>0 DEF CallInv
        <3>4. conn[c].kind \in {"put", "decision"} /\ Retryable(told) => c \notin effects
            BY <3>2, <3>3, <1>0 DEF EffectInv
        <3> HIDE DEF told
        <3> QED BY <2>1, <2>3, <3>1, <3>4, <1>11 DEF told
    <2> QED BY <1>14, <2>2, <2>3 DEF Return
<1>15. ASSUME NEW c \in Conns, GiveUp(c)
       PROVE  EffectInv'
    <2>1. /\ UNCHANGED <<task, effects>> /\ Bounded(conn[c].kind)
          /\ future' = [future EXCEPT ![c] = "abandoned"]
          /\ Answer(c, IF conn[c].kind = "put" THEN "outcome_unknown" ELSE "busy")
        BY <1>15 DEF GiveUp
    <2>2. CASE conn[c].kind = "put"
        <3>1. Answer(c, "outcome_unknown") /\ "outcome_unknown" \in Outcomes
              /\ ~Retryable("outcome_unknown")
            BY <2>1, <2>2 DEF Outcomes, Retryable
        <3> QED BY <2>1, <3>1, <1>11, <1>0
    <2>3. CASE conn[c].kind # "put"
        <3>1. Answer(c, "busy") /\ "busy" \in Outcomes /\ conn[c].kind \notin {"put", "decision"}
            BY <2>1, <2>3 DEF Outcomes, Bounded
        <3> QED BY <2>1, <3>1, <1>11, <1>0
    <2> QED BY <2>2, <2>3
<1>16. ASSUME NEW c \in Conns, FinishHandler(c)
       PROVE  EffectInv'
    <2>1. UNCHANGED <<task, future, effects>> /\ conn' = [conn EXCEPT ![c].at = "gone"]
        BY <1>16 DEF FinishHandler, loop
    <2>2. conn'[c].answer = conn[c].answer /\ conn'[c].kind = conn[c].kind
          /\ \A d \in Conns \ {c} : conn'[d] = conn[d]
        BY <2>1, <1>0, ConnMoves
    <2> QED BY <2>1, <2>2, <1>0 DEF EffectInv
<1>17. ASSUME NEW c \in Conns, conn[c].at = "absent", UNCHANGED <<task, future, effects>>,
              conn' = [conn EXCEPT ![c].at = "gone", ![c].answer = "shutting_down"]
       PROVE  EffectInv'
    <2>1. /\ conn'[c].kind = conn[c].kind /\ \A d \in Conns \ {c} : conn'[d] = conn[d]
        BY <1>17, <1>0, ConnAnswered
    <2>2. future[c] = "none" /\ task[c] = "none"
        BY <1>17, <1>0 DEF CallInv
    <2> QED BY <2>1, <2>2, <1>17, <1>0 DEF EffectInv
<1>18. ASSUME NEW c \in Conns, TakeConnection(c)
       PROVE  EffectInv'
    BY <1>18, <1>1, <1>17 DEF TakeConnection, loop
<1>19. CASE StartHandler
    <2>1. acceptor \in Conns /\ conn[acceptor].at = "absent" /\ UNCHANGED <<task, future, effects>>
        BY <1>19, <1>0 DEF StartHandler, PermitInv, loop
    <2>2. CASE conn' = [conn EXCEPT ![acceptor].at = "calling"]
        <3>1. /\ conn'[acceptor].kind = conn[acceptor].kind
              /\ conn'[acceptor].answer = conn[acceptor].answer
              /\ \A d \in Conns \ {acceptor} : conn'[d] = conn[d]
            BY <2>1, <2>2, <1>0, ConnMoves
        <3> QED BY <2>1, <3>1, <1>0 DEF EffectInv
    <2> QED BY <1>19, <2>1, <2>2, <1>17 DEF StartHandler
<1> QED
    BY <1>1, <1>2, <1>3, <1>4, <1>5, <1>6, <1>7, <1>8, <1>9, <1>12, <1>13, <1>14, <1>15,
       <1>16, <1>18, <1>19
    DEF Next, OwnerThread, MainThread, vars, loop, http, OpenStores, FailToOpen, Announce,
        EnterLoop, FinishSettle, StopLoop, StartReturns, StartTimesOut, Serve, Shutdown,
        BeginClose, ScheduleSettle, SettleReturns, Joined, Drained, Deadline
-----------------------------------------------------------------------------
\* The queue: a call has at most one callback due.

\* The queue stays, and no call leaves the place its callback relies on.
LEMMA Kept ==
    ASSUME QueueInv, ready \in Seq(Callbacks), UNCHANGED ready,
           \A c \in Conns :
              /\ future[c] \in {"pending", "abandoned"} =>
                    future'[c] \in {"pending", "abandoned"}
              /\ task[c] \in {"none"} \cup Outcomes => task'[c] = task[c]
              /\ task[c] \in {"queued", "doomed"} => task'[c] \in {"queued", "doomed"}
    PROVE  QueueInv'
<1>1. \A i \in DOMAIN ready : Fits(ready[i])'
    BY DEF QueueInv, Fits
<1> QED BY <1>1 DEF QueueInv, Fits

\* The first callback runs, and only its call moves.
LEMMA QueuePops ==
    ASSUME QueueInv, ready \in Seq(Callbacks), ready # <<>>, Then(<<>>),
           \/ /\ ready[1].call \in Conns
              /\ \A d \in Conns \ {ready[1].call} : task'[d] = task[d] /\ future'[d] = future[d]
           \/ /\ UNCHANGED future
              /\ \A d \in Conns :
                    /\ task[d] \in {"none"} \cup Outcomes => task'[d] = task[d]
                    /\ task[d] \in {"queued", "doomed"} => task'[d] \in {"queued", "doomed"}
    PROVE  QueueInv'
<1>1. /\ ready' \in Seq(Callbacks) /\ 1 \in DOMAIN ready
      /\ \A i \in DOMAIN ready' : i \in Nat /\ i + 1 \in DOMAIN ready /\ ready'[i] = ready[i + 1]
    BY Popped
<1>2. ASSUME NEW i \in DOMAIN ready', NEW j \in DOMAIN ready', i # j,
             ready'[i].call = ready'[j].call
      PROVE  ready'[i].call = None
    BY <1>1, <1>2, SMTT(30) DEF QueueInv
<1>3. ASSUME NEW i \in DOMAIN ready'
      PROVE  Fits(ready[i])'
    <2>1. Fits(ready[i + 1]) /\ i + 1 \in DOMAIN ready /\ ready'[i] = ready[i + 1]
        BY <1>1 DEF QueueInv
    <2>2. ready[i + 1].call \in Conns => ready[i + 1].call # ready[1].call
        BY <2>1, <1>1, ServerAssumption DEF QueueInv
    <2> QED BY <2>1, <2>2 DEF Fits
<1> QED BY <1>2, <1>3 DEF QueueInv, Fits

\* The first callback runs and schedules the next one of its call.
LEMMA QueueAdvances ==
    ASSUME QueueInv, ready \in Seq(Callbacks), ready # <<>>,
           NEW kind \in {"step", "deliver"}, Then(<<Callback(kind, ready[1].call)>>),
           ready[1].call \in Conns,
           future'[ready[1].call] \in {"pending", "abandoned"},
           kind = "step" => task'[ready[1].call] \in {"queued", "doomed"},
           kind = "deliver" => task'[ready[1].call] \in Outcomes,
           \A d \in Conns \ {ready[1].call} : task'[d] = task[d] /\ future'[d] = future[d]
    PROVE  QueueInv'
<1> DEFINE cb == Callback(kind, ready[1].call)
<1>0. cb \in Callbacks /\ cb.do = kind /\ cb.call = ready[1].call /\ Then(<<cb>>)
    BY CallbackType
<1> HIDE DEF cb
<1>1. /\ ready' \in Seq(Callbacks) /\ 1 \in DOMAIN ready
      /\ \A i \in DOMAIN ready' : i \in Nat /\
            \/ i + 1 \in DOMAIN ready /\ ready'[i] = ready[i + 1]
            \/ i = Len(ready) /\ ready'[i] = cb
      /\ Len(ready) + 1 \notin DOMAIN ready
    BY <1>0, PoppedPushed
<1>2. ASSUME NEW i \in DOMAIN ready', NEW j \in DOMAIN ready', i # j,
             ready'[i].call = ready'[j].call
      PROVE  ready'[i].call = None
    <2>1. \A k \in DOMAIN ready : k # 1 /\ ready[k].call = ready[1].call => ready[1].call = None
        BY <1>1 DEF QueueInv
    <2>2. ready[1].call # None
        BY ServerAssumption
    <2>3. CASE i + 1 \in DOMAIN ready /\ j + 1 \in DOMAIN ready
               /\ ready'[i] = ready[i + 1] /\ ready'[j] = ready[j + 1]
        BY <1>1, <1>2, <2>3 DEF QueueInv
    <2>4. \A k \in DOMAIN ready : k # 1 => ready[k].call # cb.call
        BY <1>0, <2>1, <2>2
    <2>5. CASE i = Len(ready)
        <3>1. ready'[i] = cb /\ j + 1 \in DOMAIN ready /\ ready'[j] = ready[j + 1] /\ j + 1 # 1
            BY <1>1, <1>2, <2>5
        <3> QED BY <1>2, <2>4, <3>1
    <2>6. CASE j = Len(ready)
        <3>1. ready'[j] = cb /\ i + 1 \in DOMAIN ready /\ ready'[i] = ready[i + 1] /\ i + 1 # 1
            BY <1>1, <1>2, <2>6
        <3> QED BY <1>2, <2>4, <3>1
    <2> QED BY <1>1, <2>3, <2>5, <2>6
<1>3. ASSUME NEW i \in DOMAIN ready'
      PROVE  Fits(ready[i])'
    <2>1. CASE i + 1 \in DOMAIN ready /\ ready'[i] = ready[i + 1]
        <3>1. Fits(ready[i + 1])
            BY <2>1 DEF QueueInv
        <3>2. ready[i + 1].call \in Conns => ready[i + 1].call # ready[1].call
            BY <2>1, <1>1, ServerAssumption DEF QueueInv
        <3> QED BY <2>1, <3>1, <3>2 DEF Fits
    <2>2. CASE ready'[i] = cb
        BY <2>2, <1>0 DEF Fits
    <2> QED BY <2>1, <2>2, <1>1
<1> QED BY <1>2, <1>3 DEF QueueInv, Fits

\* A callback is scheduled for a call that has none.
LEMMA QueueGrows ==
    ASSUME QueueInv, ready \in Seq(Callbacks), NEW cb \in Callbacks, ready' = Append(ready, cb),
           cb.call = None \/ \A i \in DOMAIN ready : ready[i].call # cb.call,
           Fits(cb)', \A d \in Conns \ {cb.call} : task'[d] = task[d] /\ future'[d] = future[d]
    PROVE  QueueInv'
<1>1. /\ ready' \in Seq(Callbacks)
      /\ \A i \in DOMAIN ready' : i \in Nat /\
            \/ i \in DOMAIN ready /\ ready'[i] = ready[i]
            \/ i = Len(ready) + 1 /\ i \notin DOMAIN ready /\ ready'[i] = cb
    BY Pushed
<1>2. ASSUME NEW i \in DOMAIN ready', NEW j \in DOMAIN ready', i # j,
             ready'[i].call = ready'[j].call
      PROVE  ready'[i].call = None
    BY <1>1, <1>2 DEF QueueInv
<1>3. ASSUME NEW i \in DOMAIN ready'
      PROVE  Fits(ready[i])'
    <2>1. CASE i \in DOMAIN ready /\ ready'[i] = ready[i]
        <3>1. Fits(ready[i])
            BY <2>1 DEF QueueInv
        <3>2. ready[i].call \in Conns => ready[i].call # cb.call
            BY <2>1, ServerAssumption
        <3> QED BY <2>1, <3>1, <3>2 DEF Fits
    <2>2. CASE ready'[i] = cb
        <3>1. Fits(cb)'
            OBVIOUS
        <3> QED BY <2>2, <3>1 DEF Fits
    <2> QED BY <2>1, <2>2, <1>1
<1> QED BY <1>2, <1>3 DEF QueueInv, Fits

\* A call whose task is awaiting, or whose future is not pending, has no callback.
LEMMA NotDue ==
    ASSUME TypeOK, QueueInv, NEW c \in Conns,
           \/ future[c] \notin {"pending", "abandoned"}
           \/ task[c] \in {"awaiting", "cancelling"}
    PROVE  \A i \in DOMAIN ready : ready[i].call # c
<1>1. \A i \in DOMAIN ready :
         Fits(ready[i]) /\ ready[i].do \in {"create", "step", "deliver", "settle", "stop"}
    <2>1. ASSUME NEW i \in DOMAIN ready
          PROVE  ready[i].do \in {"create", "step", "deliver", "settle", "stop"}
        <3>1. ready[i] \in Callbacks
            BY DEF TypeOK
        <3> QED BY <3>1 DEF Callbacks
    <2> QED BY <2>1 DEF QueueInv
<1> QED BY <1>1, ServerAssumption DEF Fits, Outcomes

\* Every step keeps the queue.
LEMMA QueueStep ==
    ASSUME IInv, [Next]_vars
    PROVE  QueueInv'
<1>0. /\ TypeOK /\ GateIsTheActiveDrive /\ QueueInv /\ CallInv
      /\ ready \in Seq(Callbacks)
      /\ future \in [Conns -> {"none", "pending", "abandoned"} \cup Outcomes]
      /\ task \in [Conns -> {"none", "queued", "doomed", "awaiting", "cancelling"}
                             \cup Outcomes]
      /\ None \notin Conns
      /\ {"none", "pending", "abandoned"} \cap Outcomes = {}
    BY ServerAssumption DEF IInv, TypeOK, Outcomes
<1>1. CASE UNCHANGED <<ready, task, future>>
    BY <1>1, <1>0, Kept
<1>2. CASE CreateTask
    <2>1. This = ready[1].call /\ This \in Conns /\ ready # <<>>
          /\ future[This] \in {"pending", "abandoned"}
        BY <1>2, <1>0, DueCall DEF CreateTask
    <2>2. UNCHANGED future /\ \A d \in Conns \ {This} : task'[d] = task[d]
        BY <1>2, <1>0 DEF CreateTask
    <2>3. \/ Then(<<>>)
          \/ task'[This] = "queued" /\ Then(<<Callback("step", This)>>)
        BY <1>2, <1>0, <2>1 DEF CreateTask
    <2> QED BY <2>1, <2>2, <2>3, <1>0, QueuePops, QueueAdvances
<1>3. CASE StepCall \/ StepCancelled
    <2>1. This = ready[1].call /\ This \in Conns /\ ready # <<>>
          /\ future[This] \in {"pending", "abandoned"}
        BY <1>3, <1>0, DueCall DEF StepCall, StepCancelled
    <2>2. UNCHANGED future /\ Then(<<Callback("deliver", This)>>)
        BY <1>3 DEF StepCall, StepCancelled
    <2>3. \E outcome \in Outcomes : End(This, outcome)
        BY <1>3, <1>0, StepCallEnds DEF StepCancelled, Outcomes
    <2>4. task'[This] \in Outcomes /\ \A d \in Conns \ {This} : task'[d] = task[d]
        BY <2>1, <2>3, <1>0, EndFrame
    <2> QED BY <2>1, <2>2, <2>4, <1>0, QueueAdvances
<1>4. CASE StepDrive
    <2>1. This = ready[1].call /\ This \in Conns /\ ready # <<>>
        BY <1>4, <1>0, DueCall DEF StepDrive
    <2>2. UNCHANGED future /\ Then(<<>>) /\ \A d \in Conns \ {This} : task'[d] = task[d]
        BY <1>4, <1>0 DEF StepDrive
    <2> QED BY <2>1, <2>2, <1>0, QueuePops
<1>5. ASSUME NEW c \in Conns, DriveEnds(c) \/ DriveCancelled(c)
      PROVE  QueueInv'
    <2>1. /\ task[c] \in {"awaiting", "cancelling"} /\ UNCHANGED future
          /\ ready' = Append(ready, Callback("deliver", c))
        BY <1>5 DEF DriveEnds, DriveCancelled
    <2>2. \E outcome \in Outcomes : End(c, outcome)
        BY <1>5 DEF DriveEnds, DriveCancelled, Outcomes
    <2>3. task'[c] \in Outcomes /\ \A d \in Conns \ {c} : task'[d] = task[d]
        BY <2>2, <1>0, EndFrame
    <2>4. PICK cb \in Callbacks : cb = Callback("deliver", c)
        BY CallbackType
    <2>5. cb.do = "deliver" /\ cb.call = c
        BY <2>4, CallbackType
    <2>6. future[c] \in {"pending", "abandoned"}
        BY <2>1, <1>0 DEF CallInv, Outcomes
    <2>7. Fits(cb)'
        BY <2>1, <2>3, <2>5, <2>6 DEF Fits
    <2>8. \A i \in DOMAIN ready : ready[i].call # c
        BY <2>1, <1>0, NotDue
    <2> QED BY <2>1, <2>3, <2>4, <2>5, <2>7, <2>8, <1>0, QueueGrows
<1>6. CASE Deliver
    <2>1. This = ready[1].call /\ This \in Conns /\ ready # <<>>
        BY <1>6, <1>0, DueCall DEF Deliver
    <2>2. UNCHANGED task /\ Then(<<>>) /\ \A d \in Conns \ {This} : future'[d] = future[d]
        BY <1>6, <1>0 DEF Deliver
    <2> QED BY <2>1, <2>2, <1>0, QueuePops
<1>7. ASSUME CancelAll \/ UNCHANGED task
      PROVE  \A d \in Conns :
                /\ task[d] \in {"none"} \cup Outcomes => task'[d] = task[d]
                /\ task[d] \in {"queued", "doomed"} => task'[d] \in {"queued", "doomed"}
    <2>1. \A d \in Conns : task[d] \in {"none"} \cup Outcomes => d \notin Unfinished
        BY DEF Unfinished, Outcomes
    <2> QED BY <2>1, <1>7, <1>0, CancelAllFrame
<1>8. CASE StartSettle
    <2>1. Then(<<>>) /\ UNCHANGED future /\ (CancelAll \/ UNCHANGED task) /\ ready # <<>>
        BY <1>8 DEF StartSettle, Due
    <2> QED BY <2>1, <1>7, <1>0, QueuePops
<1>9. CASE DriveSettled
    <2>1. UNCHANGED <<ready, future>> /\ CancelAll
        BY <1>9 DEF DriveSettled
    <2> QED BY <2>1, <1>7, <1>0, Kept
<1>10. CASE GraceEnds
    <2>1. /\ UNCHANGED <<ready, future>> /\ active # None
          /\ task' = [task EXCEPT ![active] = "cancelling"]
        BY <1>10 DEF GraceEnds
    <2>2. active \in Conns /\ task[active] \in {"awaiting", "cancelling"}
        BY <2>1, <1>0 DEF TypeOK, GateIsTheActiveDrive
    <2>3. \A d \in Conns : task[d] \in {"none", "queued", "doomed"} \cup Outcomes =>
                              task'[d] = task[d]
        BY <2>1, <2>2, <1>0 DEF Outcomes
    <2> QED BY <2>1, <2>3, <1>0, Kept
<1>11. ASSUME ready' = <<>>
       PROVE  QueueInv'
    BY <1>11 DEF QueueInv
<1>12. CASE FailToOpen \/ Announce \/ EnterLoop \/ StopLoop
    BY <1>12, <1>1, <1>11 DEF FailToOpen, Announce, EnterLoop, StopLoop, Wind
<1>13. ASSUME NEW kind \in {"settle", "stop"}, ready' = Append(ready, Callback(kind, None)),
              UNCHANGED <<task, future>>
       PROVE  QueueInv'
    <2>1. PICK cb \in Callbacks : cb = Callback(kind, None)
        BY CallbackType
    <2>2. cb.do = kind /\ cb.call = None
        BY <2>1, CallbackType
    <2>3. Fits(cb)'
        BY <2>2 DEF Fits
    <2> QED BY <2>1, <2>2, <2>3, <1>13, <1>0, QueueGrows
<1>14. CASE FinishSettle \/ StartTimesOut \/ ScheduleSettle
    BY <1>14, <1>1, <1>13 DEF FinishSettle, StartTimesOut, ScheduleSettle
<1>15. ASSUME NEW c \in Conns, Call(c)
       PROVE  QueueInv'
    <2>1. CASE UNCHANGED <<ready, task, future>>
        BY <2>1, <1>1
    <2>2. CASE /\ ready' = Append(ready, Callback("create", c))
               /\ task' = [task EXCEPT ![c] = "none"]
               /\ future' = [future EXCEPT ![c] = "pending"]
        <3>1. future[c] \notin {"pending", "abandoned"}
            BY <1>15, <1>0 DEF Call, CallInv
        <3>2. PICK cb \in Callbacks : cb = Callback("create", c)
            BY CallbackType
        <3>3. cb.do = "create" /\ cb.call = c
            BY <3>2, CallbackType
        <3>4. /\ task'[c] = "none" /\ future'[c] = "pending"
              /\ \A d \in Conns \ {c} : task'[d] = task[d] /\ future'[d] = future[d]
            BY <2>2, <1>0
        <3>5. Fits(cb)'
            BY <3>3, <3>4 DEF Fits
        <3>6. \A i \in DOMAIN ready : ready[i].call # c
            BY <3>1, <1>0, NotDue
        <3> QED BY <2>2, <3>2, <3>3, <3>4, <3>5, <3>6, <1>0, QueueGrows
    <2> QED BY <1>15, <2>1, <2>2 DEF Call
<1>16. ASSUME NEW c \in Conns, GiveUp(c)
       PROVE  QueueInv'
    <2>1. UNCHANGED <<ready, task>> /\ future' = [future EXCEPT ![c] = "abandoned"]
        BY <1>16 DEF GiveUp
    <2> QED BY <2>1, <1>0, Kept
<1> QED
    BY <1>1, <1>2, <1>3, <1>4, <1>5, <1>6, <1>8, <1>9, <1>10, <1>12, <1>14, <1>15, <1>16
    DEF Next, OwnerThread, MainThread, vars, loop, http, OpenStores, TakeConnection,
        StartHandler, RefuseHeaders, RefusePath, RefuseBody, Refuse, Return, FinishHandler,
        StartReturns, Serve, Shutdown, BeginClose, SettleReturns, Joined, Drained, Deadline
-----------------------------------------------------------------------------
\* The shutdown task.

\* The queue loses its first callback or not, and grows by one or not, and the
\* shutdown task does not move.
LEMMA SettleKept ==
    ASSUME SettleInv, NEW k \in {0, 1}, NEW kind \in {"step", "deliver", "stop"},
           UNCHANGED settle, state # "OPEN" => state' # "OPEN",
           main = "aborted" => main' = "aborted",
           settle = "done" => Unfinished' = {},
           kind = "stop" => settle = "done" \/ main' = "aborted",
           DOMAIN ready \subseteq Nat,
           \A i \in DOMAIN ready' : i \in Nat /\
              \/ i + k \in DOMAIN ready /\ ready'[i] = ready[i + k]
              \/ ready'[i].do = kind
    PROVE  SettleInv'
<1>1. ASSUME NEW i \in DOMAIN ready'
      PROVE  /\ ready'[i].do = "create" => settle' \notin Settling
             /\ ready'[i].do = "stop" => settle' = "done" \/ main' = "aborted"
    <2>1. CASE i + k \in DOMAIN ready /\ ready'[i] = ready[i + k]
        BY <2>1 DEF SettleInv
    <2>2. CASE ready'[i].do = kind
        BY <2>2
    <2> QED BY <2>1, <2>2
<1>2. ASSUME NEW i \in DOMAIN ready', ready'[i].do = "settle"
      PROVE  /\ settle' = "queued"
             /\ \A j \in DOMAIN ready' : j # i => ready'[j].do # "settle"
             /\ \A j \in DOMAIN ready' : j > i => ready'[j].do # "create"
    <2>1. i \in Nat /\ i + k \in DOMAIN ready /\ ready[i + k].do = "settle"
        BY <1>2
    <2>2. ASSUME NEW j \in DOMAIN ready'
          PROVE  /\ j # i => ready'[j].do # "settle"
                 /\ j > i => ready'[j].do # "create"
        <3>1. CASE j + k \in DOMAIN ready /\ ready'[j] = ready[j + k]
            <4>1. j \in Nat /\ (j # i => j + k # i + k) /\ (j > i => j + k > i + k)
                BY <2>1
            <4> QED BY <2>1, <3>1, <4>1 DEF SettleInv
        <3>2. CASE ready'[j].do = kind
            BY <3>2
        <3> QED BY <3>1, <3>2
    <2> QED BY <2>1, <2>2 DEF SettleInv
<1> QED BY <1>1, <1>2 DEF SettleInv, Settling

\* While the shutdown task runs no call is admitted and no other shutdown.
LEMMA SettleAlone ==
    ASSUME SettleInv, settle \in Settling
    PROVE  \A i \in DOMAIN ready : ready[i].do \notin {"create", "settle"}
BY DEF SettleInv, Settling

\* The shutdown task goes on.
LEMMA SettleMoves ==
    ASSUME SettleInv, settle \in Settling \ {"done"}, settle' \in Settling,
           UNCHANGED <<state, main>>, settle' = "done" => Unfinished' = {},
           \A i \in DOMAIN ready' :
              \/ i \in DOMAIN ready /\ ready'[i] = ready[i]
              \/ settle' = "done" /\ ready'[i].do = "stop"
    PROVE  SettleInv'
<1>1. \A i \in DOMAIN ready' : ready'[i].do \notin {"create", "settle"}
    BY SettleAlone
<1>2. \A i \in DOMAIN ready' : ready'[i].do = "stop" => settle' = "done" \/ main' = "aborted"
    BY DEF SettleInv
<1> QED BY <1>1, <1>2 DEF SettleInv, Settling

\* Every step keeps what the shutdown task relies on.
LEMMA SettleStep ==
    ASSUME IInv, [Next]_vars
    PROVE  SettleInv'
<1>0. /\ TypeOK /\ GateIsTheActiveDrive /\ QueueInv /\ CallInv /\ SettleInv /\ LifeInv
      /\ ready \in Seq(Callbacks) /\ DOMAIN ready \subseteq Nat
      /\ task \in [Conns -> {"none", "queued", "doomed", "awaiting", "cancelling"}
                             \cup Outcomes]
      /\ "queued" \notin Settling /\ "none" \notin Settling
    BY DEF IInv, TypeOK, Settling
<1>1. \A i \in DOMAIN ready : i \in Nat /\ i + 0 \in DOMAIN ready /\ ready[i] = ready[i + 0]
    BY <1>0
<1>2. ASSUME UNCHANGED <<settle, ready>>, state # "OPEN" => state' # "OPEN",
             main = "aborted" => main' = "aborted", settle = "done" => Unfinished' = {}
      PROVE  SettleInv'
    BY <1>2, <1>0 DEF SettleInv, Settling
<1>3. ASSUME UNCHANGED <<settle, task>>, ready' = <<>>, state # "OPEN" => state' # "OPEN",
             UNCHANGED main
      PROVE  SettleInv'
    BY <1>3, <1>0 DEF SettleInv, Settling, Unfinished
<1>4. CASE UNCHANGED <<settle, ready, state, main, task>>
    BY <1>4, <1>2, <1>0 DEF SettleInv, Unfinished
\* A callback of a call.
<1>5. ASSUME NEW kind \in {"step", "deliver"}, ready # <<>>,
             Then(<<>>) \/ \E c \in Conns : Then(<<Callback(kind, c)>>),
             UNCHANGED <<settle, state, main>>, settle = "done" => Unfinished' = {}
      PROVE  SettleInv'
    <2>1. CASE Then(<<>>)
        <3>1. \A i \in DOMAIN ready' : i \in Nat /\ i + 1 \in DOMAIN ready
                                       /\ ready'[i] = ready[i + 1]
            BY <1>5, <2>1, <1>0, Popped
        <3> QED BY <1>5, <3>1, <1>0, SettleKept
    <2>2. ASSUME NEW c \in Conns, Then(<<Callback(kind, c)>>)
          PROVE  SettleInv'
        <3>1. PICK cb \in Callbacks : cb = Callback(kind, c)
            BY CallbackType
        <3>2. cb.do = kind
            BY <3>1, CallbackType
        <3>3. \A i \in DOMAIN ready' : i \in Nat /\
                 \/ i + 1 \in DOMAIN ready /\ ready'[i] = ready[i + 1]
                 \/ ready'[i].do = kind
            BY <1>5, <2>2, <3>1, <3>2, <1>0, PoppedPushed
        <3> QED BY <1>5, <3>3, <1>0, SettleKept
    <2> QED BY <1>5, <2>1, <2>2
<1>6. ASSUME NEW c \in Conns, NEW kind \in {"create", "step", "deliver", "settle", "stop"},
             NEW cb, cb = Callback(kind, c) \/ cb = Callback(kind, None),
             ready' = Append(ready, cb)
      PROVE  /\ cb.do = kind
             /\ \A i \in DOMAIN ready' : i \in Nat /\
                   \/ i \in DOMAIN ready /\ ready'[i] = ready[i]
                   \/ i = Len(ready) + 1 /\ i \notin DOMAIN ready /\ ready'[i] = cb
    BY <1>6, <1>0, CallbackType, Pushed
<1>7. ASSUME NEW c \in Unfinished
      PROVE  settle # "done"
    BY <1>7, <1>0 DEF SettleInv
<1>8. CASE CreateTask
    <2>1. /\ ready # <<>> /\ 1 \in DOMAIN ready /\ ready[1].do = "create" /\ This \in Conns
        BY <1>8, <1>0, DueCall DEF CreateTask
    <2>2. settle # "done"
        BY <2>1, <1>0, SettleAlone DEF Settling
    <2> QED BY <1>8, <2>1, <2>2, <1>5 DEF CreateTask, thread
<1>9. CASE StepCall \/ StepDrive \/ StepCancelled
    <2>1. ready # <<>> /\ This \in Conns /\ This \in Unfinished
        BY <1>9, <1>0, DueCall DEF StepCall, StepDrive, StepCancelled, Unfinished
    <2> QED BY <1>9, <2>1, <1>7, <1>5 DEF StepCall, StepDrive, StepCancelled, thread
<1>10. CASE Deliver
    BY <1>10, <1>5, <1>0 DEF Deliver, Due, thread, SettleInv, Unfinished
<1>11. ASSUME NEW c \in Conns, DriveEnds(c) \/ DriveCancelled(c)
       PROVE  SettleInv'
    <2>1. c \in Unfinished /\ UNCHANGED <<settle, state, main>>
          /\ ready' = Append(ready, Callback("deliver", c))
        BY <1>11 DEF DriveEnds, DriveCancelled, Unfinished, thread
    <2>2. PICK cb : cb = Callback("deliver", c)
        OBVIOUS
    <2>3. \A i \in DOMAIN ready' : i \in Nat /\
             \/ i + 0 \in DOMAIN ready /\ ready'[i] = ready[i + 0]
             \/ ready'[i].do = "deliver"
        BY <2>1, <2>2, <1>6, <1>1
    <2> QED BY <2>1, <2>3, <1>7, <1>0, SettleKept
<1>12. CASE StartSettle
    <2>1. /\ ready # <<>> /\ 1 \in DOMAIN ready /\ ready[1].do = "settle"
          /\ UNCHANGED <<state, main>> /\ Then(<<>>) /\ settle' \in {"grace", "gather"}
        BY <1>12, <1>0, DueHead DEF StartSettle, Due, CancelAll, thread
    <2>2. \A i \in DOMAIN ready' : i \in Nat /\ i + 1 \in DOMAIN ready
                                   /\ ready'[i] = ready[i + 1]
        BY <2>1, <1>0, Popped
    <2>3. /\ settle = "queued" /\ state # "OPEN"
          /\ \A j \in DOMAIN ready : j # 1 => ready[j].do # "settle"
          /\ \A j \in DOMAIN ready : j > 1 => ready[j].do # "create"
        BY <2>1, <1>0 DEF SettleInv
    <2>4. \A i \in DOMAIN ready' : ready'[i].do \notin {"create", "settle"}
        <3>1. \A i \in DOMAIN ready' : i + 1 # 1 /\ i + 1 > 1
            BY <2>2, <1>0
        <3> QED BY <2>2, <2>3, <3>1
    <2>5. \A i \in DOMAIN ready' : ready'[i].do = "stop" => main' = "aborted"
        BY <2>1, <2>2, <2>3, <1>0 DEF SettleInv
    <2> QED BY <2>1, <2>3, <2>4, <2>5 DEF SettleInv, Settling
<1>13. CASE GraceEnds \/ DriveSettled
    <2>1. /\ settle \in Settling \ {"done"} /\ settle' \in Settling \ {"done"}
          /\ UNCHANGED <<ready, state, main>>
        BY <1>13 DEF GraceEnds, DriveSettled, CancelAll, Settling, thread
    <2> QED BY <2>1, <1>0, SettleMoves
<1>14. CASE FinishSettle
    <2>1. /\ settle \in Settling \ {"done"} /\ settle' = "done" /\ settle' \in Settling
          /\ UNCHANGED <<state, main, task>> /\ Unfinished = {}
          /\ ready' = Append(ready, Callback("stop", None))
        BY <1>14 DEF FinishSettle, Settling, thread
    <2>2. PICK cb \in Callbacks : cb = Callback("stop", None)
        BY CallbackType
    <2>3. cb.do = "stop"
        BY <2>2, CallbackType
    <2>4. \A i \in DOMAIN ready' : \/ i \in DOMAIN ready /\ ready'[i] = ready[i]
                                   \/ ready'[i].do = "stop"
        BY <2>1, <2>2, <2>3, <1>0, Pushed
    <2>5. Unfinished' = {}
        BY <2>1 DEF Unfinished
    <2> QED BY <2>1, <2>4, <2>5, <1>0, SettleMoves
<1>15. CASE FailToOpen \/ Announce \/ EnterLoop \/ StopLoop
    <2>1. state # "OPEN" => state' # "OPEN"
        BY <1>15 DEF FailToOpen, Announce, EnterLoop, StopLoop, Wind
    <2> QED BY <1>15, <2>1, <1>3, <1>4 DEF FailToOpen, Announce, EnterLoop, StopLoop, Wind
<1>16. CASE StartTimesOut
    <2>1. /\ UNCHANGED <<settle, task>> /\ state' # "OPEN" /\ main' = "aborted"
          /\ ready' = Append(ready, Callback("stop", None))
        BY <1>16 DEF StartTimesOut, MarkClosing
    <2>2. PICK cb \in Callbacks : cb = Callback("stop", None)
        BY CallbackType
    <2>3. cb.do = "stop"
        BY <2>2, CallbackType
    <2>4. \A i \in DOMAIN ready' : i \in Nat /\
             \/ i + 0 \in DOMAIN ready /\ ready'[i] = ready[i + 0]
             \/ ready'[i].do = "stop"
        BY <2>1, <2>2, <2>3, <1>0, <1>1, Pushed
    <2>5. settle = "done" => Unfinished' = {}
        BY <2>1, <1>0 DEF SettleInv, Unfinished
    <2> QED BY <2>1, <2>4, <2>5, <1>0, SettleKept
<1>17. CASE ScheduleSettle
    <2>1. settle = "none" /\ state # "OPEN" /\ UNCHANGED <<state, task>> /\ main = "schedule"
        BY <1>17, <1>0 DEF ScheduleSettle, LifeInv, thread
    <2>2. CASE UNCHANGED <<ready, settle>>
        BY <2>1, <2>2, <1>2
    <2>3. CASE /\ ready' = Append(ready, Callback("settle", None)) /\ settle' = "queued"
        <3>1. PICK cb \in Callbacks : cb = Callback("settle", None)
            BY CallbackType
        <3>2. cb.do = "settle"
            BY <3>1, CallbackType
        <3>3. \A i \in DOMAIN ready' :
                 \/ i \in DOMAIN ready /\ i < Len(ready) + 1 /\ ready'[i] = ready[i]
                 \/ i = Len(ready) + 1 /\ ready'[i] = cb
            BY <2>3, <3>1, <1>0, Pushed
        <3>4. \A i \in DOMAIN ready : ready[i].do \notin {"settle", "stop"}
            BY <2>1, <1>0 DEF SettleInv
        <3>5. \A i \in DOMAIN ready' : ready'[i].do # "stop"
            BY <3>2, <3>3, <3>4
        <3>6. ASSUME NEW i \in DOMAIN ready', ready'[i].do = "settle"
              PROVE  /\ \A j \in DOMAIN ready' : j # i => ready'[j].do # "settle"
                     /\ \A j \in DOMAIN ready' : j > i => ready'[j].do # "create"
            <4>1. i = Len(ready) + 1
                BY <3>3, <3>4, <3>6
            <4>2. \A j \in DOMAIN ready' : j # i => j < i /\ j \in DOMAIN ready
                                                    /\ ready'[j] = ready[j] /\ j \in Nat
                BY <3>3, <4>1, <1>0
            <4>3. Len(ready) \in Nat
                BY <1>0
            <4>4. \A j \in DOMAIN ready' : ~(j > i)
                BY <4>1, <4>2, <4>3
            <4> QED BY <4>2, <4>4, <3>4
        <3> QED BY <2>1, <2>3, <3>5, <3>6 DEF SettleInv, Settling
    <2> QED BY <1>17, <2>2, <2>3 DEF ScheduleSettle
<1>18. ASSUME NEW c \in Conns, Call(c)
       PROVE  SettleInv'
    <2>1. UNCHANGED <<settle, state, main>>
        BY <1>18 DEF Call, thread
    <2>2. CASE UNCHANGED <<ready, task>>
        BY <2>1, <2>2, <1>4
    <2>3. CASE state = "OPEN" /\ ready' = Append(ready, Callback("create", c))
        <3>1. settle = "none"
            BY <2>3, <1>0 DEF SettleInv
        <3>2. PICK cb \in Callbacks : cb = Callback("create", c)
            BY CallbackType
        <3>3. cb.do = "create"
            BY <3>2, CallbackType
        <3>4. \A i \in DOMAIN ready' : \/ i \in DOMAIN ready /\ ready'[i] = ready[i]
                                       \/ ready'[i] = cb
            BY <2>3, <3>2, <1>0, Pushed
        <3>5. \A i \in DOMAIN ready' : ready'[i].do = "stop" => main' = "aborted"
            BY <2>1, <3>1, <3>3, <3>4, <1>0 DEF SettleInv
        <3>6. \A i \in DOMAIN ready' : ready'[i].do # "settle"
            BY <3>1, <3>3, <3>4, <1>0 DEF SettleInv
        <3> QED BY <2>1, <3>1, <3>5, <3>6 DEF SettleInv, Settling
    <2> QED BY <1>18, <2>2, <2>3 DEF Call
<1>19. CASE BeginClose
    <2>1. /\ UNCHANGED <<settle, ready, task>> /\ (state # "OPEN" => state' # "OPEN")
          /\ main # "aborted"
        BY <1>19 DEF BeginClose, MarkClosing, loop
    <2>2. settle = "done" => Unfinished' = {}
        BY <2>1, <1>0 DEF SettleInv, Unfinished
    <2> QED BY <2>1, <2>2, <1>2
<1>20. CASE StartReturns \/ Serve \/ Shutdown \/ SettleReturns \/ Joined \/ Drained \/ Deadline
    <2>1. UNCHANGED <<settle, ready, task, state>> /\ main # "aborted"
        BY <1>20 DEF StartReturns, Serve, Shutdown, SettleReturns, Joined, Drained, Deadline,
                     loop, thread
    <2>2. settle = "done" => Unfinished' = {}
        BY <2>1, <1>0 DEF SettleInv, Unfinished
    <2> QED BY <2>1, <2>2, <1>2
<1> QED
    BY <1>4, <1>8, <1>9, <1>10, <1>11, <1>12, <1>13, <1>14, <1>15, <1>16, <1>17, <1>18,
       <1>19, <1>20
    DEF Next, OwnerThread, MainThread, vars, loop, thread, OpenStores, TakeConnection,
        StartHandler, RefuseHeaders, RefusePath, RefuseBody, Refuse, Return, GiveUp,
        FinishHandler
-----------------------------------------------------------------------------
\* The life of the owner.

\* A task runs while the loop does, or not at all.
LEMMA LifeStep ==
    ASSUME IInv, [Next]_vars
    PROVE  LifeInv'
<1>0. /\ TypeOK /\ SettleInv /\ LifeInv /\ ready \in Seq(Callbacks)
      /\ task \in [Conns -> {"none", "queued", "doomed", "awaiting", "cancelling"}
                             \cup Outcomes]
    BY DEF IInv, TypeOK
<1>1. CASE UNCHANGED <<pc, state, main, settle, task>>
    BY <1>1, <1>0 DEF LifeInv, Unfinished
<1>2. ASSUME pc = "looping", UNCHANGED <<thread, main>>, settle = "none" => settle' = "none"
      PROVE  LifeInv'
    BY <1>2, <1>0 DEF LifeInv, thread
<1>3. CASE CreateTask \/ StepCall \/ StepDrive \/ StepCancelled
    BY <1>3, <1>2 DEF CreateTask, StepCall, StepDrive, StepCancelled, Due
<1>4. ASSUME NEW c \in Conns, DriveEnds(c) \/ DriveCancelled(c)
      PROVE  LifeInv'
    BY <1>4, <1>2 DEF DriveEnds, DriveCancelled
<1>5. CASE StartSettle
    <2>1. 1 \in DOMAIN ready /\ ready[1].do = "settle"
        BY <1>5, <1>0, DueHead DEF StartSettle
    <2>2. settle # "none"
        BY <2>1, <1>0 DEF SettleInv
    <2> QED BY <1>5, <2>2, <1>2 DEF StartSettle, Due
<1>6. CASE GraceEnds \/ DriveSettled \/ FinishSettle
    BY <1>6, <1>2 DEF GraceEnds, DriveSettled, FinishSettle
<1>7. CASE OpenStores
    BY <1>7, <1>0 DEF OpenStores, LifeInv, Unfinished, loop
<1>8. CASE FailToOpen \/ Announce \/ EnterLoop
    <2>1. pc \in {"starting", "started", "announced"} /\ UNCHANGED <<main, settle, task>>
        BY <1>8 DEF FailToOpen, Announce, EnterLoop
    <2>2. Unfinished' = {}
        BY <2>1, <1>0 DEF LifeInv, Unfinished
    <2>3. /\ state' = state \/ state' = "CLOSED"
          /\ pc' = "closed" => state' = "CLOSED"
        BY <1>8 DEF FailToOpen, Announce, EnterLoop, Wind
    <2>4. pc # "closed"
        BY <2>1
    <2> QED BY <2>1, <2>2, <2>3, <2>4, <1>0 DEF LifeInv
<1>9. CASE StopLoop
    <2>1. 1 \in DOMAIN ready /\ ready[1].do = "stop"
        BY <1>9, <1>0, DueHead DEF StopLoop
    <2>2. main = "aborted" \/ Unfinished = {}
        BY <2>1, <1>0 DEF SettleInv
    <2>3. UNCHANGED <<main, settle, task>> /\ pc' = "closed" /\ state' = "CLOSED"
        BY <1>9 DEF StopLoop, Wind
    <2> QED BY <2>2, <2>3, <1>0 DEF LifeInv, Unfinished
<1>10. ASSUME NEW c \in Conns, Call(c)
       PROVE  LifeInv'
    <2>1. /\ UNCHANGED <<pc, state, main, settle>>
          /\ task' = task \/ task' = [task EXCEPT ![c] = "none"]
        BY <1>10 DEF Call, thread
    <2>2. Unfinished' \subseteq Unfinished
        BY <2>1, <1>0 DEF Unfinished
    <2> QED BY <2>1, <2>2, <1>0 DEF LifeInv
<1>11. ASSUME MainThread, UNCHANGED task, UNCHANGED pc
       PROVE  LifeInv'
    <2>0. Unfinished' = Unfinished
        BY <1>11 DEF Unfinished
    <2>1. CASE StartReturns \/ Serve \/ Shutdown
        BY <2>0, <2>1, <1>0
        DEF LifeInv, StartReturns, Serve, Shutdown, loop, thread
    <2>2. CASE StartTimesOut
        BY <2>0, <2>2, <1>0 DEF LifeInv, StartTimesOut, MarkClosing
    <2>3. CASE BeginClose
        BY <2>0, <2>3, <1>0 DEF LifeInv, BeginClose, MarkClosing, loop
    <2>4. CASE ScheduleSettle
        BY <2>0, <2>4, <1>0 DEF LifeInv, ScheduleSettle, thread
    <2>5. CASE SettleReturns \/ Joined \/ Drained \/ Deadline
        BY <2>0, <2>5, <1>0 DEF LifeInv, SettleReturns, Joined, Drained, Deadline, loop, thread
    <2> QED BY <1>11, <2>1, <2>2, <2>3, <2>4, <2>5 DEF MainThread
<1>12. MainThread => UNCHANGED <<task, pc>>
    BY DEF MainThread, StartReturns, StartTimesOut, Serve, Shutdown, BeginClose,
           ScheduleSettle, SettleReturns, Joined, Drained, Deadline, loop, thread
<1> QED
    BY <1>1, <1>3, <1>4, <1>5, <1>6, <1>7, <1>8, <1>9, <1>10, <1>11, <1>12
    DEF Next, OwnerThread, vars, loop, thread, Deliver, TakeConnection, StartHandler,
        RefuseHeaders, RefusePath, RefuseBody, Refuse, Return, GiveUp, FinishHandler
-----------------------------------------------------------------------------
\* The permits.

\* The handlers that run are finitely many.
LEMMA BusyIsFinite ==
    /\ IsFiniteSet(Busy) /\ Cardinality(Busy) \in Nat
    /\ Cardinality(Busy) \in 0 .. Cardinality(Conns) /\ Cardinality(Conns) \in Nat
<1>1. Busy \in SUBSET Conns
    BY DEF Busy
<1>2. IsFiniteSet(Conns)
    BY ServerAssumption
<1>3. IsFiniteSet(Busy) /\ Cardinality(Busy) <= Cardinality(Conns)
    BY <1>1, <1>2, FS_Subset
<1>4. Cardinality(Busy) \in Nat /\ Cardinality(Conns) \in Nat
    BY <1>2, <1>3, FS_CardinalityType
<1> QED BY <1>3, <1>4

\* Every step accounts for every permit.
LEMMA PermitStep ==
    ASSUME IInv, [Next]_vars
    PROVE  PermitInv'
<1>0. /\ TypeOK /\ PermitInv /\ LifeInv
      /\ conn \in [Conns -> Handler] /\ "shutting_down" \in Outcomes /\ None \notin Conns
      /\ permits \in Int /\ handlers \in Int /\ acceptor \in Conns \cup {None}
      /\ MaxConnections \in Int
    BY ServerAssumption, BusyIsFinite DEF IInv, TypeOK, Outcomes, PermitInv
<1>1. CASE UNCHANGED <<handlers, permits, acceptor, conn, main>>
    BY <1>1, <1>0 DEF PermitInv, Busy
<1>2. ASSUME NEW c \in Conns, conn[c].at \in {"calling", "waiting", "answered"},
             conn'[c].at \in {"calling", "waiting", "answered"},
             \A d \in Conns \ {c} : conn'[d] = conn[d],
             UNCHANGED <<handlers, permits, acceptor, main>>
      PROVE  PermitInv'
    <2>1. Busy' = Busy
        BY <1>2 DEF Busy
    <2>2. acceptor # None => conn'[acceptor].at = "absent"
        BY <1>2, <1>0 DEF PermitInv
    <2> QED BY <1>2, <2>1, <2>2, <1>0 DEF PermitInv
<1>3. ASSUME NEW c \in Conns, NEW outcome \in Outcomes, Answer(c, outcome),
             conn[c].at \in {"calling", "waiting"},
             UNCHANGED <<handlers, permits, acceptor, main>>
      PROVE  PermitInv'
    <2>1. conn'[c].at = "answered" /\ \A d \in Conns \ {c} : conn'[d] = conn[d]
        BY <1>3, <1>0, ConnAnswered DEF Answer
    <2> QED BY <2>1, <1>2, <1>3
<1>4. ASSUME NEW c \in Conns, RefuseHeaders(c) \/ RefusePath(c) \/ RefuseBody(c)
      PROVE  PermitInv'
    <2>1. /\ conn[c].at = "calling" /\ UNCHANGED <<handlers, permits, acceptor, main>>
          /\ \E outcome \in Outcomes : Answer(c, outcome)
        BY <1>4 DEF RefuseHeaders, RefusePath, RefuseBody, Refuse, Outcomes
    <2> QED BY <2>1, <1>3
<1>5. ASSUME NEW c \in Conns, Call(c)
      PROVE  PermitInv'
    <2>1. conn[c].at = "calling" /\ UNCHANGED <<handlers, permits, acceptor, main>>
        BY <1>5 DEF Call
    <2>2. CASE conn' = [conn EXCEPT ![c].at = "waiting"]
        <3>1. conn'[c].at = "waiting" /\ \A d \in Conns \ {c} : conn'[d] = conn[d]
            BY <2>2, <1>0, ConnMoves
        <3> QED BY <2>1, <3>1, <1>2
    <2> QED BY <1>5, <2>1, <2>2, <1>3 DEF Call, Outcomes
<1>6. ASSUME NEW c \in Conns, Return(c)
      PROVE  PermitInv'
    <2>1. /\ conn[c].at = "waiting" /\ UNCHANGED <<handlers, permits, acceptor, main>>
          /\ future[c] \in Outcomes
        BY <1>6 DEF Return
    <2>2. CASE conn' = [conn EXCEPT ![c].at = "calling"]
        <3>1. conn'[c].at = "calling" /\ \A d \in Conns \ {c} : conn'[d] = conn[d]
            BY <2>2, <1>0, ConnMoves
        <3> QED BY <2>1, <3>1, <1>2
    <2>3. CASE \E outcome \in Outcomes : Answer(c, outcome)
        BY <2>1, <2>3, <1>3
    <2> QED BY <1>6, <2>1, <2>2, <2>3 DEF Return, CancelledAnswer, Outcomes
<1>7. ASSUME NEW c \in Conns, GiveUp(c)
      PROVE  PermitInv'
    <2>1. /\ conn[c].at = "waiting" /\ UNCHANGED <<handlers, permits, acceptor, main>>
          /\ \E outcome \in Outcomes : Answer(c, outcome)
        BY <1>7 DEF GiveUp, Outcomes
    <2> QED BY <2>1, <1>3
<1>8. ASSUME NEW c \in Conns, FinishHandler(c)
      PROVE  PermitInv'
    <2>1. /\ conn[c].at = "answered" /\ conn' = [conn EXCEPT ![c].at = "gone"]
          /\ permits' = permits + 1 /\ handlers' = handlers - 1 /\ UNCHANGED <<acceptor, main>>
        BY <1>8 DEF FinishHandler
    <2>2. conn'[c].at = "gone" /\ \A d \in Conns \ {c} : conn'[d] = conn[d]
        BY <2>1, <1>0, ConnMoves
    <2>3. Busy' = Busy \ {c} /\ c \in Busy
        BY <2>1, <2>2 DEF Busy
    <2>4. Cardinality(Busy \ {c}) = Cardinality(Busy) - 1
        BY <2>3, BusyIsFinite, FS_RemoveElement
    <2>5. handlers # 0
        BY <2>3, <1>0, BusyIsFinite, FS_EmptySet DEF PermitInv
    <2>6. acceptor # None => conn'[acceptor].at = "absent"
        BY <2>1, <2>2, <1>0 DEF PermitInv
    <2>7. handlers' = Cardinality(Busy')
        BY <2>1, <2>3, <2>4, <1>0 DEF PermitInv
    <2> QED BY <2>1, <2>5, <2>6, <2>7, <1>0 DEF PermitInv
<1>9. ASSUME NEW c \in Conns, conn[c].at = "absent", conn'[c].at = "gone",
             \A d \in Conns \ {c} : conn'[d] = conn[d]
      PROVE  Busy' = Busy
    BY <1>9 DEF Busy
<1>10. ASSUME NEW c \in Conns, TakeConnection(c)
       PROVE  PermitInv'
    <2>1. /\ main \in {"serving", "stopping"} /\ acceptor = None /\ conn[c].at = "absent"
          /\ UNCHANGED <<main, handlers>>
        BY <1>10 DEF TakeConnection
    <2>2. CASE permits' = permits - 1 /\ acceptor' = c /\ UNCHANGED conn
        BY <2>1, <2>2, <1>0 DEF PermitInv, Busy
    <2>3. CASE /\ conn' = [conn EXCEPT ![c].at = "gone", ![c].answer = "shutting_down"]
               /\ UNCHANGED <<acceptor, permits>>
        <3>0. conn'[c].at = "gone" /\ \A d \in Conns \ {c} : conn'[d] = conn[d]
            BY <2>3, <1>0, ConnAnswered
        <3>1. Busy' = Busy
            BY <2>1, <3>0, <1>9
        <3> QED BY <2>1, <2>3, <3>1, <1>0 DEF PermitInv
    <2> QED BY <1>10, <2>2, <2>3 DEF TakeConnection
<1>11. CASE StartHandler
    <2>1. /\ acceptor \in Conns /\ conn[acceptor].at = "absent" /\ acceptor' = None
          /\ UNCHANGED main
          /\ main \in {"serving", "stopping"}
        BY <1>11, <1>0 DEF StartHandler, PermitInv
    <2>2. CASE /\ permits' = permits + 1 /\ UNCHANGED handlers
               /\ conn' = [conn EXCEPT ![acceptor].at = "gone",
                                       ![acceptor].answer = "shutting_down"]
        <3>0. /\ conn'[acceptor].at = "gone"
              /\ \A d \in Conns \ {acceptor} : conn'[d] = conn[d]
            BY <2>1, <2>2, <1>0, ConnAnswered
        <3>1. Busy' = Busy
            BY <2>1, <3>0, <1>9
        <3> QED BY <2>1, <2>2, <3>1, <1>0 DEF PermitInv
    <2>3. CASE /\ handlers' = handlers + 1 /\ UNCHANGED permits
               /\ conn' = [conn EXCEPT ![acceptor].at = "calling"]
        <3>1. /\ conn'[acceptor].at = "calling"
              /\ \A d \in Conns \ {acceptor} : conn'[d] = conn[d]
            BY <2>1, <2>3, <1>0, ConnMoves
        <3>2. Busy' = Busy \cup {acceptor} /\ acceptor \notin Busy
            BY <2>1, <3>1 DEF Busy
        <3>3. Cardinality(Busy \cup {acceptor}) = Cardinality(Busy) + 1
            BY <3>2, BusyIsFinite, FS_AddElement
        <3>4. handlers' = Cardinality(Busy')
            BY <2>3, <3>2, <3>3, <1>0 DEF PermitInv
        <3> QED BY <2>1, <2>3, <3>4, <1>0 DEF PermitInv
    <2> QED BY <1>11, <2>2, <2>3 DEF StartHandler
<1>12. CASE MainThread
    <2>1. UNCHANGED <<handlers, permits, acceptor, conn>>
        BY <1>12 DEF MainThread, StartReturns, StartTimesOut, Serve, Shutdown, BeginClose,
           ScheduleSettle, SettleReturns, Joined, Drained, Deadline, http
    <2>2. /\ main' \notin {"serving", "stopping"} => acceptor = None
          /\ main' = "closed" => handlers = 0
        BY <1>12, <1>0 DEF MainThread, StartReturns, StartTimesOut, Serve, Shutdown, BeginClose,
           ScheduleSettle, SettleReturns, Joined, Drained, Deadline, PermitInv
    <2> QED BY <2>1, <2>2, <1>0 DEF PermitInv, Busy
<1> QED
    BY <1>1, <1>4, <1>5, <1>6, <1>7, <1>8, <1>10, <1>11, <1>12
    DEF Next, OwnerThread, vars, http, OpenStores, FailToOpen, Announce, EnterLoop, CreateTask,
        StepCall, StepDrive, StepCancelled, Deliver, StartSettle, GraceEnds, DriveSettled,
        FinishSettle, StopLoop, DriveEnds, DriveCancelled
-----------------------------------------------------------------------------
\* Types.

\* The first callback runs.
LEMMA ReadyType ==
    ASSUME ready \in Seq(Callbacks), ready # <<>>,
           \/ Then(<<>>)
           \/ \E kind \in {"step", "deliver"}, c \in Conns : Then(<<Callback(kind, c)>>)
    PROVE  ready' \in Seq(Callbacks)
BY Popped, PoppedPushed, CallbackType

\* A callback is scheduled.
LEMMA ReadyGrows ==
    ASSUME ready \in Seq(Callbacks),
           NEW kind \in {"create", "step", "deliver", "settle", "stop"},
           NEW c \in Conns \cup {None}, ready' = Append(ready, Callback(kind, c))
    PROVE  ready' \in Seq(Callbacks)
BY Pushed, CallbackType

\* The thread and its state.
ThreadType ==
    /\ pc \in {"starting", "started", "announced", "looping", "closed"}
    /\ state \in {"OPEN", "CLOSING", "CLOSED"}
    /\ stopAsked \in BOOLEAN /\ running \in BOOLEAN /\ started \in BOOLEAN
    /\ failed \in BOOLEAN

\* The loop.
LoopType ==
    /\ ready \in Seq(Callbacks)
    /\ task \in [Conns -> {"none", "queued", "doomed", "awaiting", "cancelling"} \cup Outcomes]
    /\ future \in [Conns -> {"none", "pending", "abandoned"} \cup Outcomes]
    /\ gate \in Conns \cup {None} /\ active \in Conns \cup {None}
    /\ settle \in {"none", "queued", "grace", "await", "gather", "done"}
    /\ shutdown \in {"none", "pending", "done"}

\* The thread of the server and the handlers.
HttpType ==
    /\ main \in {"start", "bind", "serving", "stopping", "schedule", "settling", "join",
                 "drain", "closed", "incomplete", "aborted"}
    /\ closing \in BOOLEAN /\ acceptor \in Conns \cup {None}
    /\ conn \in [Conns -> Handler] /\ permits \in Nat
    /\ effects \subseteq Conns

\* Every step keeps the types of the owner thread.
LEMMA ThreadTypeStep ==
    ASSUME ThreadType, [Next]_vars
    PROVE  ThreadType'
<1>1. CASE UNCHANGED thread
    BY <1>1 DEF ThreadType, thread
<1>2. CASE OpenStores \/ FailToOpen \/ Announce \/ EnterLoop \/ StopLoop
    BY <1>2 DEF ThreadType, OpenStores, FailToOpen, Announce, EnterLoop, StopLoop, Wind
<1>3. CASE StartTimesOut \/ BeginClose
    BY <1>3 DEF ThreadType, StartTimesOut, BeginClose, MarkClosing
<1> QED
    BY <1>1, <1>2, <1>3
    DEF Next, OwnerThread, MainThread, vars, thread, CreateTask, StepCall, StepDrive,
        StepCancelled, Deliver, StartSettle, GraceEnds, DriveSettled, FinishSettle, DriveEnds,
        DriveCancelled, TakeConnection, StartHandler, RefuseHeaders, RefusePath, RefuseBody,
        Refuse, Call, Return, GiveUp, FinishHandler, StartReturns, Serve, Shutdown,
        ScheduleSettle, SettleReturns, Joined, Drained, Deadline

\* Every step keeps the types of the loop.
LEMMA LoopTypeStep ==
    ASSUME IInv, [Next]_vars
    PROVE  LoopType'
<1>0. TypeOK /\ QueueInv /\ LoopType /\ GateIsTheActiveDrive /\ None \notin Conns
    BY ServerAssumption DEF IInv, TypeOK, LoopType
<1>1. CASE UNCHANGED loop
    BY <1>1, <1>0 DEF LoopType, loop
<1>2. CASE CreateTask
    <2>1. This \in Conns /\ ready # <<>>
        BY <1>2, <1>0, DueCall DEF CreateTask
    <2>2. ready' \in Seq(Callbacks)
        BY <1>2, <2>1, <1>0, ReadyType DEF CreateTask, LoopType
    <2> QED BY <1>2, <2>1, <2>2, <1>0 DEF CreateTask, LoopType, Outcomes
<1>3. CASE StepCall \/ StepCancelled
    <2>1. This \in Conns /\ ready # <<>>
        BY <1>3, <1>0, DueCall DEF StepCall, StepCancelled
    <2>2. ready' \in Seq(Callbacks)
        BY <1>3, <2>1, <1>0, ReadyType DEF StepCall, StepCancelled, LoopType
    <2>3. \E outcome \in Outcomes : End(This, outcome)
        BY <1>3, <1>0, StepCallEnds DEF StepCancelled, Outcomes
    <2>4. UNCHANGED <<future, settle, shutdown>>
        BY <1>3 DEF StepCall, StepCancelled
    <2> QED BY <2>1, <2>2, <2>3, <2>4, <1>0, EndFrame DEF LoopType
<1>4. CASE StepDrive
    <2>1. This \in Conns /\ ready # <<>>
        BY <1>4, <1>0, DueCall DEF StepDrive
    <2>2. ready' \in Seq(Callbacks)
        BY <1>4, <2>1, <1>0, ReadyType DEF StepDrive, LoopType
    <2> QED BY <1>4, <2>1, <2>2, <1>0 DEF StepDrive, LoopType
<1>5. ASSUME NEW c \in Conns, DriveEnds(c) \/ DriveCancelled(c)
      PROVE  LoopType'
    <2>1. ready' \in Seq(Callbacks)
        BY <1>5, <1>0, ReadyGrows DEF DriveEnds, DriveCancelled, LoopType
    <2>2. \E outcome \in Outcomes : End(c, outcome)
        BY <1>5 DEF DriveEnds, DriveCancelled, Outcomes
    <2>3. UNCHANGED <<future, settle, shutdown>>
        BY <1>5 DEF DriveEnds, DriveCancelled
    <2> QED BY <2>1, <2>2, <2>3, <1>0, EndFrame DEF LoopType
<1>6. CASE Deliver
    <2>1. This \in Conns /\ ready # <<>> /\ task[This] \in Outcomes
        BY <1>6, <1>0, DueCall DEF Deliver
    <2>2. ready' \in Seq(Callbacks)
        BY <1>6, <2>1, <1>0, ReadyType DEF Deliver, LoopType
    <2> QED BY <1>6, <2>1, <2>2, <1>0 DEF Deliver, LoopType
<1>7. CASE StartSettle
    <2>1. ready' \in Seq(Callbacks)
        BY <1>7, <1>0, ReadyType DEF StartSettle, Due, LoopType
    <2>2. UNCHANGED <<future, gate, active, shutdown>>
        BY <1>7 DEF StartSettle
    <2>3. CASE CancelAll
        BY <2>1, <2>2, <2>3, <1>0, CancelAllFrame DEF LoopType
    <2>4. CASE UNCHANGED task /\ settle' = "grace"
        BY <2>1, <2>2, <2>4, <1>0 DEF LoopType
    <2> QED BY <1>7, <2>3, <2>4 DEF StartSettle
<1>8. CASE DriveSettled
    <2>1. UNCHANGED <<ready, future, gate, active, shutdown>> /\ CancelAll
        BY <1>8 DEF DriveSettled
    <2> QED BY <2>1, <1>0, CancelAllFrame DEF LoopType
<1>9. CASE GraceEnds
    BY <1>9, <1>0 DEF GraceEnds, LoopType
<1>10. CASE FinishSettle \/ StartTimesOut \/ ScheduleSettle
    <2>1. ready' \in Seq(Callbacks)
        BY <1>10, <1>0, ReadyGrows DEF FinishSettle, StartTimesOut, ScheduleSettle, LoopType
    <2> QED BY <1>10, <2>1, <1>0 DEF FinishSettle, StartTimesOut, ScheduleSettle, LoopType
<1>11. CASE FailToOpen \/ Announce \/ EnterLoop \/ StopLoop
    <2>1. ready' = ready \/ ready' = <<>>
        BY <1>11 DEF FailToOpen, Announce, EnterLoop, StopLoop, Wind
    <2>2. ready' \in Seq(Callbacks)
        <3>1. <<>> \in Seq(Callbacks) /\ ready \in Seq(Callbacks)
            BY <1>0 DEF LoopType
        <3> QED BY <2>1, <3>1
    <2>3. UNCHANGED <<task, future, gate, active, settle, shutdown>>
        BY <1>11 DEF FailToOpen, Announce, EnterLoop, StopLoop
    <2> QED BY <2>2, <2>3, <1>0 DEF LoopType
<1>12. ASSUME NEW c \in Conns, Call(c)
       PROVE  LoopType'
    <2>1. ready' \in Seq(Callbacks)
        BY <1>12, <1>0, ReadyGrows DEF Call, LoopType
    <2>2. /\ task' = task \/ task' = [task EXCEPT ![c] = "none"]
          /\ future' = future \/ future' = [future EXCEPT ![c] = "pending"]
          /\ UNCHANGED <<gate, active, settle, shutdown>>
        BY <1>12 DEF Call
    <2> QED BY <2>1, <2>2, <1>0 DEF LoopType
<1>13. ASSUME NEW c \in Conns, GiveUp(c)
       PROVE  LoopType'
    <2>1. /\ future' = [future EXCEPT ![c] = "abandoned"]
          /\ UNCHANGED <<ready, task, gate, active, settle, shutdown>>
        BY <1>13 DEF GiveUp
    <2> QED BY <2>1, <1>0 DEF LoopType
<1> QED
    BY <1>1, <1>2, <1>3, <1>4, <1>5, <1>6, <1>7, <1>8, <1>9, <1>10, <1>11, <1>12, <1>13
    DEF Next, OwnerThread, MainThread, vars, OpenStores, TakeConnection, StartHandler,
        RefuseHeaders, RefusePath, RefuseBody, Refuse, Return, FinishHandler, StartReturns,
        Serve, Shutdown, BeginClose, SettleReturns, Joined, Drained, Deadline

\* Every step keeps the types of the server and its handlers.
LEMMA HttpTypeStep ==
    ASSUME IInv, [Next]_vars
    PROVE  HttpType'
<1>0. /\ TypeOK /\ QueueInv /\ HttpType /\ None \notin Conns /\ conn \in [Conns -> Handler]
      /\ effects \subseteq Conns /\ permits \in Nat
    BY ServerAssumption DEF IInv, TypeOK, HttpType
<1>1. CASE UNCHANGED <<main, http, effects>>
    BY <1>1, <1>0 DEF HttpType, http
<1>2. CASE StepCall
    <2>1. This \in Conns /\ UNCHANGED <<main, http>>
        BY <1>2, <1>0, DueCall DEF StepCall
    <2>2. effects' \subseteq Conns
        BY <1>2, <2>1, <1>0, StepCallEnds
    <2> QED BY <2>1, <2>2, <1>0 DEF HttpType, http
<1>3. CASE StepDrive
    <2>1. This \in Conns /\ UNCHANGED <<main, http>> /\ effects' = effects \cup {This}
        BY <1>3, <1>0, DueCall DEF StepDrive
    <2> QED BY <2>1, <1>0 DEF HttpType, http
<1>4. CASE MainThread
    BY <1>4, <1>0 DEF MainThread, StartReturns, StartTimesOut, Serve, Shutdown, BeginClose,
       ScheduleSettle, SettleReturns, Joined, Drained, Deadline, http, HttpType
<1>5. ASSUME NEW c \in Conns, UNCHANGED <<main, closing, effects>>,
             acceptor' \in Conns \cup {None}, permits' \in Nat,
             \/ UNCHANGED conn
             \/ \E at \in {"absent", "calling", "waiting", "answered", "gone"} :
                   conn' = [conn EXCEPT ![c].at = at]
      PROVE  HttpType'
    <2>1. conn' \in [Conns -> Handler]
        BY <1>5, <1>0, ConnMoves
    <2> QED BY <2>1, <1>5, <1>0 DEF HttpType
<1>6. ASSUME NEW c \in Conns, UNCHANGED <<main, closing, effects>>,
             acceptor' \in Conns \cup {None}, permits' \in Nat,
             NEW at \in {"absent", "calling", "waiting", "answered", "gone"},
             NEW outcome \in Outcomes,
             conn' = [conn EXCEPT ![c].at = at, ![c].answer = outcome]
      PROVE  HttpType'
    <2>1. conn' \in [Conns -> Handler]
        BY <1>6, <1>0, ConnAnswered
    <2> QED BY <2>1, <1>6, <1>0 DEF HttpType
<1>7. ASSUME NEW c \in Conns, NEW outcome \in Outcomes, Answer(c, outcome),
             UNCHANGED <<main, closing, effects, acceptor, permits>>
      PROVE  HttpType'
    <2>1. conn' \in [Conns -> Handler]
        BY <1>7, <1>0, ConnAnswered DEF Answer
    <2> QED BY <2>1, <1>7, <1>0 DEF HttpType
<1>8. ASSUME NEW c \in Conns, RefuseHeaders(c) \/ RefusePath(c) \/ RefuseBody(c)
      PROVE  HttpType'
    <2>1. /\ UNCHANGED <<main, closing, effects, acceptor, permits>>
          /\ \E outcome \in Outcomes : Answer(c, outcome)
        BY <1>8 DEF RefuseHeaders, RefusePath, RefuseBody, Refuse, Outcomes
    <2> QED BY <2>1, <1>7
<1>9. ASSUME NEW c \in Conns, Call(c)
      PROVE  HttpType'
    BY <1>9, <1>5, <1>7, <1>0 DEF Call, Outcomes, HttpType
<1>10. ASSUME NEW c \in Conns, Return(c)
       PROVE  HttpType'
    <2>1. UNCHANGED <<main, closing, effects, acceptor, permits>> /\ future[c] \in Outcomes
        BY <1>10 DEF Return
    <2>2. CASE conn' = [conn EXCEPT ![c].at = "calling"]
        BY <2>1, <2>2, <1>5, <1>0 DEF HttpType
    <2>3. CASE \E outcome \in Outcomes : Answer(c, outcome)
        BY <2>1, <2>3, <1>7
    <2> QED BY <1>10, <2>1, <2>2, <2>3 DEF Return, CancelledAnswer, Outcomes
<1>11. ASSUME NEW c \in Conns, GiveUp(c)
       PROVE  HttpType'
    <2>1. /\ UNCHANGED <<main, closing, effects, acceptor, permits>>
          /\ \E outcome \in Outcomes : Answer(c, outcome)
        BY <1>11 DEF GiveUp, Outcomes
    <2> QED BY <2>1, <1>7
<1>12. ASSUME NEW c \in Conns, FinishHandler(c)
       PROVE  HttpType'
    <2>1. /\ UNCHANGED <<main, closing, effects, acceptor>> /\ permits' = permits + 1
          /\ conn' = [conn EXCEPT ![c].at = "gone"]
        BY <1>12 DEF FinishHandler
    <2>2. permits' \in Nat /\ acceptor' \in Conns \cup {None}
        BY <2>1, <1>0 DEF HttpType
    <2> QED BY <2>1, <2>2, <1>5
<1>13. "shutting_down" \in Outcomes
    BY DEF Outcomes
<1>14. ASSUME NEW c \in Conns, TakeConnection(c)
       PROVE  HttpType'
    BY <1>14, <1>5, <1>6, <1>13, <1>0 DEF TakeConnection, HttpType
<1>15. CASE StartHandler
    <2>1. acceptor \in Conns /\ acceptor' = None /\ UNCHANGED <<main, closing, effects>>
        BY <1>15, <1>0 DEF StartHandler, HttpType
    <2>2. permits' \in Nat
        BY <1>15, <1>0 DEF StartHandler
    <2> QED BY <1>15, <2>1, <2>2, <1>5, <1>6, <1>13 DEF StartHandler
<1> QED
    BY <1>1, <1>2, <1>3, <1>4, <1>8, <1>9, <1>10, <1>11, <1>12, <1>14, <1>15
    DEF Next, OwnerThread, vars, OpenStores, FailToOpen, Announce, EnterLoop, CreateTask,
        StepCancelled, Deliver, StartSettle, GraceEnds, DriveSettled, FinishSettle, StopLoop,
        DriveEnds, DriveCancelled

\* Every step keeps the types.
LEMMA TypeStep ==
    ASSUME IInv, [Next]_vars
    PROVE  TypeOK'
<1>1. ThreadType' /\ LoopType' /\ HttpType' /\ PermitInv'
    BY ThreadTypeStep, LoopTypeStep, HttpTypeStep, PermitStep DEF IInv, TypeOK, ThreadType
<1>2. handlers' \in 0 .. Cardinality(Conns)
    <2>1. Busy' \in SUBSET Conns /\ IsFiniteSet(Conns)
        BY ServerAssumption DEF Busy
    <2>2. IsFiniteSet(Busy') /\ Cardinality(Busy') <= Cardinality(Conns)
        BY <2>1, FS_Subset
    <2>3. Cardinality(Busy') \in Nat /\ Cardinality(Conns) \in Nat
        BY <2>1, <2>2, FS_CardinalityType
    <2> QED BY <1>1, <2>2, <2>3 DEF PermitInv
<1>3. permits' \in Nat
    BY <1>1 DEF HttpType
<1> QED BY <1>1, <1>2, <1>3, ServerAssumption
        DEF TypeOK, ThreadType, LoopType, HttpType, PermitInv
-----------------------------------------------------------------------------
\* The invariant and what follows from it.

\* A server that has not started has no call.
LEMMA InitInv == Init => IInv
<1> SUFFICES ASSUME Init PROVE IInv
    OBVIOUS
<1>1. PICK kinds \in Requests :
          conn = [c \in Conns |->
                     IF c \in DOMAIN kinds
                     THEN [at |-> "absent", kind |-> kinds[c], answer |-> None]
                     ELSE [at |-> "gone", kind |-> "read", answer |-> None]]
    BY DEF Init
<1>2. \A c \in DOMAIN kinds : kinds[c] \in Kinds
    BY ServerAssumption
<1>3. \A c \in Conns : conn[c] \in Handler /\ conn[c].at \in {"absent", "gone"}
                       /\ conn[c].answer = None
    BY <1>1, <1>2 DEF Handler, Kinds
<1>4. conn \in [Conns -> Handler]
    BY <1>1, <1>3
<1>5. /\ task \in [Conns -> {"none"}] /\ future \in [Conns -> {"none"}]
      /\ ready = <<>> /\ gate = None /\ active = None /\ None \notin Conns
    BY ServerAssumption DEF Init
<1>6. Cardinality(Conns) \in Nat
    BY ServerAssumption, FS_CardinalityType
<1>7. TypeOK
    <2>1. ready \in Seq(Callbacks)
        BY <1>5
    <2>2. /\ task \in [Conns -> {"none", "queued", "doomed", "awaiting", "cancelling"}
                                \cup Outcomes]
          /\ future \in [Conns -> {"none", "pending", "abandoned"} \cup Outcomes]
        BY <1>5
    <2>3. permits \in 0 .. MaxConnections /\ handlers \in 0 .. Cardinality(Conns)
        BY <1>6, ServerAssumption DEF Init
    <2>4. /\ pc = "starting" /\ state = "OPEN" /\ stopAsked = FALSE /\ running = FALSE
          /\ started = FALSE /\ failed = FALSE /\ settle = "none" /\ shutdown = "none"
          /\ main = "start" /\ closing = FALSE /\ acceptor = None /\ effects = {}
        BY DEF Init
    <2> QED BY <1>4, <1>5, <2>1, <2>2, <2>3, <2>4 DEF TypeOK
<1>8. GateIsTheActiveDrive
    BY <1>5 DEF GateIsTheActiveDrive
<1>9. QueueInv
    BY <1>5 DEF QueueInv
<1>10. CallInv
    BY <1>3, <1>5 DEF CallInv, Outcomes
<1>11. EffectInv
    BY <1>3, NoneAssumption DEF EffectInv, Retryable, Outcomes, Init
<1>12. Unfinished = {}
    BY <1>5 DEF Unfinished
<1>13. SettleInv
    BY <1>5, <1>12 DEF SettleInv, Init
<1>14. LifeInv
    BY <1>12 DEF LifeInv, Init
<1>15. PermitInv
    <2>1. Busy = {}
        BY <1>3 DEF Busy
    <2>2. Cardinality(Busy) = 0
        BY <2>1, FS_EmptySet
    <2> QED BY <2>2, ServerAssumption DEF PermitInv, Init
<1> QED BY <1>7, <1>8, <1>9, <1>10, <1>11, <1>13, <1>14, <1>15 DEF IInv

\* The invariant of the owner, its loop and its handlers is kept by every step
\* of every thread.
THEOREM Inductive == Spec => []IInv
<1>1. Init => IInv
    BY InitInv
<1>2. IInv /\ [Next]_vars => IInv'
    <2> SUFFICES ASSUME IInv, [Next]_vars PROVE IInv'
        OBVIOUS
    <2> QED BY TypeStep, GateStep, QueueStep, CallStep, EffectStep, SettleStep, LifeStep,
               PermitStep DEF IInv
<1> QED BY <1>1, <1>2, PTL DEF Spec

\* _exclusive: the gate is held by exactly the drive that awaits under it, and
\* _active_drive is that drive, whatever ends, refuses or cancels it.
THEOREM OneMutationAtATime == Spec => []GateIsTheActiveDrive
<1>1. IInv => GateIsTheActiveDrive
    BY DEF IInv
<1> QED BY <1>1, Inductive, PTL

\* A put or a decision whose client was told to repeat it later has not
\* happened, and will not.
THEOREM RepeatIsSafe == Spec => []RetryableMeansUndone
<1>1. IInv => RetryableMeansUndone
    BY DEF IInv, EffectInv, RetryableMeansUndone
<1> QED BY <1>1, Inductive, PTL

\* server_close returns without an error only when the owner is closed, every
\* task is over, every future has its outcome and every permit is back.
THEOREM CloseLeavesNothing == Spec => []CloseIsComplete
<1>1. ASSUME IInv, main = "closed"
      PROVE  /\ state = "CLOSED" /\ Unfinished = {}
             /\ \A c \in Conns : future[c] # "pending"
             /\ permits = MaxConnections
    <2>1. TypeOK /\ CallInv /\ LifeInv /\ PermitInv
        BY <1>1 DEF IInv
    <2>2. state = "CLOSED" /\ Unfinished = {}
        BY <1>1, <2>1 DEF LifeInv
    <2>3. handlers = 0 /\ acceptor = None /\ handlers = Cardinality(Busy)
        BY <1>1, <2>1 DEF PermitInv
    <2>4. Busy = {}
        BY <2>3, BusyIsFinite, FS_EmptySet
    <2>5. \A c \in Conns : future[c] # "pending"
        BY <2>1, <2>4 DEF CallInv, Busy
    <2>6. permits = MaxConnections
        <3>1. permits \in Nat /\ MaxConnections \in Nat
            BY <2>1, ServerAssumption DEF TypeOK
        <3> QED BY <2>1, <2>3, <3>1 DEF PermitInv
    <2> QED BY <2>2, <2>5, <2>6
<1>2. IInv => CloseIsComplete
    BY <1>1 DEF CloseIsComplete
<1> QED BY <1>2, Inductive, PTL
=============================================================================
