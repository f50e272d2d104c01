---------------------------- MODULE WorkflowRun ----------------------------
(***************************************************************************)
(* A compiled workflow driven by the core loop: sasori_flow's              *)
(* WorkflowModel and WorkflowHarness over Harness.                         *)
(*                                                                         *)
(* The model is a function of the history: it replays the accepted calls   *)
(* and their results and asks for the next step, fails the run after a     *)
(* step that failed, or gives the final answer.  Whoever drives the run,   *)
(* answers an approval or settles an effect first has it checked against   *)
(* the replay (_assert_run), which refuses a run that does not match it.   *)
(*                                                                         *)
(* Harness is used with MaxSteps = Len(Steps) + 1, one Harness object and  *)
(* catalogs that give every step its wrapper tool.                         *)
(***************************************************************************)
EXTENDS Harness

CONSTANTS
    Steps,       \* the wrapper tool of each step, in the order of the spec
    StepIds      \* the call id derived for each step

VARIABLE missing \* steps bound to an optional input the run was not given

N == Len(Steps)

\* The one call the model asks for at step k.
Expected(k) == [id |-> StepIds[k], name |-> Steps[k], wellformed |-> TRUE]

\* A workflow is compiled for one Harness against tools that have the effect and
\* the revision its steps name; a later deployment may change keys and bodies.
ASSUME WorkflowAssumption ==
    /\ Steps \in Seq(Tools) /\ StepIds \in [1 .. N -> Ids]
    /\ \A k \in 1 .. N : Expected(k) \in Requests
    /\ MaxSteps = N + 1
    /\ \E h \in Harnesses : Harnesses = {h}
    /\ \A cat \in Catalogs, k \in 1 .. N :
          /\ Steps[k] \in DOMAIN cat
          /\ \A other \in Catalogs :
                /\ other[Steps[k]].effect = cat[Steps[k]].effect
                /\ other[Steps[k]].revision = cat[Steps[k]].revision

\* What the Harness knows of the wrapper of step k; the reserved revision of a
\* read-only tool is "unknown" here.
Wrapper(h, k) == catalog[h][Steps[k]]
-----------------------------------------------------------------------------
\* Replay of a history.

Accepted(hist, k) == Len(hist) >= 2 * k - 1
Answered(hist, k) == Len(hist) >= 2 * k
Failed(hist, k)   == Answered(hist, k) /\ hist[2 * k].error

\* The steps the history has accepted, the last of which may lack its result.
Replayed(hist) ==
    IF Len(hist) > 2 * N THEN N ELSE (Len(hist) + 1) \div 2

HasPending(hist) == Replayed(hist) > 0 /\ ~Answered(hist, Replayed(hist))
HasFailure(hist) == Replayed(hist) > 0 /\ Failed(hist, Replayed(hist))
HasFinal(hist)   == Len(hist) = 2 * N + 1

\* The step the replay goes on to, whose arguments it resolves.
Turns(hist) == ~HasPending(hist) /\ ~HasFailure(hist) /\ Replayed(hist) < N

\* resolve_arguments for every step the replay visits.
Resolves(hist) == Turns(hist) => Replayed(hist) + 1 \notin missing

\* Calls and results alternate in the order of the steps, nothing follows a
\* failed step but its failure, and the final answer comes last.
Replays(hist) ==
    /\ Len(hist) <= 2 * N + 1
    /\ \A i \in DOMAIN hist :
          LET k == (i + 1) \div 2 IN
          IF i % 2 = 1
          THEN /\ hist[i].role = "assistant" /\ hist[i].step = k
               /\ k > 1 => ~Failed(hist, k - 1)
          ELSE hist[i].role = "tool" /\ hist[i].step = k /\ hist[i].ordinal = 1
    /\ Resolves(hist)

\* complete(): the reply to a history, or none when it raises.
CanReply_AfterFailure(hist) ==
    Replays(hist) /\ ~HasPending(hist) /\ ~HasFinal(hist)
CanReply(hist) ==
    Replays(hist) /\ ~HasPending(hist) /\ ~HasFailure(hist) /\ ~HasFinal(hist)

ReplyTo(hist) ==
    IF Replayed(hist) < N THEN <<Expected(Replayed(hist) + 1)>> ELSE <<>>
-----------------------------------------------------------------------------
\* _assert_run.

ExpectedStep_NoFinal(hist) == Replayed(hist)
ExpectedStep(hist) == Replayed(hist) + IF HasFinal(hist) THEN 1 ELSE 0

CallsOf(k) == {o \in 1 .. MaxCalls : Present(<<k, o>>)}

\* The durable call of step k is the one the replay expects, under the
\* contract the wrapper has now.
CallBound(h, k) ==
    LET c == calls[<<k, 1>>]
        w == Wrapper(h, k)
    IN  /\ c.id = StepIds[k] /\ c.name = Steps[k] /\ c.wellformed
        /\ c.effect = w.effect /\ c.revision = w.revision
        /\ c.key = IF w.effect = "idempotent" THEN w.key ELSE NoKey

AssertRun(h) ==
    LET hist == snap.history IN
    /\ Replays(hist)
    /\ snap.step = ExpectedStep(hist)
    /\ \A k \in 1 .. N :
          IF k > Replayed(hist) THEN CallsOf(k) = {}
          ELSE /\ CallsOf(k) = {1}
               /\ CallBound(h, k)
               /\ Answered(hist, k) <=> calls[<<k, 1>>].status = "result"
    /\ snap.status = "completed" => HasFinal(hist)
-----------------------------------------------------------------------------
\* The steps of Harness, as a workflow takes them.

\* WorkflowHarness.resume.
ResumeRun(h) == AssertRun(h) /\ Resume(h)

\* The model adapter does not await: it answers or raises on the messages of
\* the snapshot it was called with.
ModelReplies(h) ==
    LET hist == drive[h].held.history IN
    IF CanReply(hist)
    THEN AcceptReply(h, ReplyTo(hist)) \/ FailDuplicate(h, ReplyTo(hist))
    ELSE FailModel(h)

RunProgress(h) ==
    \/ LeaveLoop(h) \/ CommitFinal(h) \/ FinishReply(h) \/ ExceedMaxSteps(h)
    \/ StartModel(h)
    \/ drive[h].at = "model" /\ ModelReplies(h)
    \/ \E o \in 1 .. MaxCalls :
          \/ RequestCall(h, o) \/ RefuseCall(h, o) \/ MarkEffectUnknown(h, o)
          \/ RequestApproval(h, o) \/ AwaitDecision(h, o) \/ DispatchCall(h, o)
    \/ HandlerEnds(h, TRUE) \/ CommitResult(h) \/ PauseUnknown(h)
    \/ Rejected(h) \/ CommitCancelled(h)

\* WorkflowHarness.resolve_approval and resolve_effect.  A recorded result is
\* accepted only as the step's own result envelope.
Resolve(h) ==
    /\ AssertRun(h)
    /\ \E fp \in Fingerprint :
          \/ \E answer \in BOOLEAN :
                ResolveApproval(fp, answer) \/ SettleEffect(fp, answer)
          \/ RetryEffect(fp)

RunInit == Init /\ missing \in SUBSET (1 .. N)

RunNext ==
    /\ \E h \in Harnesses :
          Start(h) \/ ResumeRun(h) \/ RunProgress(h) \/ Fault(h) \/ Resolve(h)
    /\ UNCHANGED missing

RunSpec == RunInit /\ [][RunNext]_<<vars, missing>>
-----------------------------------------------------------------------------
\* Properties.

\* A step is dispatched only after every earlier step has succeeded, and none
\* after one that failed, was refused or was given up by an operator.
StopsAtFirstFailure ==
    \A k \in 1 .. N, j \in 1 .. N :
        /\ dispatches[<<k, 1>>] > 0 /\ j < k
        => \E i \in DOMAIN snap.history :
              /\ snap.history[i].role = "tool" /\ snap.history[i].step = j
              /\ ~snap.history[i].error

\* Whatever the loop, faults and operators leave in the store, _assert_run
\* accepts it, so that no run becomes one that nobody can resume, settle or
\* look at; unless the idempotency key of a wrapper changed, or the next step
\* is bound to an input the run does not have.
RunStaysLoadable ==
    \A h \in Harnesses :
        /\ snap.status # "absent"
        /\ \A k \in 1 .. N : Present(<<k, 1>>) => calls[<<k, 1>>].key = Wrapper(h, k).key
        /\ Resolves(snap.history)
        => AssertRun(h)
=============================================================================
