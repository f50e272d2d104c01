------------------------- MODULE WorkflowProjection -------------------------
(***************************************************************************)
(* The public view of a workflow run: run_projection of sasori-core, the   *)
(* step statuses sasori_flow derives beside it, and the validator that     *)
(* refuses the composed view when the two disagree (projection.py).        *)
(***************************************************************************)
EXTENDS WorkflowRun

\* run_projection: what the core says of the run.
CoreState ==
    CASE snap.status \in Terminal -> snap.status
      [] snap.status \in {"awaiting_approval", "paused_recovery",
                          "effect_unknown", "awaiting_resume"} -> "paused"
      [] OTHER -> "running"

\* The first call of the step without a result.
PendingCalls ==
    {fp \in Fingerprint : fp[1] = snap.step /\ FirstOpen(snap.step, fp[2])}

Pending ==
    IF snap.status = "cancelled"
    THEN {fp \in PendingCalls : calls[fp].status = "effect_unknown"}
    ELSE IF CoreState = "paused" THEN PendingCalls ELSE {}

PauseReason ==
    CASE snap.status = "awaiting_approval" -> "approval_required"
      [] snap.status = "paused_recovery" -> "retryable_idempotent"
      [] snap.status = "effect_unknown" -> "effect_unknown"
      [] snap.status = "awaiting_resume" -> "resume_required"
      [] snap.status = "cancelled" /\ Pending # {} -> "effect_unknown"
      [] OTHER -> "none"

\* _CALL_STATUSES.
Shown ==
    [s \in CallStatus \ {"absent", "result"} |->
        CASE s \in {"pending", "requested"} -> "requested"
          [] s = "awaiting_approval" -> "approval_required"
          [] s \in {"approved", "denied"} -> "resume_required"
          [] s = "dispatching" -> "running"
          [] s = "effect_unknown" -> "effect_unknown"]

\* _step_status.
StepStatus_AnyState(k) ==
    LET c == calls[<<k, 1>>] IN
    IF ~Present(<<k, 1>>) THEN "pending"
    ELSE IF c.status = "result"
    THEN IF Failed(snap.history, k) THEN "failed" ELSE "completed"
    ELSE IF c.status = "effect_unknown" THEN "effect_unknown"
    ELSE IF k = snap.step /\ PauseReason # "none" THEN PauseReason
    ELSE Shown[c.status]
StepStatus(k) ==
    LET c == calls[<<k, 1>>]
        terminal == snap.status \in Terminal
    IN  IF ~Present(<<k, 1>>) THEN IF terminal THEN "stopped" ELSE "pending"
        ELSE IF c.status = "result"
        THEN IF Failed(snap.history, k) THEN "failed" ELSE "completed"
        ELSE IF c.status = "effect_unknown" THEN "effect_unknown"
        ELSE IF terminal THEN "stopped"
        ELSE IF k = snap.step /\ PauseReason # "none" THEN PauseReason
        ELSE Shown[c.status]

\* The steps before position p completed, those after it are in status rest.
Around(p, here, rest) ==
    /\ \A k \in 1 .. N : k < p => StepStatus(k) = "completed"
    /\ p \in 1 .. N => StepStatus(p) \in here
    /\ \A k \in 1 .. N : k > p => StepStatus(k) = rest

PendingMatches(p) == \E fp \in Pending : fp = <<p, 1>>

\* _validate_workflow_projection: which statuses a step of an effect may have.
StepsAllowed ==
    \A k \in 1 .. N :
        LET effect == calls[<<k, 1>>].effect IN
        /\ StepStatus(k) \in {"approval_required", "resume_required", "effect_unknown"}
              => effect # "read_only"
        /\ StepStatus(k) = "retryable_idempotent" => effect = "idempotent"

\* _validate_workflow_semantics, one disjunct per core state it accepts.
Consistent ==
    LET p == snap.step IN
    \/ /\ CoreState = "completed" /\ Pending = {} /\ p = N + 1
       /\ Around(p, {}, "completed")
    \/ /\ CoreState = "running" /\ snap.status = "ready_model" /\ p <= N
       /\ Around(p, {"completed"}, "pending")
    \/ /\ CoreState = "running" /\ snap.status = "processing_reply" /\ p \in 1 .. N
       /\ Around(p, {"requested", "running"}, "pending")
    \/ /\ CoreState = "running" /\ snap.status = "pending_final" /\ p = N + 1
       /\ Around(p, {}, "completed")
    \/ /\ CoreState = "paused" /\ p \in 1 .. N
       /\ Around(p, {PauseReason}, "pending")
       /\ PendingMatches(p)
    \/ /\ CoreState = "failed" /\ p \in 0 .. N + 1
       /\ Around(p, {"completed", "failed"}, "stopped")
    \/ /\ CoreState = "cancelled" /\ PauseReason = "effect_unknown" /\ p \in 1 .. N
       /\ Around(p, {"effect_unknown"}, "stopped")
       /\ PendingMatches(p)
    \/ /\ CoreState = "cancelled" /\ PauseReason = "none" /\ p \in 0 .. N + 1
       /\ Around(p, {"completed", "failed", "stopped"}, "stopped")

\* compose_run_projection answers, instead of projection_integrity_failed.
Served(h) == AssertRun(h) /\ StepsAllowed /\ Consistent
-----------------------------------------------------------------------------
\* Properties.

\* Where a run can stay for long, ended or waiting for an operator or a resume
\* with its call still open, its status can be read: the statuses of the steps
\* and the state of the core never contradict each other there.
Settled ==
    \/ snap.status \in Terminal
    \/ CoreState = "paused" /\ PendingCalls # {}
SettledRunIsProjected ==
    \A h \in Harnesses : Settled /\ AssertRun(h) => Served(h)

\* What docs/ADR-0014 says of HTTP: approvals and effect recovery answer with
\* the composed projection of the run they have just changed.
ResolutionIsProjected ==
    [][ \A h \in Harnesses : Resolve(h) => Served(h)' ]_vars
=============================================================================
