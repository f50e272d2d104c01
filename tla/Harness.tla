------------------------------ MODULE Harness ------------------------------
(***************************************************************************)
(* The durable single-agent loop of sasori-core: Harness.run, resume,      *)
(* resolve_approval and resolve_effect over the run store they commit to,  *)
(* for one run id.                                                         *)
(*                                                                         *)
(* Several Harness objects may share the store.  They live on one event    *)
(* loop, so a drive is interrupted only where it awaits (the model, a tool *)
(* handler, the drain of tool progress) and at its commits, where          *)
(* observers run and where the process may die.  Every commit is one       *)
(* compare-and-swap on the revision of the snapshot the drive holds.       *)
(*                                                                         *)
(* A definition Name_Variant is Name with the mistake its suffix names; it *)
(* is used by no specification and shows which property notices it.        *)
(***************************************************************************)
EXTENDS Integers, Sequences

CONSTANTS
    Harnesses,       \* Harness objects over one store
    Tools,           \* tool names a model may ask for
    Revisions,       \* tool_revision values
    Keys,            \* business idempotency keys
    NoKey,           \* an idempotency_key of None
    Ids,             \* valid provider call ids
    NoId,            \* an invalid provider call id, stored as None
    Catalogs,        \* tool sets a Harness may be constructed with
    Requests,        \* tool calls a model reply may contain
    ReplyRowsUnique, \* TRUE: SQLiteStore, FALSE: EphemeralRunStore
    MaxSteps,        \* Harness.max_steps
    MaxCalls,        \* bound: tool calls in one reply
    MaxFaults,       \* bound: crashes, cancellations, failures, redeployments
    MaxRetries,      \* bound: operator retries of one call
    MaxRevision      \* bound: no resume starts at or above this revision

Effects == {"read_only", "idempotent", "side_effecting"}

\* What a Harness knows of a tool: its declared effect and revision, the key
\* idempotency_key(arguments) returns, and whether the handler's signature
\* binds the arguments.
Contract == [effect : Effects, revision : Revisions,
             key : Keys \cup {NoKey}, binds : BOOLEAN]

Request == [id : Ids \cup {NoId}, name : Tools, wellformed : BOOLEAN]

ASSUME BoundsAssumption ==
    /\ MaxSteps \in Nat \ {0} /\ MaxCalls \in Nat \ {0}
    /\ MaxFaults \in Nat /\ MaxRetries \in Nat /\ MaxRevision \in Nat

ASSUME CatalogsAssumption ==
    \A cat \in Catalogs : DOMAIN cat \subseteq Tools /\ cat \in [DOMAIN cat -> Contract]

ASSUME ValuesAssumption ==
    /\ Requests \subseteq Request
    /\ Tools # {} /\ NoKey \notin Keys /\ NoId \notin Ids
    /\ "unknown" \in Revisions
    /\ ReplyRowsUnique \in BOOLEAN

\* The fingerprint of a call: it binds the accepted step and the ordinal.
Fingerprint == (1 .. MaxSteps) \X (1 .. MaxCalls)

RunStatus == {"absent", "ready_model", "processing_reply", "awaiting_approval",
              "awaiting_resume", "paused_recovery", "effect_unknown",
              "pending_final", "completed", "failed", "cancelled"}
Terminal == {"completed", "failed", "cancelled"}
Working_NotResumed == {"processing_reply", "paused_recovery"}
Working  == {"processing_reply", "paused_recovery", "awaiting_resume"}

CallStatus == {"absent", "pending", "requested", "awaiting_approval", "approved",
               "denied", "dispatching", "effect_unknown", "result"}

Decision == {"absent", "undecided", "approved", "denied"}

CallRecord == [id : Ids \cup {NoId}, name : Tools, wellformed : BOOLEAN,
               effect : Effects, revision : Revisions, key : Keys \cup {NoKey},
               status : CallStatus]

Message == [role : {"assistant", "tool"}, step : 1 .. MaxSteps,
            ordinal : 0 .. MaxCalls, error : BOOLEAN]

Snapshot == [revision : Nat, status : RunStatus, step : 0 .. MaxSteps,
             history : Seq(Message)]

\* Where a drive is: outside, at the top of the loop, between the two commits
\* of a newly requested call, in one of its three awaits, or unwinding a
\* cancellation.
Location == {"idle", "loop", "requested", "model", "handler", "drain", "cancelling"}
Running  == {"loop", "requested", "cancelling"}

Drive == [at : Location, held : Snapshot, ordinal : 0 .. MaxCalls,
          returned : BOOLEAN]

VARIABLES
    snap,        \* the runs row of the run
    calls,       \* the tool_calls rows, by fingerprint
    approvals,   \* the approvals rows, by fingerprint
    terminals,   \* the run.completed, run.failed and run.cancelled events logged
    drive,       \* what each Harness is doing with the run
    catalog,     \* the tools each Harness was constructed with
    dispatches,  \* history: dispatch commits of each call
    retries,     \* history: retries an operator accepted for each call
    faults       \* faults so far

store   == <<snap, calls, approvals, terminals>>
history == <<dispatches, retries, faults>>
vars    == <<snap, calls, approvals, terminals, drive, catalog,
             dispatches, retries, faults>>

NoRun == [revision |-> 0, status |-> "absent", step |-> 0, history |-> <<>>]
NoDrive == [at |-> "idle", held |-> NoRun, ordinal |-> 0, returned |-> FALSE]
AtLoop == [NoDrive EXCEPT !.at = "loop"]

\* A row that does not exist, whatever its columns would be.
NoCall == [id |-> NoId, name |-> CHOOSE n \in Tools : TRUE, wellformed |-> FALSE,
           effect |-> "read_only", revision |-> "unknown", key |-> NoKey,
           status |-> "absent"]

Init ==
    /\ snap = NoRun
    /\ calls = [fp \in Fingerprint |-> NoCall]
    /\ approvals = [fp \in Fingerprint |-> "absent"]
    /\ terminals = <<>>
    /\ drive = [h \in Harnesses |-> NoDrive]
    /\ catalog \in [Harnesses -> Catalogs]
    /\ dispatches = [fp \in Fingerprint |-> 0]
    /\ retries = [fp \in Fingerprint |-> 0]
    /\ faults = 0
-----------------------------------------------------------------------------
\* The store's primitives.

\* _commit's compare-and-swap: current is still the stored revision.
Fresh_Unchecked(current) == current.revision <= snap.revision
Fresh(current) == current.revision = snap.revision

\* Store updated as the next revision (and generation: both count commits).
Commit(updated) == snap' = [updated EXCEPT !.revision = snap.revision + 1]

SetCall(fp, status) == calls' = [calls EXCEPT ![fp].status = status]

Log(event) == terminals' = Append(terminals, event)

Present(fp) == calls[fp].status # "absent"

\* The call the loop turns to: the first of the step that has no result.
FirstOpen_AnyOrder(step, o) ==
    step >= 1 /\ calls[<<step, o>>].status \notin {"absent", "result"}
FirstOpen_Answered(step, o) ==
    /\ step >= 1
    /\ calls[<<step, o>>].status # "absent"
    /\ \A p \in 1 .. o - 1 : calls[<<step, p>>].status = "result"
FirstOpen(step, o) ==
    /\ step >= 1
    /\ calls[<<step, o>>].status \notin {"absent", "result"}
    /\ \A p \in 1 .. o - 1 : calls[<<step, p>>].status = "result"

NoneOpen_NonePending(step) ==
    \A o \in 1 .. MaxCalls :
        step >= 1 => calls[<<step, o>>].status \in {"absent", "pending", "result"}
NoneOpen(step) ==
    \A o \in 1 .. MaxCalls :
        step >= 1 => calls[<<step, o>>].status \in {"absent", "result"}

Answer(fp, failed) ==
    [role |-> "tool", step |-> fp[1], ordinal |-> fp[2], error |-> failed]

\* A snapshot that goes on in another status with one more message.
Extend(s, status, message) ==
    [s EXCEPT !.status = status, !.history = Append(@, message)]

-----------------------------------------------------------------------------
\* Driving the loop.

\* Only one drive runs at a time; the others are suspended in an await.
Turn(h) == \A g \in Harnesses \ {h} : drive[g].at \notin Running

Goto(h, d) == drive' = [drive EXCEPT ![h] = d]
Suspend(at, held, o) == [NoDrive EXCEPT !.at = at, !.held = held, !.ordinal = o]
Leave(h) == Goto(h, NoDrive)

\* run(): the run is created and its first commit logged.  A second run() of
\* the id raises RunAlreadyExists and changes nothing.
Start(h) ==
    /\ drive[h].at = "idle" /\ Turn(h)
    /\ snap.status = "absent"
    /\ Commit([NoRun EXCEPT !.status = "ready_model"])
    /\ Goto(h, AtLoop)
    /\ UNCHANGED <<calls, approvals, terminals, catalog, history>>

\* resume(): admitted when this Harness has no drive of the run (RunBusy
\* otherwise).  A completed, cancelled or effect_unknown run is reported
\* without entering the loop.
Resume(h) ==
    /\ drive[h].at = "idle" /\ Turn(h)
    /\ snap.status \notin {"absent", "completed", "cancelled", "effect_unknown"}
    /\ snap.revision < MaxRevision
    /\ Goto(h, AtLoop)
    /\ UNCHANGED <<store, catalog, history>>

\* The loop reports a run it cannot advance.
LeaveLoop(h) ==
    /\ drive[h].at = "loop"
    /\ snap.status \in Terminal \cup {"effect_unknown", "awaiting_approval"}
    /\ Leave(h)
    /\ UNCHANGED <<store, catalog, history>>

CommitFinal(h) ==
    /\ drive[h].at = "loop"
    /\ snap.status = "pending_final"
    /\ Commit([snap EXCEPT !.status = "completed"])
    /\ Log("run.completed")
    /\ Leave(h)
    /\ UNCHANGED <<calls, approvals, catalog, history>>

\* Every call of the accepted reply has its result: back to the model.
FinishReply(h) ==
    /\ drive[h].at = "loop"
    /\ snap.status \in Working
    /\ NoneOpen(snap.step)
    /\ Commit([snap EXCEPT !.status = "ready_model"])
    /\ UNCHANGED <<calls, approvals, terminals, drive, catalog, history>>

ExceedMaxSteps(h) ==
    /\ drive[h].at = "loop"
    /\ snap.status = "ready_model" /\ snap.step >= MaxSteps
    /\ Commit([snap EXCEPT !.status = "failed"])
    /\ Log("run.failed")
    /\ Leave(h)
    /\ UNCHANGED <<calls, approvals, catalog, history>>

-----------------------------------------------------------------------------
\* The model call.

\* model.started is committed, and the drive awaits the reply holding that
\* snapshot.
StartModel_OneTooMany(h) ==
    /\ drive[h].at = "loop"
    /\ snap.status = "ready_model" /\ snap.step <= MaxSteps
    /\ Commit(snap)
    /\ Goto(h, Suspend("model", snap', 0))
    /\ UNCHANGED <<calls, approvals, terminals, catalog, history>>
StartModel(h) ==
    /\ drive[h].at = "loop"
    /\ snap.status = "ready_model" /\ snap.step < MaxSteps
    /\ Commit(snap)
    /\ Goto(h, Suspend("model", snap', 0))
    /\ UNCHANGED <<calls, approvals, terminals, catalog, history>>

Replies == UNION {[1 .. n -> Requests] : n \in 0 .. MaxCalls}

RepeatsItself(reply) ==
    \E i, j \in DOMAIN reply :
        i # j /\ reply[i].id # NoId /\ reply[i].id = reply[j].id

\* accept_reply refuses ids the run already has.  In SQLite the row of an
\* already accepted step violates the same kind of constraint.
Duplicates(held, reply) ==
    \/ \E i \in DOMAIN reply, fp \in Fingerprint :
          Present(fp) /\ reply[i].id # NoId /\ calls[fp].id = reply[i].id
    \/ ReplyRowsUnique /\ snap.step > held.step

\* The effect metadata of a call is fixed when the reply is accepted, from the
\* tools this Harness has.
NewCall(h, r) ==
    LET known == r.name \in DOMAIN catalog[h]
        tool  == catalog[h][r.name]
    IN  [id |-> r.id, name |-> r.name, wellformed |-> r.wellformed,
         effect |-> IF known THEN tool.effect ELSE "side_effecting",
         revision |-> IF known THEN tool.revision ELSE "unknown",
         key |-> IF known /\ tool.effect = "idempotent" /\ r.wellformed
                 THEN tool.key ELSE NoKey,
         status |-> "pending"]

AcceptReply(h, reply) ==
    LET held == drive[h].held
        step == held.step + 1
    IN  /\ drive[h].at = "model" /\ Turn(h)
        /\ ~RepeatsItself(reply) /\ ~Duplicates(held, reply)
        /\ Fresh(held)
        /\ Commit(Extend([held EXCEPT !.step = step],
                         IF reply = <<>> THEN "pending_final" ELSE "processing_reply",
                         [role |-> "assistant", step |-> step, ordinal |-> 0,
                          error |-> FALSE]))
        /\ calls' = [fp \in Fingerprint |->
              IF fp[1] = step /\ fp[2] <= Len(reply)
              THEN NewCall(h, reply[fp[2]]) ELSE calls[fp]]
        /\ Goto(h, AtLoop)
        /\ UNCHANGED <<approvals, terminals, catalog, history>>

\* _fail_model on the held snapshot: a timeout, an exception, an invalid
\* reply, or a reply that repeats one of its own ids.
FailModel(h) ==
    /\ drive[h].at = "model" /\ Turn(h)
    /\ Fresh(drive[h].held)
    /\ Commit([drive[h].held EXCEPT !.status = "failed"])
    /\ Log("run.failed")
    /\ Leave(h)
    /\ UNCHANGED <<calls, approvals, catalog, history>>

\* A DuplicateCallIdError of the store: _fail_model on the latest snapshot.
FailDuplicate(h, reply) ==
    /\ drive[h].at = "model" /\ Turn(h)
    /\ ~RepeatsItself(reply) /\ Duplicates(drive[h].held, reply)
    /\ Commit([snap EXCEPT !.status = "failed"])
    /\ Log("run.failed")
    /\ Leave(h)
    /\ UNCHANGED <<calls, approvals, catalog, history>>

-----------------------------------------------------------------------------
\* Processing one call.

\* The call is pending: tool.requested is committed and the drive goes on with
\* the snapshot of that commit.
RequestCall(h, o) ==
    /\ drive[h].at = "loop" /\ snap.status \in Working
    /\ FirstOpen(snap.step, o) /\ calls[<<snap.step, o>>].status = "pending"
    /\ Commit(snap)
    /\ SetCall(<<snap.step, o>>, "requested")
    /\ Goto(h, Suspend("requested", snap', o))
    /\ UNCHANGED <<approvals, terminals, catalog, history>>

\* _validate_call, before the tool is looked at.
Malformed(c) == c.id = NoId \/ ~c.wellformed

\* The contract recorded with the call is no longer the tool's.
ContractChanged_AnyRevision(c, tool) ==
    \/ tool.effect # c.effect
    \/ tool.effect = "idempotent" /\ tool.key # c.key
ContractChanged_AnyKey(c, tool) ==
    \/ tool.effect # c.effect
    \/ c.effect # "read_only" /\ tool.revision # c.revision
ContractChanged(c, tool) ==
    \/ tool.effect # c.effect
    \/ c.effect # "read_only" /\ tool.revision # c.revision
    \/ tool.effect = "idempotent" /\ tool.key # c.key

\* store.approval(fingerprint) is None: no row, or a row without decision.
Undecided_MissingRow(fp) == approvals[fp] = "undecided"
Undecided(fp) == approvals[fp] \in {"absent", "undecided"}

\* An earlier drive committed this dispatch and not its outcome.
InDoubt_Never(c) == FALSE
InDoubt(c) == c.status = "dispatching" /\ c.effect = "side_effecting"

\* What _process_call does with a call that is no longer pending: the early
\* returns in their order.
Verdict(h, fp) ==
    LET c       == calls[fp]
        tool    == catalog[h][c.name]
        mutates == c.effect # "read_only"
    IN  IF Malformed(c) \/ c.name \notin DOMAIN catalog[h] THEN "refuse"
        ELSE IF c.effect = "idempotent" /\ c.key = NoKey THEN "refuse"
        ELSE IF ContractChanged(c, tool) THEN "unknown"
        ELSE IF ~tool.binds THEN "refuse"
        ELSE IF mutates /\ Undecided(fp) /\ c.status = "requested" THEN "ask"
        ELSE IF mutates /\ (approvals[fp] = "denied" \/ c.status = "denied") THEN "refuse"
        ELSE IF mutates /\ Undecided(fp) THEN "wait"
        ELSE IF InDoubt(c) THEN "unknown"
        ELSE "dispatch"

\* The drive is processing call o: either it is the first open call and was
\* requested before, or this drive has just requested it.
Processing(h, o) ==
    \/ /\ drive[h].at = "loop" /\ snap.status \in Working
       /\ FirstOpen(snap.step, o) /\ calls[<<snap.step, o>>].status # "pending"
    \/ /\ drive[h].at = "requested" /\ drive[h].ordinal = o
       /\ Fresh(drive[h].held)

\* _record_tool_error: the call's result is an error the model will see.
RefuseCall(h, o) ==
    LET fp == <<snap.step, o>> IN
    /\ Processing(h, o) /\ Verdict(h, fp) = "refuse"
    /\ Commit(Extend(snap, "processing_reply", Answer(fp, TRUE)))
    /\ SetCall(fp, "result")
    /\ Goto(h, AtLoop)
    /\ UNCHANGED <<approvals, terminals, catalog, history>>

\* _mark_effect_unknown.
MarkEffectUnknown_RunOnly(h, o) ==
    /\ Processing(h, o) /\ Verdict(h, <<snap.step, o>>) = "unknown"
    /\ Commit([snap EXCEPT !.status = "effect_unknown"])
    /\ Leave(h)
    /\ UNCHANGED <<calls, approvals, terminals, catalog, history>>
MarkEffectUnknown(h, o) ==
    LET fp == <<snap.step, o>> IN
    /\ Processing(h, o) /\ Verdict(h, fp) = "unknown"
    /\ Commit([snap EXCEPT !.status = "effect_unknown"])
    /\ SetCall(fp, "effect_unknown")
    /\ Leave(h)
    /\ UNCHANGED <<approvals, terminals, catalog, history>>

RequestApproval(h, o) ==
    LET fp == <<snap.step, o>> IN
    /\ Processing(h, o) /\ Verdict(h, fp) = "ask"
    /\ approvals[fp] = "absent"
    /\ Commit([snap EXCEPT !.status = "awaiting_approval"])
    /\ SetCall(fp, "awaiting_approval")
    /\ approvals' = [approvals EXCEPT ![fp] = "undecided"]
    /\ Leave(h)
    /\ UNCHANGED <<terminals, catalog, history>>

\* RunPaused("approval_required") without a commit.
AwaitDecision(h, o) ==
    /\ Processing(h, o) /\ Verdict(h, <<snap.step, o>>) = "wait"
    /\ Leave(h)
    /\ UNCHANGED <<store, catalog, history>>

\* Dispatch intent is committed, then the handler is entered.
DispatchCall(h, o) ==
    LET fp == <<snap.step, o>> IN
    /\ Processing(h, o) /\ Verdict(h, fp) = "dispatch"
    /\ Commit([snap EXCEPT !.status = "processing_reply"])
    /\ SetCall(fp, "dispatching")
    /\ dispatches' = [dispatches EXCEPT ![fp] = @ + 1]
    /\ Goto(h, Suspend("handler", snap', o))
    /\ UNCHANGED <<approvals, terminals, catalog, retries, faults>>

-----------------------------------------------------------------------------
\* The handler and the settlement of its outcome.

HeldCall(h) == <<drive[h].held.step, drive[h].ordinal>>

\* The handler returns, raises or exceeds tool_timeout; either way the drive
\* awaits progress.drain() before it commits what happened.
HandlerEnds(h, returned) ==
    /\ drive[h].at = "handler" /\ Turn(h)
    /\ ~returned => faults < MaxFaults
    /\ faults' = IF returned THEN faults ELSE faults + 1
    /\ Goto(h, [drive[h] EXCEPT !.at = "drain", !.returned = returned])
    /\ UNCHANGED <<store, catalog, dispatches, retries>>

\* Output, or the error of a read-only tool, becomes the call's result.
CommitResult(h) ==
    LET fp == HeldCall(h) IN
    /\ drive[h].at = "drain" /\ Turn(h)
    /\ drive[h].returned \/ calls[fp].effect = "read_only"
    /\ Fresh(drive[h].held)
    /\ Commit(Extend(drive[h].held, drive[h].held.status,
                     Answer(fp, ~drive[h].returned)))
    /\ SetCall(fp, "result")
    /\ Goto(h, AtLoop)
    /\ UNCHANGED <<approvals, terminals, catalog, history>>

\* _pause_unknown: an idempotent call stays dispatching for a later resume, a
\* side effect waits for an operator.
PauseUnknown(h) ==
    LET fp == HeldCall(h) IN
    /\ drive[h].at = "drain" /\ Turn(h)
    /\ ~drive[h].returned /\ calls[fp].effect # "read_only"
    /\ Fresh(drive[h].held)
    /\ IF calls[fp].effect = "idempotent"
       THEN /\ Commit([drive[h].held EXCEPT !.status = "paused_recovery"])
            /\ UNCHANGED calls
       ELSE /\ Commit([drive[h].held EXCEPT !.status = "effect_unknown"])
            /\ SetCall(fp, "effect_unknown")
    /\ Leave(h)
    /\ UNCHANGED <<approvals, terminals, catalog, history>>

\* The commit a drive was about to make fails its compare-and-swap:
\* ConcurrentRunError leaves the drive and the store as it was.
Rejected(h) ==
    /\ drive[h].at \in {"requested", "model", "drain"}
    /\ Turn(h)
    /\ ~Fresh(drive[h].held)
    /\ Leave(h)
    /\ UNCHANGED <<store, catalog, history>>

-----------------------------------------------------------------------------
\* Cancellation, crashes and redeployment.

\* CancelledError reaches the drive where it awaits.  Out of the handler of a
\* tool that is not read-only it first commits that the effect is unknown.
CancelHandler(h) ==
    /\ drive[h].at = "handler" /\ Turn(h)
    /\ calls[HeldCall(h)].effect # "read_only"
    /\ faults < MaxFaults /\ faults' = faults + 1
    /\ IF Fresh(drive[h].held)
       THEN /\ Commit([drive[h].held EXCEPT !.status = "effect_unknown"])
            /\ SetCall(HeldCall(h), "effect_unknown")
            /\ Goto(h, [NoDrive EXCEPT !.at = "cancelling"])
       ELSE Leave(h) /\ UNCHANGED <<snap, calls>>
    /\ UNCHANGED <<approvals, terminals, catalog, dispatches, retries>>

CancelElsewhere(h) ==
    /\ drive[h].at \in {"model", "handler", "drain"} /\ Turn(h)
    /\ drive[h].at = "handler" => calls[HeldCall(h)].effect = "read_only"
    /\ faults < MaxFaults /\ faults' = faults + 1
    /\ Goto(h, [NoDrive EXCEPT !.at = "cancelling"])
    /\ UNCHANGED <<store, catalog, dispatches, retries>>

\* _continue settles the cancellation on the latest snapshot.
CommitCancelled(h) ==
    /\ drive[h].at = "cancelling"
    /\ IF snap.status \in Terminal
       THEN UNCHANGED <<snap, terminals>>
       ELSE /\ Commit([snap EXCEPT !.status = "cancelled"])
            /\ Log("run.cancelled")
    /\ Leave(h)
    /\ UNCHANGED <<calls, approvals, catalog, history>>

\* The drive dies between two commits: its process, or an injected fault.
Crash(h) ==
    /\ drive[h].at # "idle"
    /\ faults < MaxFaults /\ faults' = faults + 1
    /\ Leave(h)
    /\ UNCHANGED <<store, catalog, dispatches, retries>>

\* The run is taken over by a Harness constructed with other tools.
Redeploy(h, cat) ==
    /\ drive[h].at = "idle" /\ cat # catalog[h]
    /\ faults < MaxFaults /\ faults' = faults + 1
    /\ catalog' = [catalog EXCEPT ![h] = cat]
    /\ UNCHANGED <<store, drive, dispatches, retries>>

-----------------------------------------------------------------------------
\* Operators.  Both resolutions load the run and commit without an await; a
\* repeated or conflicting decision changes nothing.

ResolveApproval(fp, approved) ==
    LET decision == IF approved THEN "approved" ELSE "denied" IN
    /\ approvals[fp] = "undecided"
    /\ Commit([snap EXCEPT !.status = "awaiting_resume"])
    /\ approvals' = [approvals EXCEPT ![fp] = decision]
    /\ SetCall(fp, decision)
    /\ UNCHANGED <<terminals, drive, catalog, history>>

Reconcilable(fp) ==
    /\ snap.status \in {"effect_unknown", "cancelled"}
    /\ fp[1] = snap.step
    /\ calls[fp].status = "effect_unknown"

\* resolve_effect(..., "record_result" or "fail").
SettleEffect_Reopening(fp, failed) ==
    /\ Reconcilable(fp)
    /\ Commit(Extend(snap, "awaiting_resume", Answer(fp, failed)))
    /\ SetCall(fp, "result")
    /\ UNCHANGED <<approvals, terminals, drive, catalog, history>>
SettleEffect(fp, failed) ==
    /\ Reconcilable(fp)
    /\ Commit(Extend(snap, IF snap.status = "cancelled" THEN "cancelled"
                           ELSE "awaiting_resume", Answer(fp, failed)))
    /\ SetCall(fp, "result")
    /\ UNCHANGED <<approvals, terminals, drive, catalog, history>>

\* resolve_effect(..., "retry"): the operator accepts the risk of a second
\* dispatch.
RetryEffect(fp) ==
    /\ Reconcilable(fp) /\ snap.status # "cancelled"
    /\ retries[fp] < MaxRetries
    /\ Commit([snap EXCEPT !.status = "awaiting_resume"])
    /\ SetCall(fp, "approved")
    /\ retries' = [retries EXCEPT ![fp] = @ + 1]
    /\ UNCHANGED <<approvals, terminals, drive, catalog, dispatches, faults>>

-----------------------------------------------------------------------------
\* What a drive does next when nothing goes wrong.
Progress(h) ==
    \/ LeaveLoop(h) \/ CommitFinal(h) \/ FinishReply(h) \/ ExceedMaxSteps(h)
    \/ StartModel(h)
    \/ \E reply \in Replies : AcceptReply(h, reply) \/ FailDuplicate(h, reply)
    \/ FailModel(h)
    \/ \E o \in 1 .. MaxCalls :
          \/ RequestCall(h, o) \/ RefuseCall(h, o) \/ MarkEffectUnknown(h, o)
          \/ RequestApproval(h, o) \/ AwaitDecision(h, o) \/ DispatchCall(h, o)
    \/ HandlerEnds(h, TRUE) \/ CommitResult(h) \/ PauseUnknown(h)
    \/ Rejected(h) \/ CommitCancelled(h)

Fault(h) ==
    \/ HandlerEnds(h, FALSE) \/ CancelHandler(h) \/ CancelElsewhere(h)
    \/ Crash(h) \/ \E cat \in Catalogs : Redeploy(h, cat)

Operator ==
    \E fp \in Fingerprint :
        \/ \E answer \in BOOLEAN : ResolveApproval(fp, answer) \/ SettleEffect(fp, answer)
        \/ RetryEffect(fp)

Next ==
    \/ \E h \in Harnesses : Start(h) \/ Resume(h) \/ Progress(h) \/ Fault(h)
    \/ Operator

Spec == Init /\ [][Next]_vars

\* A drive keeps moving because its awaits end (model_timeout, tool_timeout),
\* the host resumes a run that can be resumed, and operators answer.
Fairness ==
    /\ \A h \in Harnesses : WF_vars(Start(h) \/ Resume(h) \/ Progress(h))
    /\ WF_vars(Operator)

FairSpec == Spec /\ Fairness

-----------------------------------------------------------------------------
\* Properties.

TypeOK ==
    /\ snap \in Snapshot
    /\ calls \in [Fingerprint -> CallRecord]
    /\ approvals \in [Fingerprint -> Decision]
    /\ terminals \in Seq({"run.completed", "run.failed", "run.cancelled"})
    /\ drive \in [Harnesses -> Drive]
    /\ catalog \in [Harnesses -> Catalogs]
    /\ dispatches \in [Fingerprint -> Nat]
    /\ retries \in [Fingerprint -> Nat]
    /\ faults \in Nat

\* A side-effecting call is dispatched at most once, plus once for every retry
\* an operator accepted: whatever crashes, times out, is cancelled or resumed,
\* and by whichever Harness, the loop never repeats a side effect by itself.
AtMostOneDispatch ==
    \A fp \in Fingerprint :
        calls[fp].effect = "side_effecting" => dispatches[fp] <= 1 + retries[fp]

\* A call that is not read-only reaches its handler only after its own
\* fingerprint was approved, on every path: recovery, retry, redeployment.
ApprovedBeforeDispatch ==
    \A fp \in Fingerprint :
        calls[fp].effect # "read_only" /\ dispatches[fp] > 0
            => approvals[fp] = "approved"

\* The history holds exactly one answer to every call that has a result and
\* none to the others, so a model never sees two outcomes of one call.
AnswersOf(fp) ==
    {i \in DOMAIN snap.history :
        /\ snap.history[i].role = "tool"
        /\ snap.history[i].step = fp[1] /\ snap.history[i].ordinal = fp[2]}
AnsweredExactlyOnce ==
    \A fp \in Fingerprint :
        IF calls[fp].status = "result"
        THEN \E i \in AnswersOf(fp) : AnswersOf(fp) = {i}
        ELSE AnswersOf(fp) = {}

\* The order in which calls were accepted.
Before(f, g) == f[1] < g[1] \/ (f[1] = g[1] /\ f[2] < g[2])

\* Calls of one reply run one after the other: while one is open, those before
\* it have results and those after it are untouched, and earlier steps are
\* fully answered.
SerialExecution ==
    \A f, g \in Fingerprint :
        Before(f, g) /\ calls[g].status \notin {"absent", "pending"}
            => calls[f].status \in {"absent", "result"}

\* A paused run can be taken up by an operator: one that awaits approval has a
\* call with an undecided approval, one that is effect_unknown has a call that
\* resolve_effect accepts.
PausesAreResolvable ==
    /\ snap.status = "awaiting_approval" =>
          \E o \in 1 .. MaxCalls :
              /\ snap.step >= 1
              /\ calls[<<snap.step, o>>].status = "awaiting_approval"
              /\ approvals[<<snap.step, o>>] = "undecided"
    /\ snap.status = "effect_unknown" =>
          \E o \in 1 .. MaxCalls :
              snap.step >= 1 /\ calls[<<snap.step, o>>].status = "effect_unknown"

\* The model is called, and a final answer accepted, only when every call
\* accepted so far has its result in the history.
ModelSeesEveryResult ==
    /\ snap.status \in {"ready_model", "pending_final", "completed"} =>
          \A fp \in Fingerprint : calls[fp].status \in {"absent", "result"}
    /\ snap.status \in {"pending_final", "completed"} =>
          snap.history[Len(snap.history)] =
              [role |-> "assistant", step |-> snap.step, ordinal |-> 0, error |-> FALSE]

\* A terminal run logs one terminal event, the one of its status, and no other
\* run logs any: the event log and the snapshot agree after every commit.
TerminalEventMatches ==
    terminals = CASE snap.status = "completed" -> <<"run.completed">>
                  [] snap.status = "failed" -> <<"run.failed">>
                  [] snap.status = "cancelled" -> <<"run.cancelled">>
                  [] OTHER -> <<>>

\* No commit drops what an earlier commit recorded: the history only grows and
\* the step never falls, also when a drive commits a snapshot it held across
\* an await while other drives committed theirs.
NoLostUpdate ==
    [][ /\ Len(snap.history) <= Len(snap'.history)
        /\ \A i \in DOMAIN snap.history : snap'.history[i] = snap.history[i]
        /\ snap.step <= snap'.step ]_vars

\* An approved call that no drive is executing any more: its dispatch was
\* committed, its outcome was not.
Abandoned(fp) ==
    /\ calls[fp].status = "dispatching"
    /\ \A h \in Harnesses : drive[h].at \in {"handler", "drain"} => HeldCall(h) # fp

\* The outcome of an abandoned side effect is unknown, and stays so until an
\* operator says otherwise: recovery never answers the call by itself.
AbandonedEffectIsUnknown ==
    [][ \A fp \in Fingerprint :
          calls[fp].effect = "side_effecting" /\ Abandoned(fp)
            => calls'[fp].status \in {"dispatching", "effect_unknown"} ]_vars

\* A cancelled call that may have had an effect remains effect_unknown, where
\* an operator can record what happened.
CancelledEffectIsReconcilable ==
    snap.status = "cancelled" =>
        \A fp \in Fingerprint :
            calls[fp].effect # "read_only" => calls[fp].status # "dispatching"

\* A call that is not read-only is dispatched under the contract it was
\* recorded and approved with, whatever tools later Harnesses have, and that
\* record never changes.
DispatchesRecordedContract ==
    [][ \A fp \in Fingerprint :
          /\ dispatches'[fp] > dispatches[fp] /\ calls[fp].effect # "read_only" =>
                \E h \in Harnesses :
                    /\ drive'[h].at = "handler" /\ HeldCall(h)' = fp
                    /\ calls[fp].name \in DOMAIN catalog[h]
                    /\ LET tool == catalog[h][calls[fp].name] IN
                         /\ tool.effect = calls[fp].effect
                         /\ tool.revision = calls[fp].revision
                         /\ tool.effect = "idempotent" => tool.key = calls[fp].key
          /\ Present(fp) =>
                calls'[fp] = [calls[fp] EXCEPT !.status = calls'[fp].status]
      ]_vars

\* Once faults have stopped, every run that exists reaches a terminal status.
Settles == snap.status # "absent" ~> snap.status \in Terminal

\* A retry or an approval is acted upon: an approved call is eventually
\* dispatched, answered or put in doubt again, unless its run has ended.
ApprovalIsActedUpon ==
    \A fp \in Fingerprint :
        calls[fp].status = "approved"
            ~> calls[fp].status # "approved" \/ snap.status \in Terminal

\* The calls of the run, seen through their status alone, keep CallContract.
PhaseOf(status) ==
    CASE status = "absent" -> "unborn"
      [] status \in {"pending", "requested"} -> "proposed"
      [] status = "awaiting_approval" -> "asked"
      [] status = "approved" -> "allowed"
      [] status = "denied" -> "refused"
      [] status = "dispatching" -> "running"
      [] status = "effect_unknown" -> "doubtful"
      [] status = "result" -> "answered"

Abstract == INSTANCE CallContract WITH
    Calls <- Fingerprint,
    phase <- [fp \in Fingerprint |-> PhaseOf(calls[fp].status)],
    kind  <- [fp \in Fingerprint |-> calls[fp].effect]

\* Whatever drives, faults and operators do, every step of the run is a step
\* CallContract allows, or none at all.
ImplementsCallContract == Abstract!Spec
=============================================================================
