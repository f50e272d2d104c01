------------------------- MODULE WorkflowRun_proofs -------------------------
(***************************************************************************)
(* A workflow stops at its first failure, and no interleaving of its       *)
(* drive, faults and operators leaves a run that _assert_run refuses: for  *)
(* every workflow, every number of deployments and every tool.             *)
(***************************************************************************)
EXTENDS WorkflowProjection, Harness_proofs

\* The history as replay reads it: step k is asked for at place 2k - 1 and
\* answered at place 2k, nothing is asked after a failure, and the place after
\* the last step has the final answer.
Told(hist, step) ==
    /\ Len(hist) <= 2 * N + 1
    /\ Len(hist) = 2 * step \/ Len(hist) = 2 * step - 1
    /\ \A k \in 1 .. N + 1 : 2 * k - 1 <= Len(hist) =>
          /\ hist[2 * k - 1].role = "assistant" /\ hist[2 * k - 1].step = k
          /\ k > 1 => ~hist[2 * k - 2].error
    /\ \A k \in 1 .. N : 2 * k <= Len(hist) =>
          hist[2 * k].role = "tool" /\ hist[2 * k].step = k /\ hist[2 * k].ordinal = 1

\* The row of the call of step k, under any deployment.
RowOf(c, k) ==
    /\ c.id = StepIds[k] /\ c.name = Steps[k] /\ c.wellformed
    /\ \A cat \in Catalogs :
          c.effect = cat[Steps[k]].effect /\ c.revision = cat[Steps[k]].revision
    /\ c.effect # "idempotent" => c.key = NoKey

\* The calls are those of the steps asked for, one each.
StepRows ==
    \A fp \in Fingerprint :
        /\ Present(fp) <=> fp[2] = 1 /\ fp[1] <= N /\ fp[1] <= snap.step
        /\ Present(fp) => RowOf(calls[fp], fp[1])

Finished(s) == s.status \in {"pending_final", "completed"} => Len(s.history) = 2 * N + 1

RunInv(solo) ==
    /\ SoloInv(solo)
    /\ StepRows /\ Told(snap.history, snap.step) /\ Finished(snap)

-----------------------------------------------------------------------------
\* Places of a history.

\* Every place is the question or the answer of one step.
LEMMA Halves ==
    ASSUME NEW i \in Nat, i >= 1
    PROVE  LET k == (i + 1) \div 2
           IN  k \in Nat /\ k >= 1 /\ IF i % 2 = 1 THEN i = 2 * k - 1 ELSE i = 2 * k
OBVIOUS

\* The number of steps a history has asked for.
LEMMA StepsReplayed ==
    ASSUME NEW hist \in Seq(Message), NEW step \in 0 .. N + 1, N \in Nat, Told(hist, step)
    PROVE  Replayed(hist) = IF step > N THEN N ELSE step
<1>1. Len(hist) \in Nat /\ (Len(hist) = 2 * step \/ Len(hist) = 2 * step - 1)
    BY DEF Told
<1>2. CASE step > N
    BY <1>1, <1>2 DEF Replayed, Told
<1>3. CASE step <= N
    <2>1. (2 * step + 1) \div 2 = step /\ (2 * step) \div 2 = step
        OBVIOUS
    <2>2. (Len(hist) + 1) \div 2 = step /\ Len(hist) <= 2 * N
        BY <1>1, <1>3, <2>1
    <2> QED BY <1>1, <1>3, <2>2 DEF Replayed
<1> QED BY <1>2, <1>3

\* A history told in order is one replay accepts.
LEMMA ToldReplays ==
    ASSUME NEW hist \in Seq(Message), NEW step \in 0 .. N + 1, N \in Nat,
           Told(hist, step), Resolves(hist)
    PROVE  Replays(hist)
<1> SUFFICES ASSUME NEW i \in DOMAIN hist
             PROVE  LET k == (i + 1) \div 2 IN
                    IF i % 2 = 1
                    THEN /\ hist[i].role = "assistant" /\ hist[i].step = k
                         /\ k > 1 => ~Failed(hist, k - 1)
                    ELSE hist[i].role = "tool" /\ hist[i].step = k /\ hist[i].ordinal = 1
    BY DEF Replays, Told
<1> DEFINE k == (i + 1) \div 2
<1>1. i \in Nat /\ i >= 1 /\ i <= Len(hist) /\ Len(hist) \in Nat
    OBVIOUS
<1>2. k \in Nat /\ k >= 1 /\ IF i % 2 = 1 THEN i = 2 * k - 1 ELSE i = 2 * k
    BY <1>1, Halves
<1> HIDE DEF k
<1>3. Len(hist) <= 2 * N + 1
    BY DEF Told
<1>4. CASE i % 2 = 1
    <2>1. i = 2 * k - 1 /\ k \in 1 .. N + 1
        BY <1>1, <1>2, <1>3, <1>4
    <2>2. /\ hist[i].role = "assistant" /\ hist[i].step = k
          /\ k > 1 => ~hist[2 * k - 2].error
        BY <1>1, <2>1 DEF Told
    <2>3. k > 1 => ~Failed(hist, k - 1)
        <3>1. 2 * (k - 1) = 2 * k - 2
            BY <1>2
        <3> QED BY <2>2, <3>1 DEF Failed
    <2> QED BY <1>4, <2>2, <2>3 DEF k
<1>5. CASE i % 2 # 1
    <2>1. i = 2 * k /\ k \in 1 .. N
        BY <1>1, <1>2, <1>3, <1>5
    <2>2. hist[i].role = "tool" /\ hist[i].step = k /\ hist[i].ordinal = 1
        BY <1>1, <2>1 DEF Told
    <2> QED BY <1>5, <2>2 DEF k
<1> QED BY <1>4, <1>5

\* A step is answered in the history when its call has a result.
LEMMA AnsweredCalls ==
    ASSUME snap \in Snapshot, AnsweredExactlyOnce, N \in Nat, MaxSteps = N + 1,
           Told(snap.history, snap.step), NEW k \in 1 .. N
    PROVE  2 * k <= Len(snap.history) <=> calls[<<k, 1>>].status = "result"
<1> DEFINE hist == snap.history
           fp == <<k, 1>>
<1>0. hist \in Seq(Message) /\ Len(hist) \in Nat /\ DOMAIN hist = 1 .. Len(hist)
    BY DEF Snapshot
<1>1. fp \in Fingerprint
    BY BoundsAssumption DEF Fingerprint
<1>2. ASSUME 2 * k <= Len(hist)
      PROVE  2 * k \in AnswersOf(fp)
    <2>1. hist[2 * k].role = "tool" /\ hist[2 * k].step = k /\ hist[2 * k].ordinal = 1
        BY <1>2 DEF Told
    <2>2. 2 * k \in DOMAIN hist
        BY <1>0, <1>2
    <2> QED BY <2>1, <2>2 DEF AnswersOf
<1>3. ASSUME NEW i \in AnswersOf(fp)
      PROVE  2 * k <= Len(hist)
    <2>1. i \in DOMAIN hist /\ hist[i].role = "tool" /\ hist[i].step = k
        BY <1>3 DEF AnswersOf
    <2>2. i \in Nat /\ i >= 1 /\ i <= Len(hist) /\ Len(hist) <= 2 * N + 1
        BY <1>0, <2>1 DEF Told
    <2>3. PICK j \in Nat : j >= 1 /\ (i = 2 * j - 1 \/ i = 2 * j)
        BY <2>2, Halves
    <2>4. CASE i = 2 * j - 1
        <3>1. j \in 1 .. N + 1
            BY <2>2, <2>3, <2>4
        <3>2. hist[i].role = "assistant"
            BY <2>2, <2>4, <3>1 DEF Told
        <3> QED BY <2>1, <3>2
    <2>5. CASE i = 2 * j
        <3>1. j \in 1 .. N
            BY <2>2, <2>3, <2>5
        <3>2. hist[i].step = j
            BY <2>2, <2>5, <3>1 DEF Told
        <3> QED BY <2>1, <2>2, <2>5, <3>2
    <2> QED BY <2>3, <2>4, <2>5
<1> HIDE DEF fp, hist
<1>4. calls[fp].status = "result" <=> AnswersOf(fp) # {}
    BY <1>1 DEF AnsweredExactlyOnce
<1>5. 2 * k <= Len(hist) <=> calls[fp].status = "result"
    BY <1>2, <1>3, <1>4
<1> QED BY <1>5 DEF fp, hist
-----------------------------------------------------------------------------
\* The steps of a workflow.

\* The reply of the model is one a model may give.
LEMMA ReplyIsOne ==
    ASSUME NEW hist, NEW step \in 0 .. N, Replayed(hist) = step
    PROVE  /\ ReplyTo(hist) \in Replies
           /\ step < N => ReplyTo(hist) = <<Expected(step + 1)>>
           /\ step = N => ReplyTo(hist) = <<>>
<1>n. N \in Nat
    BY WorkflowAssumption DEF N
<1>1. CASE step < N
    <2>1. Expected(step + 1) \in Requests
        BY <1>1, <1>n, WorkflowAssumption
    <2>2. ReplyTo(hist) = <<Expected(step + 1)>>
        BY <1>1 DEF ReplyTo
    <2>3. ReplyTo(hist) \in [1 .. 1 -> Requests]
        BY <2>1, <2>2
    <2> QED BY <1>1, <2>2, <2>3, BoundsAssumption DEF Replies
<1>2. CASE step = N
    <2>1. ReplyTo(hist) = <<>>
        BY <1>2 DEF ReplyTo
    <2>2. ReplyTo(hist) \in [1 .. 0 -> Requests]
        BY <2>1
    <2> QED BY <1>2, <2>1, <2>2, BoundsAssumption DEF Replies
<1> QED BY <1>1, <1>2, <1>n

\* The model answers a history whose last step has succeeded.
LEMMA ReplyFollows ==
    ASSUME NEW hist \in Seq(Message), NEW step \in 0 .. N + 1, Told(hist, step),
           CanReply(hist)
    PROVE  /\ step \in 0 .. N /\ Len(hist) = 2 * step /\ Replayed(hist) = step
           /\ step >= 1 => ~hist[2 * step].error
<1>n. N \in Nat
    BY WorkflowAssumption DEF N
<1>1. Replayed(hist) = IF step > N THEN N ELSE step
    BY <1>n, StepsReplayed
<1>2. /\ Len(hist) \in Nat /\ Len(hist) <= 2 * N + 1 /\ Len(hist) # 2 * N + 1
      /\ Len(hist) = 2 * step \/ Len(hist) = 2 * step - 1
    BY DEF Told, CanReply, HasFinal
<1>3. step \in 0 .. N /\ Replayed(hist) = step
    BY <1>n, <1>1, <1>2
<1>4. step >= 1 => Len(hist) >= 2 * step /\ ~hist[2 * step].error
    BY <1>3 DEF CanReply, HasPending, HasFailure, Failed, Answered
<1>5. Len(hist) = 2 * step
    BY <1>2, <1>3, <1>4
<1> QED BY <1>3, <1>4, <1>5

\* A drive at the model holds the history of the run.
LEMMA AtModel ==
    ASSUME NEW solo, Harnesses = {solo}, RunInv(solo), NEW h \in Harnesses,
           drive[h].at = "model"
    PROVE  /\ drive[h].held = snap /\ snap.history \in Seq(Message)
           /\ snap.step \in 0 .. N + 1 /\ Told(snap.history, snap.step)
<1>1. snap \in Snapshot /\ drive[h].held = snap
    BY DEF RunInv, SoloInv, HistoryInv, IInv, TypeInv, TypeOK, Holds, Suspended
<1> QED BY <1>1, WorkflowAssumption DEF Snapshot, RunInv

\* A step of the workflow is a step of the loop.
LEMMA RunIsLoop ==
    ASSUME NEW solo, Harnesses = {solo}, RunInv(solo), [RunNext]_<<vars, missing>>
    PROVE  /\ [Next]_vars
           /\ \/ OtherStep
              \/ \E h \in Harnesses :
                    /\ CanReply(drive[h].held.history)
                    /\ AcceptReply(h, ReplyTo(drive[h].held.history))
<1>1. CASE UNCHANGED <<vars, missing>>
    BY <1>1 DEF OtherStep
<1>2. ASSUME NEW h \in Harnesses, Start(h) \/ Fault(h)
      PROVE  Next /\ OtherStep
    BY <1>2 DEF Next, OtherStep
<1>3. ASSUME NEW h \in Harnesses, ResumeRun(h)
      PROVE  Next /\ OtherStep
    BY <1>3 DEF Next, OtherStep, ResumeRun
<1>4. ASSUME NEW h \in Harnesses, Resolve(h)
      PROVE  Next /\ OtherStep
    BY <1>4 DEF Next, OtherStep, Resolve, Operator
<1>5. ASSUME NEW h \in Harnesses, drive[h].at = "model", ModelReplies(h)
      PROVE  /\ Next
             /\ \/ OtherStep
                \/ /\ CanReply(drive[h].held.history)
                   /\ AcceptReply(h, ReplyTo(drive[h].held.history))
    <2> DEFINE hist == drive[h].held.history
    <2>1. CASE ~CanReply(hist)
        BY <1>5, <2>1 DEF ModelReplies, Next, Progress, OtherStep
    <2>2. CASE CanReply(hist)
        <3>1. drive[h].held = snap /\ snap.history \in Seq(Message)
              /\ snap.step \in 0 .. N + 1 /\ Told(snap.history, snap.step)
            BY <1>5, AtModel
        <3>2. snap.step \in 0 .. N /\ Replayed(snap.history) = snap.step
            BY <2>2, <3>1, ReplyFollows
        <3>3. ReplyTo(hist) \in Replies
            BY <3>1, <3>2, ReplyIsOne
        <3> DEFINE reply == ReplyTo(hist)
        <3>4. AcceptReply(h, reply) \/ FailDuplicate(h, reply)
            BY <1>5, <2>2 DEF ModelReplies
        <3>5. Next
            BY <3>3, <3>4 DEF Next, Progress
        <3>6. FailDuplicate(h, reply) => OtherStep
            BY <3>3 DEF OtherStep
        <3> QED BY <2>2, <3>4, <3>5, <3>6
    <2> QED BY <2>1, <2>2
<1>6. ASSUME NEW h \in Harnesses, RunProgress(h)
      PROVE  /\ Next
             /\ \/ OtherStep
                \/ /\ CanReply(drive[h].held.history)
                   /\ AcceptReply(h, ReplyTo(drive[h].held.history))
    BY <1>5, <1>6 DEF RunProgress, Next, Progress, OtherStep
<1> QED BY <1>1, <1>2, <1>3, <1>4, <1>6 DEF RunNext

-----------------------------------------------------------------------------
\* The invariant.

\* The message at a place of a history one message longer.
LEMMA Longer ==
    ASSUME NEW hist \in Seq(Message), NEW m \in Message
    PROVE  /\ Len(Append(hist, m)) = Len(hist) + 1 /\ Append(hist, m) \in Seq(Message)
           /\ Append(hist, m)[Len(hist) + 1] = m
           /\ \A i \in 1 .. Len(hist) : Append(hist, m)[i] = hist[i]
OBVIOUS

\* The result of the open step completes its half of the history.
LEMMA ToldAnswer ==
    ASSUME NEW hist \in Seq(Message), NEW step \in 1 .. N, NEW failed \in BOOLEAN,
           NEW m \in Message, m = Answer(<<step, 1>>, failed),
           Told(hist, step), Len(hist) = 2 * step - 1
    PROVE  Told(Append(hist, m), step)
<1> DEFINE longer == Append(hist, m)
<1>n. N \in Nat
    BY WorkflowAssumption DEF N
<1>1. /\ Len(longer) = 2 * step /\ longer[2 * step] = m
      /\ \A i \in 1 .. 2 * step - 1 : longer[i] = hist[i]
    BY Longer
<1> HIDE DEF longer
<1>2. m.role = "tool" /\ m.step = step /\ m.ordinal = 1
    BY DEF Answer
<1>3. ASSUME NEW k \in 1 .. N + 1, 2 * k - 1 <= Len(longer)
      PROVE  /\ longer[2 * k - 1].role = "assistant" /\ longer[2 * k - 1].step = k
             /\ k > 1 => ~longer[2 * k - 2].error
    <2>1. k \in 1 .. step /\ 2 * k - 1 <= Len(hist)
        BY <1>1, <1>3
    <2>2. /\ longer[2 * k - 1] = hist[2 * k - 1]
          /\ k > 1 => longer[2 * k - 2] = hist[2 * k - 2]
        BY <1>1, <2>1
    <2> QED BY <2>1, <2>2 DEF Told
<1>4. ASSUME NEW k \in 1 .. N, 2 * k <= Len(longer)
      PROVE  longer[2 * k].role = "tool" /\ longer[2 * k].step = k /\ longer[2 * k].ordinal = 1
    <2>1. CASE k = step
        BY <1>1, <1>2, <2>1
    <2>2. CASE k # step
        <3>1. k \in 1 .. step - 1 /\ 2 * k <= Len(hist)
            BY <1>1, <1>4, <2>2
        <3>2. longer[2 * k] = hist[2 * k]
            BY <1>1, <3>1
        <3> QED BY <3>1, <3>2 DEF Told
    <2> QED BY <2>1, <2>2
<1>5. Told(longer, step)
    BY <1>n, <1>1, <1>3, <1>4 DEF Told
<1> QED BY <1>5 DEF longer

\* The next question, or the final answer, follows the last answer.
LEMMA ToldReply ==
    ASSUME NEW hist \in Seq(Message), NEW step \in 0 .. N, NEW m \in Message,
           m.role = "assistant", m.step = step + 1,
           Told(hist, step), Len(hist) = 2 * step,
           step >= 1 => ~hist[2 * step].error
    PROVE  Told(Append(hist, m), step + 1)
<1> DEFINE longer == Append(hist, m)
<1>n. N \in Nat
    BY WorkflowAssumption DEF N
<1>1. /\ Len(longer) = 2 * step + 1 /\ longer[2 * step + 1] = m
      /\ \A i \in 1 .. 2 * step : longer[i] = hist[i]
    BY Longer
<1> HIDE DEF longer
<1>3. ASSUME NEW k \in 1 .. N + 1, 2 * k - 1 <= Len(longer)
      PROVE  /\ longer[2 * k - 1].role = "assistant" /\ longer[2 * k - 1].step = k
             /\ k > 1 => ~longer[2 * k - 2].error
    <2>1. CASE k = step + 1
        <3>1. 2 * k - 1 = 2 * step + 1 /\ 2 * k - 2 = 2 * step
            BY <2>1
        <3>2. step >= 1 => longer[2 * step] = hist[2 * step]
            BY <1>1
        <3> QED BY <1>1, <2>1, <3>1, <3>2
    <2>2. CASE k # step + 1
        <3>1. k \in 1 .. step /\ 2 * k - 1 <= Len(hist)
            BY <1>1, <1>3, <2>2
        <3>2. /\ longer[2 * k - 1] = hist[2 * k - 1]
              /\ k > 1 => longer[2 * k - 2] = hist[2 * k - 2]
            BY <1>1, <3>1
        <3> QED BY <3>1, <3>2 DEF Told
    <2> QED BY <2>1, <2>2
<1>4. ASSUME NEW k \in 1 .. N, 2 * k <= Len(longer)
      PROVE  longer[2 * k].role = "tool" /\ longer[2 * k].step = k /\ longer[2 * k].ordinal = 1
    <2>1. k \in 1 .. step /\ 2 * k <= Len(hist)
        BY <1>1, <1>4
    <2>2. longer[2 * k] = hist[2 * k]
        BY <1>1, <2>1
    <2> QED BY <2>1, <2>2 DEF Told
<1>5. Told(longer, step + 1)
    BY <1>n, <1>1, <1>3, <1>4 DEF Told
<1> QED BY <1>5 DEF longer

\* SetCall keeps what the row of a step says.
LEMMA RowKept ==
    ASSUME TypeOK, NEW fp \in Fingerprint, NEW st, SetCall(fp, st), NEW k,
           RowOf(calls[fp], k)
    PROVE  RowOf(calls'[fp], k)
<1>1. /\ calls'[fp].id = calls[fp].id /\ calls'[fp].name = calls[fp].name
      /\ calls'[fp].wellformed = calls[fp].wellformed
      /\ calls'[fp].effect = calls[fp].effect
      /\ calls'[fp].revision = calls[fp].revision /\ calls'[fp].key = calls[fp].key
    BY DEF SetCall, TypeOK, CallRecord
<1> QED BY <1>1 DEF RowOf

\* What the workflow's own invariant says of a state.
Follows == StepRows /\ Told(snap.history, snap.step) /\ Finished(snap)

\* A step that moves no call or one.
LEMMA OtherFollows ==
    ASSUME NEW solo, Harnesses = {solo}, RunInv(solo), OtherShape
    PROVE  Follows'
<1>n. N \in Nat /\ MaxSteps = N + 1
    BY WorkflowAssumption DEF N
<1>0. /\ TypeOK /\ snap \in Snapshot /\ OnlyThisStepOpen /\ SerialExecution
      /\ AnsweredExactlyOnce /\ Follows
    BY DEF RunInv, SoloInv, HistoryInv, IInv, TypeInv, TypeOK, Follows
<1>1. CASE NoCallMoves
    <2>1. /\ UNCHANGED calls /\ snap'.step = snap.step /\ snap'.history = snap.history
          /\ snap'.status \in {"pending_final", "completed"} =>
                snap.status \in {"pending_final", "completed"}
        BY <1>1 DEF NoCallMoves
    <2>2. StepRows'
        BY <2>1, <1>0 DEF Follows, StepRows, Present
    <2> QED BY <2>1, <2>2, <1>0 DEF Follows, Finished
<1>2. ASSUME NEW fp \in Fingerprint, NEW st \in Moved, OneCallMoves(fp, st)
      PROVE  Follows'
    <2>1. /\ SetCall(fp, st) /\ Moves(calls[fp], st) /\ snap'.step = snap.step
          /\ snap'.status \notin Quiescent
          /\ calls[fp].status = "pending" => Predecessors(fp)
        BY <1>2 DEF OneCallMoves
    <2>2. calls[fp].status \notin {"absent", "result"}
        BY <2>1 DEF Moves
    <2>3. fp[1] = snap.step
        BY <2>1, <2>2, <1>0, Alone
    <2>4. fp[2] = 1 /\ fp[1] \in 1 .. N
        BY <2>2, <1>0, <1>n DEF Follows, StepRows, Present, Fingerprint
    <2>5. fp = <<snap.step, 1>> /\ snap.step \in 1 .. N
        BY <2>3, <2>4 DEF Fingerprint
    <2>6. /\ calls'[fp].status = st /\ \A g \in Fingerprint \ {fp} : calls'[g] = calls[g]
        BY <2>1, <1>0, SetCallEffect
    <2>7. StepRows'
        <3> SUFFICES ASSUME NEW g \in Fingerprint
                     PROVE  /\ Present(g)' <=> g[2] = 1 /\ g[1] <= N /\ g[1] <= snap'.step
                            /\ Present(g)' => RowOf(calls'[g], g[1])
            BY DEF StepRows
        <3>1. CASE g = fp
            <4>1. Present(fp) /\ Present(fp)'
                BY <2>2, <2>6 DEF Present, Moved
            <4>2. RowOf(calls'[fp], fp[1])
                BY <4>1, <2>1, <1>0, RowKept DEF Follows, StepRows
            <4> QED BY <3>1, <4>1, <4>2, <2>1, <1>0 DEF Follows, StepRows
        <3>2. CASE g # fp
            <4>1. calls'[g] = calls[g]
                BY <2>6, <3>2
            <4> QED BY <4>1, <2>1, <1>0 DEF Follows, StepRows, Present
        <3> QED BY <3>1, <3>2
    <2>8. Told(snap'.history, snap'.step)
        <3>1. CASE st # "result"
            BY <3>1, <1>2, <2>1, <1>0 DEF OneCallMoves, Follows
        <3>2. CASE st = "result"
            <4>1. PICK failed \in BOOLEAN :
                     snap'.history = Append(snap.history, Answer(fp, failed))
                BY <1>2, <3>2 DEF OneCallMoves
            <4> DEFINE m == Answer(fp, failed)
            <4>2. m \in Message
                BY AnswerType
            <4>3. ~(2 * snap.step <= Len(snap.history))
                BY <2>2, <2>5, <1>0, <1>n, AnsweredCalls DEF Follows
            <4>4. Len(snap.history) = 2 * snap.step - 1 /\ snap.history \in Seq(Message)
                BY <4>3, <2>5, <1>0 DEF Follows, Told, Snapshot
            <4>5. m = Answer(<<snap.step, 1>>, failed)
                BY <2>5
            <4> HIDE DEF m
            <4>6. Told(Append(snap.history, m), snap.step)
                BY <4>2, <4>4, <4>5, <2>5, <1>0, ToldAnswer DEF Follows
            <4> QED BY <4>1, <4>6, <2>1 DEF m
        <3> QED BY <3>1, <3>2
    <2>9. Finished(snap')
        BY <2>1 DEF Finished, Quiescent
    <2> QED BY <2>7, <2>8, <2>9 DEF Follows
<1> QED BY <1>1, <1>2 DEF OtherShape

\* The row of the call the workflow asks for.
LEMMA NewRow ==
    ASSUME TypeOK, NEW h \in Harnesses, NEW k \in 1 .. N
    PROVE  RowOf(NewCall(h, Expected(k)), k) /\ NewCall(h, Expected(k)).status = "pending"
<1>1. catalog[h] \in Catalogs
    BY DEF TypeOK
<1>2. /\ Expected(k).id = StepIds[k] /\ Expected(k).name = Steps[k]
      /\ Expected(k).wellformed
    BY DEF Expected
<1>3. /\ Steps[k] \in DOMAIN catalog[h]
      /\ \A other \in Catalogs :
            /\ other[Steps[k]].effect = catalog[h][Steps[k]].effect
            /\ other[Steps[k]].revision = catalog[h][Steps[k]].revision
    BY <1>1, WorkflowAssumption
<1> HIDE DEF Expected
<1> QED BY <1>2, <1>3 DEF NewCall, RowOf

\* The acceptance of the model's reply.
LEMMA ReplyFollowsOn ==
    ASSUME NEW solo, Harnesses = {solo}, RunInv(solo), NEW h \in Harnesses,
           CanReply(drive[h].held.history),
           AcceptReply(h, ReplyTo(drive[h].held.history))
    PROVE  Follows'
<1> DEFINE hist == snap.history
           step == snap.step
           reply == ReplyTo(hist)
           m == [role |-> "assistant", step |-> step + 1, ordinal |-> 0, error |-> FALSE]
<1>n. N \in Nat /\ MaxSteps = N + 1
    BY WorkflowAssumption DEF N
<1>0. TypeOK /\ HistoryInv /\ Follows
    BY DEF RunInv, SoloInv, HistoryInv, IInv, TypeInv, TypeOK, Follows
<1>1. /\ drive[h].held = snap /\ hist \in Seq(Message)
      /\ step \in 0 .. N + 1 /\ Told(hist, step)
    BY AtModel DEF AcceptReply
<1>2. /\ step \in 0 .. N /\ Len(hist) = 2 * step /\ Replayed(hist) = step
      /\ step >= 1 => ~hist[2 * step].error
    BY <1>1, ReplyFollows
<1>3. /\ reply \in Replies
      /\ step < N => reply = <<Expected(step + 1)>>
      /\ step = N => reply = <<>>
    BY <1>2, ReplyIsOne
<1> HIDE DEF reply
<1>4. AcceptReply(h, reply)
    BY <1>1 DEF reply
<1>5. /\ ReplyAccepted
      /\ snap'.status = IF reply = <<>> THEN "pending_final" ELSE "processing_reply"
    BY <1>0, <1>3, <1>4, ReplyShape
<1>6. /\ snap'.step = step + 1 /\ snap'.history = Append(hist, m)
    BY <1>5 DEF ReplyAccepted
<1>7. m \in Message /\ m.role = "assistant" /\ m.step = step + 1
    <2>1. step + 1 \in 1 .. MaxSteps
        BY <1>2, <1>n
    <2> HIDE DEF step
    <2> QED BY <2>1, BoundsAssumption DEF Message
<1> HIDE DEF m
<1>8. Told(snap'.history, snap'.step)
    BY <1>1, <1>2, <1>6, <1>7, ToldReply
<1>9. Finished(snap')
    <2>1. CASE step = N
        <3>1. Len(snap'.history) = 2 * N + 1
            BY <2>1, <1>1, <1>2, <1>6, <1>7, Longer
        <3> QED BY <3>1 DEF Finished
    <2>2. CASE step < N
        <3>1. reply # <<>>
            BY <1>3, <2>2
        <3> QED BY <1>5, <3>1 DEF Finished
    <2> QED BY <2>1, <2>2, <1>2, <1>n
<1>10. calls' = [fp \in Fingerprint |->
              IF fp[1] = step + 1 /\ fp[2] <= Len(reply)
              THEN NewCall(h, reply[fp[2]]) ELSE calls[fp]]
    BY <1>1, <1>4 DEF AcceptReply
<1>11. StepRows'
    <2> SUFFICES ASSUME NEW fp \in Fingerprint
                 PROVE  /\ Present(fp)' <=> fp[2] = 1 /\ fp[1] <= N /\ fp[1] <= step + 1
                        /\ Present(fp)' => RowOf(calls'[fp], fp[1])
        BY <1>6 DEF StepRows
    <2>0. fp[1] \in 1 .. N + 1 /\ fp[2] \in 1 .. MaxCalls
        BY <1>n DEF Fingerprint
    <2>1. CASE fp[1] = step + 1 /\ step < N /\ fp[2] = 1
        <3>1. Len(reply) = 1 /\ reply[1] = Expected(step + 1)
            BY <1>3, <2>1
        <3>2. calls'[fp] = NewCall(h, Expected(step + 1))
            BY <1>10, <2>1, <3>1
        <3>3. PICK k \in 1 .. N : k = step + 1
            BY <1>2, <1>n, <2>1
        <3>4. RowOf(NewCall(h, Expected(k)), k) /\ NewCall(h, Expected(k)).status = "pending"
            BY <1>0, NewRow
        <3>5. RowOf(calls'[fp], fp[1]) /\ calls'[fp].status = "pending"
            BY <2>1, <3>2, <3>3, <3>4
        <3>6. Present(fp)' /\ fp[2] = 1 /\ fp[1] <= N /\ fp[1] <= step + 1
            BY <2>1, <3>3, <3>5 DEF Present
        <3> QED BY <3>5, <3>6
    <2>2. CASE ~(fp[1] = step + 1 /\ step < N /\ fp[2] = 1)
        <3>1. fp[1] = step + 1 => ~(fp[2] <= Len(reply))
            <4>1. CASE step < N
                <5>1. Len(reply) = 1
                    BY <4>1, <1>3
                <5> QED BY <4>1, <5>1, <2>0, <2>2, BoundsAssumption
            <4>2. CASE step = N
                BY <4>2, <1>3, <2>0, BoundsAssumption
            <4> QED BY <4>1, <4>2, <1>2, <1>n
        <3>2. calls'[fp] = calls[fp]
            BY <1>10, <3>1
        <3>3. fp[2] = 1 /\ fp[1] <= N /\ fp[1] <= step
                 <=> fp[2] = 1 /\ fp[1] <= N /\ fp[1] <= step + 1
            BY <2>0, <2>2, <1>2, <1>n
        <3> QED BY <3>2, <3>3, <1>0 DEF Follows, StepRows, Present
    <2> QED BY <2>1, <2>2
<1> QED BY <1>8, <1>9, <1>11 DEF Follows

\* The invariant holds initially.
LEMMA RunInvInit ==
    ASSUME NEW solo, Harnesses = {solo}
    PROVE  RunInit => RunInv(solo)
<1> SUFFICES ASSUME RunInit PROVE RunInv(solo)
    OBVIOUS
<1>n. N \in Nat
    BY WorkflowAssumption DEF N
<1>1. Init /\ SoloInv(solo)
    BY SoloInit DEF RunInit
<1>2. /\ snap.step = 0 /\ snap.history = <<>> /\ snap.status = "absent"
      /\ \A fp \in Fingerprint : calls[fp].status = "absent"
    BY <1>1 DEF Init, NoRun, NoCall
<1>3. StepRows
    BY <1>2, <1>n DEF StepRows, Present, Fingerprint
<1>4. Told(snap.history, snap.step)
    BY <1>2, <1>n DEF Told
<1>5. Finished(snap)
    BY <1>2 DEF Finished
<1> QED BY <1>1, <1>3, <1>4, <1>5 DEF RunInv

\* The invariant holds after every step.
LEMMA RunInvStep ==
    ASSUME NEW solo, Harnesses = {solo}
    PROVE  RunInv(solo) /\ [RunNext]_<<vars, missing>> => RunInv(solo)'
<1> SUFFICES ASSUME RunInv(solo), [RunNext]_<<vars, missing>> PROVE RunInv(solo)'
    OBVIOUS
<1>1. [Next]_vars /\ SoloInv(solo) /\ HistoryInv
    BY RunIsLoop DEF RunInv, SoloInv
<1>2. SoloInv(solo)'
    BY <1>1, SoloStep
<1>3. Follows'
    <2>1. CASE OtherStep
        BY <2>1, <1>1, OtherShapes, OtherFollows
    <2>2. ASSUME NEW h \in Harnesses, CanReply(drive[h].held.history),
                 AcceptReply(h, ReplyTo(drive[h].held.history))
          PROVE  Follows'
        BY <2>2, ReplyFollowsOn
    <2> QED BY <2>1, <2>2, RunIsLoop
<1> QED BY <1>2, <1>3 DEF RunInv, Follows

-----------------------------------------------------------------------------
\* What follows for the properties.

\* A step is dispatched after the success of the steps before it.
LEMMA EarlierSucceeded ==
    ASSUME NEW solo, RunInv(solo)
    PROVE  StopsAtFirstFailure
<1>n. N \in Nat /\ MaxSteps = N + 1
    BY WorkflowAssumption DEF N
<1>0. /\ snap \in Snapshot /\ snap.history \in Seq(Message) /\ StepRows
      /\ dispatches \in [Fingerprint -> Nat]
      /\ Told(snap.history, snap.step) /\ AllPaidFor
    BY DEF RunInv, SoloInv, HistoryInv, IInv, TypeInv, TypeOK, Snapshot
<1> SUFFICES ASSUME NEW k \in 1 .. N, NEW j \in 1 .. N,
                    dispatches[<<k, 1>>] > 0, j < k
             PROVE  \E i \in DOMAIN snap.history :
                       /\ snap.history[i].role = "tool" /\ snap.history[i].step = j
                       /\ ~snap.history[i].error
    BY DEF StopsAtFirstFailure
<1>1. <<k, 1>> \in Fingerprint
    BY <1>n, BoundsAssumption DEF Fingerprint
<1>2. Present(<<k, 1>>)
    BY <1>0, <1>1 DEF AllPaidFor, PaidFor, Unstarted, Present
<1>3. k <= snap.step /\ snap.step \in Nat
    BY <1>0, <1>1, <1>2, <1>n DEF StepRows, Snapshot
<1>4. 2 * (j + 1) - 1 <= Len(snap.history) /\ 2 * j <= Len(snap.history)
    BY <1>3, <1>0 DEF Told
<1>5. snap.history[2 * j].role = "tool" /\ snap.history[2 * j].step = j
    BY <1>4, <1>0 DEF Told
<1>6. ~snap.history[2 * j].error
    <2>1. j + 1 \in 1 .. N + 1 /\ 2 * (j + 1) - 2 = 2 * j /\ j + 1 > 1
        BY <1>n
    <2>2. ~snap.history[2 * (j + 1) - 2].error
        BY <2>1, <1>4, <1>0 DEF Told
    <2> QED BY <2>1, <2>2
<1>7. 2 * j \in DOMAIN snap.history
    BY <1>4, <1>0
<1> QED BY <1>5, <1>6, <1>7

\* Whatever _assert_run compares, but keys and inputs, agrees.
LEMMA Loadable ==
    ASSUME NEW solo, RunInv(solo)
    PROVE  RunStaysLoadable
<1>n. N \in Nat /\ MaxSteps = N + 1
    BY WorkflowAssumption DEF N
<1>0. /\ snap \in Snapshot /\ snap.history \in Seq(Message) /\ StepRows
      /\ snap.step \in 0 .. N + 1 /\ AnsweredExactlyOnce /\ TypeOK
      /\ Told(snap.history, snap.step) /\ Finished(snap)
    BY <1>n DEF RunInv, SoloInv, HistoryInv, IInv, TypeInv, TypeOK, Snapshot
<1> DEFINE hist == snap.history
<1> SUFFICES ASSUME NEW h \in Harnesses,
                    \A k \in 1 .. N :
                        Present(<<k, 1>>) => calls[<<k, 1>>].key = Wrapper(h, k).key,
                    Resolves(hist)
             PROVE  AssertRun(h)
    BY DEF RunStaysLoadable
<1>1. Replays(hist)
    BY <1>n, <1>0, ToldReplays
<1>2. Replayed(hist) = IF snap.step > N THEN N ELSE snap.step
    BY <1>n, <1>0, StepsReplayed
<1>3. /\ Len(hist) \in Nat /\ Len(hist) <= 2 * N + 1
      /\ Len(hist) = 2 * snap.step \/ Len(hist) = 2 * snap.step - 1
    BY <1>0 DEF Told
<1>4. snap.step = ExpectedStep(hist)
    BY <1>n, <1>0, <1>2, <1>3 DEF ExpectedStep, HasFinal
<1>5. snap.status = "completed" => HasFinal(hist)
    BY <1>0 DEF Finished, HasFinal
<1>6. ASSUME NEW k \in 1 .. N, k > Replayed(hist)
      PROVE  CallsOf(k) = {}
    <2>1. \A o \in 1 .. MaxCalls : <<k, o>> \in Fingerprint
        BY <1>n DEF Fingerprint
    <2>2. ~(k <= snap.step)
        BY <1>6, <1>n, <1>0, <1>2
    <2> QED BY <2>1, <2>2, <1>0 DEF StepRows, CallsOf
<1>7. ASSUME NEW k \in 1 .. N, ~(k > Replayed(hist))
      PROVE  /\ CallsOf(k) = {1} /\ CallBound(h, k)
             /\ Answered(hist, k) <=> calls[<<k, 1>>].status = "result"
    <2>1. \A o \in 1 .. MaxCalls : <<k, o>> \in Fingerprint
        BY <1>n DEF Fingerprint
    <2>2. k <= snap.step /\ 1 \in 1 .. MaxCalls
        BY <1>7, <1>n, <1>0, <1>2, BoundsAssumption
    <2>3. Present(<<k, 1>>) /\ RowOf(calls[<<k, 1>>], k)
        BY <2>1, <2>2, <1>0 DEF StepRows
    <2>4. CallsOf(k) = {1}
        BY <2>1, <2>2, <2>3, <1>0 DEF StepRows, CallsOf
    <2>5. CallBound(h, k)
        <3>1. catalog[h] \in Catalogs
            BY <1>0 DEF TypeOK
        <3>2. calls[<<k, 1>>].effect = Wrapper(h, k).effect
              /\ calls[<<k, 1>>].revision = Wrapper(h, k).revision
            BY <2>3, <3>1 DEF RowOf, Wrapper
        <3>3. calls[<<k, 1>>].key = Wrapper(h, k).key
            BY <2>3
        <3> QED BY <2>3, <3>2, <3>3 DEF CallBound, RowOf
    <2>6. Answered(hist, k) <=> calls[<<k, 1>>].status = "result"
        <3>1. 2 * k <= Len(hist) <=> calls[<<k, 1>>].status = "result"
            BY <1>n, <1>0, AnsweredCalls
        <3> QED BY <3>1, <1>3 DEF Answered
    <2> QED BY <2>4, <2>5, <2>6
<1> QED BY <1>1, <1>4, <1>5, <1>6, <1>7 DEF AssertRun

\* The invariant of a workflow.
THEOREM RunInductive ==
    ASSUME NEW solo, Harnesses = {solo}
    PROVE  RunSpec => []RunInv(solo)
BY RunInvInit, RunInvStep, PTL DEF RunSpec

\* No step of a workflow is dispatched unless every step before it has
\* succeeded (complete() raises after a failure and serves one step at a time).
THEOREM WorkflowStops == RunSpec => []StopsAtFirstFailure
<1> PICK solo \in Harnesses : Harnesses = {solo}
    BY WorkflowAssumption
<1>1. RunInv(solo) => StopsAtFirstFailure
    BY EarlierSucceeded
<1> QED BY <1>1, RunInductive, PTL

\* _assert_run accepts every run the workflow leaves, unless a key changed or
\* the next step lacks its input.
THEOREM WorkflowLoads == RunSpec => []RunStaysLoadable
<1> PICK solo \in Harnesses : Harnesses = {solo}
    BY WorkflowAssumption
<1>1. RunInv(solo) => RunStaysLoadable
    BY Loadable
<1> QED BY <1>1, RunInductive, PTL

-----------------------------------------------------------------------------
\* What a call may be while its run has stopped or is paused.

Fits(c, status) ==
    /\ c.status = "effect_unknown" => c.effect # "read_only"
    /\ c.status \notin {"absent", "result"} =>
          /\ status # "failed"
          /\ status = "paused_recovery" => c.status = "dispatching" /\ c.effect = "idempotent"
          /\ status = "awaiting_resume" =>
                c.status \in {"approved", "denied"} /\ c.effect # "read_only"

Halted == \A fp \in Fingerprint : Fits(calls[fp], snap.status)

\* A step that moves no call.
LEMMA HaltedStays ==
    ASSUME Halted, UNCHANGED calls,
           \/ snap'.status = snap.status
           \/ snap'.status \notin {"failed", "paused_recovery", "awaiting_resume"}
           \/ snap.status \in Quiescent /\ StatusOfCalls
    PROVE  Halted'
BY DEF Halted, Fits, StatusOfCalls

\* The open call of a workflow is the one of its current step.
LEMMA OpenCall ==
    ASSUME NEW solo, RunInv(solo), NEW fp \in Fingerprint,
           calls[fp].status \notin {"absent", "result"}
    PROVE  /\ fp = <<snap.step, 1>> /\ snap.step \in 1 .. N /\ RowOf(calls[fp], snap.step)
           /\ \A g \in Fingerprint \ {fp} : calls[g].status \in {"absent", "result"}
<1>n. N \in Nat /\ MaxSteps = N + 1
    BY WorkflowAssumption DEF N
<1>0. snap.step \in 0 .. N + 1 /\ StepRows /\ OnlyThisStepOpen
    BY <1>n DEF RunInv, SoloInv, HistoryInv, IInv, TypeInv, TypeOK, Snapshot
<1>1. ASSUME NEW g \in Fingerprint, calls[g].status \notin {"absent", "result"}
      PROVE  g = <<snap.step, 1>> /\ snap.step \in 1 .. N /\ RowOf(calls[g], g[1])
    <2>1. g[1] = snap.step
        BY <1>0, <1>1, <1>n DEF OnlyThisStepOpen, Fingerprint
    <2>2. g[2] = 1 /\ g[1] <= N /\ RowOf(calls[g], g[1])
        BY <1>0, <1>1 DEF StepRows, Present
    <2> QED BY <2>1, <2>2, <1>n DEF Fingerprint
<1> QED BY <1>1

\* A step that moves the open call.
LEMMA HaltedMoves ==
    ASSUME NEW solo, RunInv(solo), NEW fp \in Fingerprint, NEW st,
           calls[fp].status \notin {"absent", "result"}, SetCall(fp, st),
           st = "effect_unknown" => calls[fp].effect # "read_only",
           snap'.status # "failed",
           snap'.status # "paused_recovery",
           snap'.status = "awaiting_resume" =>
              \/ st = "result"
              \/ st \in {"approved", "denied"} /\ calls[fp].effect # "read_only"
    PROVE  Halted'
<1>1. /\ calls'[fp].status = st /\ calls'[fp].effect = calls[fp].effect
      /\ \A g \in Fingerprint \ {fp} : calls'[g] = calls[g]
    BY SetCallEffect DEF RunInv, SoloInv, HistoryInv, IInv, TypeInv
<1>2. \A g \in Fingerprint \ {fp} : calls[g].status \in {"absent", "result"}
    BY OpenCall
<1>3. ASSUME NEW g \in Fingerprint PROVE Fits(calls'[g], snap'.status)
    <2>1. CASE g = fp
        BY <2>1, <1>1 DEF Fits
    <2>2. CASE g # fp
        BY <2>2, <1>1, <1>2 DEF Fits
    <2> QED BY <2>1, <2>2
<1> QED BY <1>3 DEF Halted

\* Every other step of the loop leaves calls that fit: one step per action.
LEMMA HaltedOther ==
    ASSUME NEW solo, Harnesses = {solo}, RunInv(solo), Halted, OtherStep
    PROVE  Halted'
<1>0. /\ snap \in Snapshot /\ TypeInv /\ TypeOK /\ IInv /\ StatusOfCalls
      /\ drive \in [Harnesses -> Drive] /\ StepRows
    BY DEF RunInv, SoloInv, HistoryInv, IInv, TypeInv, TypeOK
<1>p. \A fp \in Fingerprint :
         PaidFor(calls[fp], approvals[fp], dispatches[fp], retries[fp])
    BY <1>0 DEF IInv, AllPaidFor
\* A drive at the model belongs to a run that waits for its reply.
<1>w. ASSUME NEW h \in Harnesses, drive[h].at = "model"
      PROVE  drive[h].held = snap /\ snap.status = "ready_model"
    <2>1. drive[h].held = snap /\ InPlace(h)
        BY <1>w, <1>0, AtModel DEF IInv
    <2> QED BY <1>w, <2>1 DEF InPlace, Fresh
<1>1. ASSUME NEW h \in Harnesses,
             \/ Resume(h) \/ LeaveLoop(h) \/ Rejected(h) \/ Crash(h) \/ CancelElsewhere(h)
             \/ \E o \in 1 .. MaxCalls : AwaitDecision(h, o)
             \/ \E returned \in BOOLEAN : HandlerEnds(h, returned)
             \/ \E cat \in Catalogs : Redeploy(h, cat)
      PROVE  Halted'
    <2>1. UNCHANGED <<snap, calls>>
        BY <1>1 DEF Resume, LeaveLoop, Rejected, Crash, CancelElsewhere, AwaitDecision,
                    HandlerEnds, Redeploy, store
    <2> QED BY <2>1, HaltedStays
<1>2. ASSUME NEW h \in Harnesses,
             CommitFinal(h) \/ FinishReply(h) \/ StartModel(h)
      PROVE  Halted'
    <2>1. snap'.status \in {"completed", "ready_model"} /\ UNCHANGED calls
        <3>1. CASE CommitFinal(h)
            BY <3>1, <1>0, StatusFacts, CommitStatus DEF CommitFinal
        <3>2. CASE FinishReply(h)
            BY <3>2, <1>0, StatusFacts, CommitStatus DEF FinishReply
        <3>3. CASE StartModel(h)
            BY <3>3, <1>0, CommitType DEF StartModel
        <3> QED BY <1>2, <3>1, <3>2, <3>3
    <2> QED BY <2>1, HaltedStays
<1>3. ASSUME NEW h \in Harnesses, Start(h)
      PROVE  Halted'
    <2>1. snap' = [[NoRun EXCEPT !.status = "ready_model"]
                     EXCEPT !.revision = snap.revision + 1]
        BY <1>3 DEF Start, Commit
    <2>2. snap'.status = "ready_model" /\ UNCHANGED calls
        BY <1>3, <2>1 DEF NoRun, Start
    <2> QED BY <2>2, HaltedStays
<1>4. ASSUME NEW h \in Harnesses,
             \/ ExceedMaxSteps(h) \/ FailModel(h)
             \/ \E reply \in Replies : FailDuplicate(h, reply)
      PROVE  Halted'
    <2>1. snap.status = "ready_model" /\ UNCHANGED calls
        BY <1>4, <1>w DEF ExceedMaxSteps, FailModel, FailDuplicate
    <2> QED BY <2>1, <1>0, HaltedStays DEF Quiescent
<1>5. ASSUME NEW h \in Harnesses, CommitCancelled(h)
      PROVE  Halted'
    <2>1. UNCHANGED calls /\ snap'.status \in {snap.status, "cancelled"}
        BY <1>5, <1>0, StatusFacts, CommitStatus DEF CommitCancelled
    <2> QED BY <2>1, HaltedStays
<1>6. ASSUME NEW h \in Harnesses, NEW o \in 1 .. MaxCalls, RequestCall(h, o)
      PROVE  Halted'
    <2> DEFINE fp == <<snap.step, o>>
    <2>1. fp \in Fingerprint
        BY <1>6, <1>0, ProcessedCall DEF RequestCall
    <2>2. /\ snap'.status = snap.status /\ snap.status \in Working
          /\ calls[fp].status = "pending" /\ SetCall(fp, "requested")
        BY <1>6, <1>0, CommitType DEF RequestCall
    <2>3. snap'.status = "processing_reply"
        BY <2>1, <2>2 DEF Halted, Fits, Working
    <2> QED BY <2>1, <2>2, <2>3, HaltedMoves
<1>7. ASSUME NEW h \in Harnesses, NEW o \in 1 .. MaxCalls,
             RefuseCall(h, o) \/ RequestApproval(h, o) \/ DispatchCall(h, o)
      PROVE  Halted'
    <2> DEFINE fp == <<snap.step, o>>
    <2>1. fp \in Fingerprint
          /\ calls[fp].status \in {"requested", "approved", "denied", "dispatching"}
        BY <1>7, <1>0, ProcessedStatus DEF RefuseCall, RequestApproval, DispatchCall
    <2>2. PICK st \in {"result", "awaiting_approval", "dispatching"} : SetCall(fp, st)
        BY <1>7 DEF RefuseCall, RequestApproval, DispatchCall
    <2>3. snap'.status \in {"processing_reply", "awaiting_approval"}
        <3>1. CASE RefuseCall(h, o)
            BY <3>1, <2>1, <1>0, AnswerType, StatusFacts, CommitExtend DEF RefuseCall
        <3>2. CASE RequestApproval(h, o)
            BY <3>2, <1>0, StatusFacts, CommitStatus DEF RequestApproval
        <3>3. CASE DispatchCall(h, o)
            BY <3>3, <1>0, StatusFacts, CommitStatus DEF DispatchCall
        <3> QED BY <1>7, <3>1, <3>2, <3>3
    <2> HIDE DEF fp
    <2> QED BY <2>1, <2>2, <2>3, HaltedMoves
<1>8. ASSUME NEW h \in Harnesses, NEW o \in 1 .. MaxCalls, MarkEffectUnknown(h, o)
      PROVE  Halted'
    <2> DEFINE fp == <<snap.step, o>>
    <2>1. fp \in Fingerprint
          /\ calls[fp].status \in {"requested", "approved", "denied", "dispatching"}
        BY <1>8, <1>0, ProcessedStatus DEF MarkEffectUnknown
    <2>2. snap'.status = "effect_unknown" /\ SetCall(fp, "effect_unknown")
        BY <1>8, <1>0, StatusFacts, CommitStatus DEF MarkEffectUnknown
    <2>3. calls[fp].effect # "read_only"
        <3>1. RowOf(calls[fp], snap.step)
            BY <2>1, OpenCall
        <3>2. catalog[h] \in Catalogs
            BY <1>0 DEF TypeOK
        <3>3. ContractChanged(calls[fp], catalog[h][calls[fp].name]) \/ InDoubt(calls[fp])
            BY <1>8 DEF MarkEffectUnknown, Verdict
        <3>4. /\ catalog[h][calls[fp].name].effect = calls[fp].effect
              /\ catalog[h][calls[fp].name].revision = calls[fp].revision
            BY <3>1, <3>2 DEF RowOf
        <3> QED BY <3>3, <3>4 DEF ContractChanged, InDoubt
    <2> HIDE DEF fp
    <2> QED BY <2>1, <2>2, <2>3, HaltedMoves
<1>9. ASSUME NEW h \in Harnesses, CommitResult(h)
      PROVE  Halted'
    <2> DEFINE fp == HeldCall(h)
               failed == ~drive[h].returned
               m == Answer(fp, failed)
    <2>1. fp \in Fingerprint /\ drive[h].held = snap /\ calls[fp].status = "dispatching"
          /\ snap.status = "processing_reply"
        BY <1>9, <1>0, ExecutedStatus DEF CommitResult
    <2>2. failed \in BOOLEAN
        BY Zenon
    <2>3. Commit(Extend(snap, snap.status, m)) /\ SetCall(fp, "result")
        BY <1>9, <2>1 DEF CommitResult
    <2> HIDE DEF failed
    <2>4. m \in Message
        BY <2>1, <2>2, AnswerType
    <2> HIDE DEF m
    <2>5. snap'.status = "processing_reply"
        BY <2>1, <2>3, <2>4, <1>0, CommitExtendSame
    <2> HIDE DEF fp
    <2> QED BY <2>1, <2>3, <2>5, HaltedMoves
<1>10. ASSUME NEW h \in Harnesses, PauseUnknown(h)
      PROVE  Halted'
    <2> DEFINE fp == HeldCall(h)
    <2>1. fp \in Fingerprint /\ drive[h].held = snap /\ calls[fp].status = "dispatching"
        BY <1>10, <1>0, ExecutedStatus DEF PauseUnknown
    <2>2. CASE calls[fp].effect = "idempotent"
        <3>1. snap'.status = "paused_recovery" /\ UNCHANGED calls
            BY <1>10, <2>1, <2>2, <1>0, StatusFacts, CommitStatus DEF PauseUnknown
        <3> HIDE DEF fp
        <3>2. \A g \in Fingerprint \ {fp} : calls[g].status \in {"absent", "result"}
            BY <2>1, OpenCall
        <3>3. ASSUME NEW g \in Fingerprint PROVE Fits(calls[g], "paused_recovery")
            BY <2>1, <2>2, <3>2 DEF Fits
        <3> QED BY <3>1, <3>3 DEF Halted
    <2>3. CASE calls[fp].effect # "idempotent"
        <3>1. /\ snap'.status = "effect_unknown" /\ SetCall(fp, "effect_unknown")
              /\ calls[fp].effect # "read_only"
            BY <1>10, <2>1, <2>3, <1>0, StatusFacts, CommitStatus DEF PauseUnknown
        <3> HIDE DEF fp
        <3> QED BY <2>1, <3>1, HaltedMoves
    <2> QED BY <2>2, <2>3
<1>11. ASSUME NEW h \in Harnesses, CancelHandler(h)
      PROVE  Halted'
    <2> DEFINE fp == HeldCall(h)
    <2>1. CASE Fresh(drive[h].held)
        <3>1. fp \in Fingerprint /\ drive[h].held = snap
              /\ calls[fp].status = "dispatching"
            BY <1>11, <2>1, <1>0, ExecutedStatus DEF CancelHandler
        <3>2. /\ snap'.status = "effect_unknown" /\ SetCall(fp, "effect_unknown")
              /\ calls[fp].effect # "read_only"
            BY <1>11, <2>1, <3>1, <1>0, StatusFacts, CommitStatus DEF CancelHandler
        <3> HIDE DEF fp
        <3> QED BY <3>1, <3>2, HaltedMoves
    <2>2. CASE ~Fresh(drive[h].held)
        <3>1. UNCHANGED <<snap, calls>>
            BY <1>11, <2>2 DEF CancelHandler
        <3> QED BY <3>1, HaltedStays
    <2> QED BY <2>1, <2>2
<1>12. ASSUME NEW fp \in Fingerprint, NEW answer \in BOOLEAN, ResolveApproval(fp, answer)
      PROVE  Halted'
    <2>1. calls[fp].status = "awaiting_approval" /\ calls[fp].effect # "read_only"
        BY <1>12, <1>p
           DEF ResolveApproval, PaidFor, RunInv, SoloInv, HistoryInv, OnlyMutationsAreAsked
    <2>2. PICK st \in {"approved", "denied"} : SetCall(fp, st)
        BY <1>12 DEF ResolveApproval
    <2>3. snap'.status = "awaiting_resume"
        BY <1>12, <1>0, StatusFacts, CommitStatus DEF ResolveApproval
    <2> QED BY <2>1, <2>2, <2>3, HaltedMoves
<1>13. ASSUME NEW fp \in Fingerprint, NEW failed \in BOOLEAN, SettleEffect(fp, failed)
      PROVE  Halted'
    <2> DEFINE status == IF snap.status = "cancelled" THEN "cancelled" ELSE "awaiting_resume"
    <2>1. calls[fp].status = "effect_unknown"
          /\ status \in {"cancelled", "awaiting_resume"}
        BY <1>13 DEF SettleEffect, Reconcilable
    <2>2. Answer(fp, failed) \in Message
        BY AnswerType
    <2>3. Commit(Extend(snap, status, Answer(fp, failed))) /\ SetCall(fp, "result")
        BY <1>13 DEF SettleEffect
    <2> HIDE DEF status
    <2>4. snap'.status = status
        BY <2>1, <2>2, <2>3, <1>0, StatusFacts, CommitExtend
    <2> QED BY <2>1, <2>3, <2>4, HaltedMoves
<1>14. ASSUME NEW fp \in Fingerprint, RetryEffect(fp)
      PROVE  Halted'
    <2>1. calls[fp].status = "effect_unknown" /\ SetCall(fp, "approved")
          /\ calls[fp].effect # "read_only"
        BY <1>14 DEF RetryEffect, Reconcilable, Halted, Fits
    <2>2. snap'.status = "awaiting_resume"
        BY <1>14, <1>0, StatusFacts, CommitStatus DEF RetryEffect
    <2> QED BY <2>1, <2>2, HaltedMoves
<1>15. CASE UNCHANGED vars
    <2>1. UNCHANGED <<snap, calls>>
        BY <1>15 DEF vars
    <2> QED BY <2>1, HaltedStays
<1> QED
    BY <1>1, <1>2, <1>3, <1>4, <1>5, <1>6, <1>7, <1>8, <1>9, <1>10, <1>11,
       <1>12, <1>13, <1>14, <1>15
    DEF OtherStep, Fault, Operator

\* Every step of the workflow leaves calls that fit.
LEMMA HaltedStep ==
    ASSUME NEW solo, Harnesses = {solo}
    PROVE  RunInv(solo) /\ Halted /\ [RunNext]_<<vars, missing>> => Halted'
<1> SUFFICES ASSUME RunInv(solo), Halted, [RunNext]_<<vars, missing>> PROVE Halted'
    OBVIOUS
<1>1. CASE OtherStep
    BY <1>1, HaltedOther
<1>2. ASSUME NEW h \in Harnesses, CanReply(drive[h].held.history),
             AcceptReply(h, ReplyTo(drive[h].held.history))
      PROVE  Halted'
    <2>1. /\ drive[h].held = snap /\ snap.history \in Seq(Message)
          /\ snap.step \in 0 .. N + 1 /\ Told(snap.history, snap.step)
        BY <1>2, AtModel DEF AcceptReply
    <2>2. snap.step \in 0 .. N /\ Replayed(snap.history) = snap.step
        BY <1>2, <2>1, ReplyFollows
    <2>3. ReplyTo(drive[h].held.history) \in Replies
        BY <2>1, <2>2, ReplyIsOne
    <2>4. ReplyAccepted
        BY <1>2, <2>3, ReplyShape DEF RunInv, SoloInv
    <2>5. ASSUME NEW fp \in Fingerprint PROVE Fits(calls'[fp], snap'.status)
        <3>1. snap'.status \in {"pending_final", "processing_reply"}
            BY <2>4 DEF ReplyAccepted
        <3>2. calls'[fp] = calls[fp] \/ calls'[fp].status = "pending"
            BY <2>4 DEF ReplyAccepted
        <3> QED BY <3>1, <3>2 DEF Halted, Fits
    <2> QED BY <2>5 DEF Halted
<1> QED BY <1>1, <1>2, RunIsLoop

-----------------------------------------------------------------------------
\* The public view.

\* The steps before the current one have completed, those after it do not exist.
LEMMA StepsAround ==
    ASSUME NEW solo, RunInv(solo), NEW k \in 1 .. N
    PROVE  /\ k < snap.step => StepStatus(k) = "completed"
           /\ k > snap.step =>
                 StepStatus(k) = IF snap.status \in Terminal THEN "stopped" ELSE "pending"
<1>n. N \in Nat /\ MaxSteps = N + 1
    BY WorkflowAssumption DEF N
<1>0. /\ snap \in Snapshot /\ snap.history \in Seq(Message) /\ StepRows
      /\ snap.step \in 0 .. N + 1 /\ AnsweredExactlyOnce
      /\ Told(snap.history, snap.step)
    BY <1>n DEF RunInv, SoloInv, HistoryInv, IInv, TypeInv, TypeOK, Snapshot
<1>1. <<k, 1>> \in Fingerprint
    BY <1>n, BoundsAssumption DEF Fingerprint
<1>2. ASSUME k < snap.step
      PROVE  StepStatus(k) = "completed"
    <2>1. 2 * (k + 1) - 1 <= Len(snap.history) /\ 2 * k <= Len(snap.history)
        BY <1>2, <1>0 DEF Told
    <2>2. calls[<<k, 1>>].status = "result"
        BY <2>1, <1>n, <1>0, AnsweredCalls
    <2>3. ~Failed(snap.history, k)
        <3>1. k + 1 \in 1 .. N + 1 /\ 2 * (k + 1) - 2 = 2 * k /\ k + 1 > 1
            BY <1>n
        <3>2. ~snap.history[2 * (k + 1) - 2].error
            BY <3>1, <2>1, <1>0 DEF Told
        <3> QED BY <3>1, <3>2 DEF Failed
    <2> QED BY <2>2, <2>3 DEF StepStatus, Present
<1>3. ASSUME k > snap.step
      PROVE  StepStatus(k) = IF snap.status \in Terminal THEN "stopped" ELSE "pending"
    <2>1. ~Present(<<k, 1>>)
        BY <1>0, <1>1, <1>3 DEF StepRows
    <2> QED BY <2>1 DEF StepStatus
<1> QED BY <1>2, <1>3

\* The call of the current step exists, and says what its step shows.
LEMMA StepHere ==
    ASSUME NEW solo, RunInv(solo), Halted, snap.step \in 1 .. N
    PROVE  LET c == calls[<<snap.step, 1>>]
               shown == StepStatus(snap.step)
           IN  /\ <<snap.step, 1>> \in Fingerprint
               /\ c.status # "absent" /\ Fits(c, snap.status)
               /\ c.status = "result" => shown \in {"completed", "failed"}
               /\ c.status = "effect_unknown" => shown = "effect_unknown"
               /\ c.status \notin {"result", "effect_unknown"} =>
                     /\ snap.status \in Terminal => shown = "stopped"
                     /\ snap.status \notin Terminal /\ PauseReason # "none" =>
                           shown = PauseReason
<1>n. N \in Nat /\ MaxSteps = N + 1
    BY WorkflowAssumption DEF N
<1>1. <<snap.step, 1>> \in Fingerprint
    BY <1>n, BoundsAssumption DEF Fingerprint
<1>2. Present(<<snap.step, 1>>)
    BY <1>1 DEF RunInv, StepRows
<1>3. Fits(calls[<<snap.step, 1>>], snap.status)
    BY <1>1 DEF Halted
<1> QED BY <1>1, <1>2, <1>3 DEF StepStatus, Present

\* The open call of the current step is the one pending in the view.
LEMMA PendingHere ==
    ASSUME NEW solo, RunInv(solo), NEW fp \in PendingCalls
    PROVE  /\ fp = <<snap.step, 1>> /\ snap.step \in 1 .. N
           /\ calls[fp].status \notin {"absent", "result"}
<1>1. fp \in Fingerprint /\ fp[1] = snap.step /\ FirstOpen(snap.step, fp[2])
    BY DEF PendingCalls
<1>2. fp = <<snap.step, fp[2]>>
    BY <1>1 DEF Fingerprint
<1>3. calls[fp].status \notin {"absent", "result"}
    BY <1>1, <1>2 DEF FirstOpen
<1> QED BY <1>1, <1>3, OpenCall

\* An open call of the current step is pending.
LEMMA OpenIsPending ==
    ASSUME NEW solo, RunInv(solo), NEW fp \in Fingerprint,
           calls[fp].status \notin {"absent", "result"}
    PROVE  PendingCalls = {fp} /\ fp = <<snap.step, 1>> /\ snap.step \in 1 .. N
<1>1. fp = <<snap.step, 1>> /\ snap.step \in 1 .. N
    BY OpenCall
<1>2. fp \in PendingCalls
    BY <1>1 DEF PendingCalls, FirstOpen
<1>3. \A g \in PendingCalls : g = fp
    BY <1>1, PendingHere
<1> QED BY <1>1, <1>2, <1>3

\* A run that has ended or waits is shown, and its steps agree with it.
LEMMA SettledIsShown ==
    ASSUME NEW solo, RunInv(solo), Halted, Settled
    PROVE  StepsAllowed /\ Consistent
<1>n. N \in Nat /\ MaxSteps = N + 1
    BY WorkflowAssumption DEF N
<1> DEFINE p == snap.step
           cur == <<p, 1>>
<1>0. /\ p \in 0 .. N + 1 /\ Told(snap.history, p) /\ Finished(snap) /\ StepRows
      /\ PausesAreResolvable /\ StatusOfCalls /\ OnlyMutationsAreAsked /\ TypeOK
      /\ snap \in Snapshot
    BY <1>n DEF RunInv, SoloInv, HistoryInv, IInv, TypeInv, TypeOK, Snapshot
<1> DEFINE rest == IF snap.status \in Terminal THEN "stopped" ELSE "pending"
<1>1. \A k \in 1 .. N : /\ k < p => StepStatus(k) = "completed"
                        /\ k > p => StepStatus(k) = rest
    BY StepsAround
<1> HIDE DEF rest
<1>2. ASSUME NEW here, p \in 1 .. N => StepStatus(p) \in here
      PROVE  Around(p, here, rest)
    BY <1>1, <1>2 DEF Around
\* Which statuses a step may show depends on the current step only.
<1>a. ASSUME p \in 1 .. N =>
                /\ StepStatus(p) \in {"approval_required", "resume_required", "effect_unknown"}
                      => calls[cur].effect # "read_only"
                /\ StepStatus(p) = "retryable_idempotent" => calls[cur].effect = "idempotent"
      PROVE  StepsAllowed
    <2> SUFFICES ASSUME NEW k \in 1 .. N
                 PROVE  /\ StepStatus(k) \in
                              {"approval_required", "resume_required", "effect_unknown"}
                              => calls[<<k, 1>>].effect # "read_only"
                        /\ StepStatus(k) = "retryable_idempotent"
                              => calls[<<k, 1>>].effect = "idempotent"
        BY DEF StepsAllowed
    <2>1. CASE k = p
        BY <2>1, <1>a
    <2>2. CASE k # p
        <3>1. StepStatus(k) \in {"completed", "stopped", "pending"}
            BY <2>2, <1>0, <1>1, <1>n DEF rest
        <3> QED BY <3>1
    <2> QED BY <2>1, <2>2
<1>3. CASE snap.status = "completed"
    <2>1. p = N + 1
        BY <1>3, <1>0, <1>n DEF Finished, Told
    <2>2. CoreState = "completed" /\ Pending = {}
        BY <1>3 DEF CoreState, Pending, Terminal
    <2>3. Around(p, {}, "completed")
        BY <2>1, <1>1, <1>n DEF Around
    <2>4. Consistent
        BY <2>1, <2>2, <2>3 DEF Consistent
    <2>5. StepsAllowed
        BY <2>1, <1>a, <1>n
    <2> QED BY <2>4, <2>5
<1>4. CASE snap.status = "failed"
    <2>1. p \in 1 .. N => StepStatus(p) \in {"completed", "failed"}
        <3>1. CASE p \in 1 .. N
            BY <1>4, <3>1, StepHere DEF Fits
        <3> QED BY <3>1
    <2>2. Around(p, {"completed", "failed"}, rest) /\ rest = "stopped"
        BY <2>1, <1>2, <1>4 DEF rest, Terminal
    <2>3. CoreState = "failed"
        BY <1>4 DEF CoreState, Terminal
    <2>4. Consistent
        BY <2>2, <2>3, <1>0 DEF Consistent
    <2>5. StepsAllowed
        BY <2>1, <1>a
    <2> QED BY <2>4, <2>5
<1>5. CASE snap.status = "cancelled"
    <2>0. CoreState = "cancelled" /\ rest = "stopped"
        BY <1>5 DEF CoreState, Terminal, rest
    <2>1. CASE p \in 1 .. N /\ calls[cur].status = "effect_unknown"
        <3>1. StepStatus(p) = "effect_unknown" /\ calls[cur].effect # "read_only"
            BY <2>1, StepHere DEF Fits
        <3>2. cur \in Fingerprint
            BY <2>1, StepHere
        <3>3. PendingCalls = {cur}
            BY <3>2, <2>1, OpenIsPending
        <3>4. Pending = {cur}
            BY <3>3, <2>1, <1>5 DEF Pending
        <3>5. PauseReason = "effect_unknown"
            BY <3>4, <1>5 DEF PauseReason
        <3>6. Around(p, {"effect_unknown"}, "stopped")
            BY <3>1, <2>0, <1>2
        <3>7. PendingMatches(p)
            BY <3>4 DEF PendingMatches
        <3>8. Consistent
            BY <2>0, <2>1, <3>5, <3>6, <3>7 DEF Consistent
        <3>9. StepsAllowed
            BY <3>1, <1>a
        <3> QED BY <3>8, <3>9
    <2>2. CASE ~(p \in 1 .. N /\ calls[cur].status = "effect_unknown")
        <3>1. p \in 1 .. N => StepStatus(p) \in {"completed", "failed", "stopped"}
            <4>1. CASE p \in 1 .. N
                BY <4>1, <2>2, <1>5, StepHere DEF Terminal
            <4> QED BY <4>1
        <3>2. Pending = {}
            <4>1. \A fp \in PendingCalls : calls[fp].status # "effect_unknown"
                BY <2>2, PendingHere
            <4> QED BY <4>1, <1>5 DEF Pending
        <3>3. PauseReason = "none"
            BY <3>2, <1>5 DEF PauseReason
        <3>4. Around(p, {"completed", "failed", "stopped"}, "stopped")
            BY <3>1, <2>0, <1>2
        <3>5. Consistent
            BY <2>0, <3>3, <3>4, <1>0 DEF Consistent
        <3>6. StepsAllowed
            BY <3>1, <1>a
        <3> QED BY <3>5, <3>6
    <2> QED BY <2>1, <2>2
<1>6. CASE CoreState = "paused" /\ PendingCalls # {}
    <2>1. /\ snap.status \notin Terminal
          /\ snap.status \in {"awaiting_approval", "paused_recovery",
                              "effect_unknown", "awaiting_resume"}
        BY <1>6 DEF CoreState, Terminal
    <2>2. cur \in PendingCalls /\ p \in 1 .. N
          /\ calls[cur].status \notin {"absent", "result"}
        BY <1>6, PendingHere
    <2>3. /\ cur \in Fingerprint /\ Fits(calls[cur], snap.status)
          /\ calls[cur].status = "effect_unknown" => StepStatus(p) = "effect_unknown"
          /\ calls[cur].status # "effect_unknown" /\ PauseReason # "none" =>
                StepStatus(p) = PauseReason
        BY <2>1, <2>2, StepHere
    <2>4. Pending = PendingCalls
        BY <1>6, <2>1 DEF Pending, Terminal
    <2>5. ASSUME NEW o \in 1 .. MaxCalls,
                 calls[<<p, o>>].status \in {"awaiting_approval", "effect_unknown"}
          PROVE  <<p, o>> = cur
        <3>1. <<p, o>> \in Fingerprint
            BY <2>2, <1>n DEF Fingerprint
        <3> QED BY <3>1, <2>5, OpenCall
    <2>6. /\ StepStatus(p) = PauseReason
          /\ PauseReason \in {"approval_required", "resume_required", "effect_unknown"} =>
                calls[cur].effect # "read_only"
          /\ PauseReason = "retryable_idempotent" => calls[cur].effect = "idempotent"
        <3>1. CASE snap.status = "awaiting_approval"
            <4>1. calls[cur].status = "awaiting_approval"
                BY <3>1, <2>5, <1>0 DEF PausesAreResolvable
            <4>2. PauseReason = "approval_required"
                BY <3>1 DEF PauseReason
            <4> QED BY <4>1, <4>2, <2>3, <1>0 DEF OnlyMutationsAreAsked
        <3>2. CASE snap.status = "effect_unknown"
            <4>1. calls[cur].status = "effect_unknown"
                BY <3>2, <2>5, <1>0 DEF PausesAreResolvable
            <4>2. PauseReason = "effect_unknown"
                BY <3>2 DEF PauseReason
            <4> QED BY <4>1, <4>2, <2>3 DEF Fits
        <3>3. CASE snap.status = "paused_recovery"
            <4>1. calls[cur].status = "dispatching" /\ calls[cur].effect = "idempotent"
                BY <3>3, <2>2, <2>3 DEF Fits
            <4>2. PauseReason = "retryable_idempotent"
                BY <3>3 DEF PauseReason
            <4> QED BY <4>1, <4>2, <2>3
        <3>4. CASE snap.status = "awaiting_resume"
            <4>1. calls[cur].status \in {"approved", "denied"}
                  /\ calls[cur].effect # "read_only"
                BY <3>4, <2>2, <2>3 DEF Fits
            <4>2. PauseReason = "resume_required"
                BY <3>4 DEF PauseReason
            <4> QED BY <4>1, <4>2, <2>3
        <3> QED BY <2>1, <3>1, <3>2, <3>3, <3>4
    <2>7. Around(p, {PauseReason}, rest) /\ rest = "pending"
        BY <2>1, <2>6, <1>2 DEF rest
    <2>8. PendingMatches(p)
        BY <2>2, <2>4 DEF PendingMatches
    <2>9. Consistent
        BY <1>6, <2>2, <2>7, <2>8 DEF Consistent
    <2>10. StepsAllowed
        BY <2>6, <1>a
    <2> QED BY <2>9, <2>10
<1> QED BY <1>3, <1>4, <1>5, <1>6 DEF Settled, Terminal

\* Where a run has ended or waits with its call open, the composed view is
\* served: the validator of compose_run_projection finds the steps and the core
\* state in agreement.
THEOREM SettledRunsAreShown == RunSpec => []SettledRunIsProjected
<1> PICK solo \in Harnesses : Harnesses = {solo}
    BY WorkflowAssumption
<1>1. RunInit => Halted
    <2> SUFFICES ASSUME RunInit PROVE Halted
        OBVIOUS
    <2>1. \A fp \in Fingerprint : calls[fp].status = "absent"
        BY DEF RunInit, Init, NoCall
    <2> QED BY <2>1 DEF Halted, Fits
<1>2. RunInv(solo) /\ Halted /\ [RunNext]_<<vars, missing>> => Halted'
    BY HaltedStep
<1>3. RunInv(solo) /\ Halted => SettledRunIsProjected
    BY SettledIsShown DEF SettledRunIsProjected, Served
<1>4. RunSpec => []RunInv(solo)
    BY RunInductive
<1> QED BY <1>1, <1>2, <1>3, <1>4, PTL DEF RunSpec
=============================================================================
