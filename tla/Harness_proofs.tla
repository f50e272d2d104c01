--------------------------- MODULE Harness_proofs ---------------------------
(***************************************************************************)
(* Types and safety of Harness: what its drives hold across an await is    *)
(* well-formed; a side effect is dispatched once per permission, only      *)
(* after its approval, one call at a time; a paused run can be taken up by *)
(* an operator.  TLC's runs check these on small instances; here they are  *)
(* theorems for any number of Harness objects over one store, any tools,   *)
(* catalogs and bounds.                                                    *)
(*                                                                         *)
(* The second half: every step of Harness has one of three shapes.  It     *)
(* moves no call, it moves one call along a fixed table, or it accepts a   *)
(* reply.  From the shapes follow that the history answers each call once, *)
(* that the model is called with every answer in it, that no commit loses  *)
(* what an earlier one recorded, that calls are dispatched under the       *)
(* contract they were approved with, and that the loop implements          *)
(* CallContract.                                                           *)
(***************************************************************************)
EXTENDS Harness, TLAPS

\* What an interrupted drive holds makes sense: the call it works on has a
\* step and an ordinal, and a drive at the model has a step to spare.
DriveOK(d) ==
    /\ d.at \in {"requested", "handler", "drain"} => d.held.step >= 1 /\ d.ordinal >= 1
    /\ d.at = "model" => d.held.step < MaxSteps

HeldOK == \A h \in Harnesses : DriveOK(drive[h])

\* A held snapshot that would pass the compare-and-swap is the stored one.
Suspended == {"requested", "model", "handler", "drain"}

HoldsCurrent(d, s) ==
    /\ d.held.revision <= s.revision
    /\ d.at \in Suspended /\ d.held.revision = s.revision => d.held = s

HeldIsStored == \A h \in Harnesses : HoldsCurrent(drive[h], snap)

TypeInv == TypeOK /\ HeldOK /\ HeldIsStored

-----------------------------------------------------------------------------
\* Types of what the actions build.

\* A fingerprint is a step and an ordinal.
LEMMA FingerprintType ==
    ASSUME NEW step, NEW o
    PROVE  <<step, o>> \in Fingerprint <=> step \in 1 .. MaxSteps /\ o \in 1 .. MaxCalls
BY DEF Fingerprint

\* The records that stand for nothing.
LEMMA ConstantRecords ==
    /\ NoRun \in Snapshot /\ NoDrive \in Drive /\ AtLoop \in Drive
    /\ NoCall \in CallRecord
<1>1. NoRun \in Snapshot
    BY BoundsAssumption DEF NoRun, Snapshot, RunStatus
<1>2. NoDrive \in Drive
    BY <1>1, BoundsAssumption DEF NoDrive, Drive, Location
<1>3. AtLoop \in Drive
    BY <1>2 DEF AtLoop, Drive, Location
<1>4. NoCall \in CallRecord
    BY ValuesAssumption DEF NoCall, CallRecord, Effects, CallStatus
<1> QED BY <1>1, <1>2, <1>3, <1>4

\* What the snapshot is after a commit.
LEMMA CommitType ==
    ASSUME snap \in Snapshot, NEW updated \in Snapshot, Commit(updated)
    PROVE  /\ snap' \in Snapshot
           /\ snap' = [updated EXCEPT !.revision = snap.revision + 1]
           /\ snap'.revision = snap.revision + 1 /\ snap'.status = updated.status
           /\ snap'.step = updated.step /\ snap'.history = updated.history
BY DEF Commit, Snapshot

\* An answer is a message.
LEMMA AnswerType ==
    ASSUME NEW fp \in Fingerprint, NEW failed \in BOOLEAN
    PROVE  Answer(fp, failed) \in Message
BY DEF Answer, Message, Fingerprint

\* Changing the status of a call keeps the rows typed.
LEMMA CallType ==
    ASSUME calls \in [Fingerprint -> CallRecord], NEW fp, NEW status \in CallStatus,
           SetCall(fp, status)
    PROVE  calls' \in [Fingerprint -> CallRecord]
BY DEF SetCall, CallRecord

\* Moving one drive keeps the drives typed.
LEMMA DriveType ==
    ASSUME drive \in [Harnesses -> Drive], NEW h \in Harnesses,
           NEW d \in Drive, Goto(h, d)
    PROVE  drive' \in [Harnesses -> Drive]
BY DEF Goto

\* The record of a new call.
LEMMA NewCallType ==
    ASSUME catalog \in [Harnesses -> Catalogs], NEW h \in Harnesses, NEW r \in Request
    PROVE  NewCall(h, r) \in CallRecord /\ NewCall(h, r).status = "pending"
<1> DEFINE cat == catalog[h]
<1>1. cat \in [DOMAIN cat -> Contract]
    BY CatalogsAssumption
<1>2. r.name \in DOMAIN cat => cat[r.name] \in Contract
    BY <1>1
<1> HIDE DEF cat
<1> QED BY <1>2, ValuesAssumption
       DEF NewCall, Request, Contract, CallRecord, Effects, CallStatus, cat

\* The parts of a reply.
LEMMA ReplyType ==
    ASSUME NEW reply \in Replies, NEW i \in 1 .. Len(reply)
    PROVE  reply[i] \in Request /\ Len(reply) \in 0 .. MaxCalls
           /\ reply \in Seq(Requests)
BY ValuesAssumption, BoundsAssumption DEF Replies

\* A snapshot with another status.
LEMMA WithStatus ==
    ASSUME NEW s \in Snapshot, NEW status \in RunStatus
    PROVE  /\ [s EXCEPT !.status = status] \in Snapshot
           /\ [s EXCEPT !.status = status].status = status
           /\ [s EXCEPT !.status = status].step = s.step
           /\ [s EXCEPT !.status = status].history = s.history
BY DEF Snapshot

\* A snapshot with another step.
LEMMA WithStep ==
    ASSUME NEW s \in Snapshot, NEW step \in 0 .. MaxSteps
    PROVE  /\ [s EXCEPT !.step = step] \in Snapshot
           /\ [s EXCEPT !.step = step].step = step
           /\ [s EXCEPT !.step = step].history = s.history
BY DEF Snapshot

\* A snapshot with another status and one more message.
LEMMA ExtendType ==
    ASSUME NEW s \in Snapshot, NEW status \in RunStatus, NEW m \in Message
    PROVE  /\ Extend(s, status, m) \in Snapshot
           /\ Extend(s, status, m).status = status
           /\ Extend(s, status, m).step = s.step
           /\ Extend(s, status, m).history = Append(s.history, m)
<1> DEFINE hist == Append(s.history, m)
<1>0. hist \in Seq(Message)
    BY DEF Snapshot
<1>1. Extend(s, status, m) = [s EXCEPT !.status = status, !.history = hist]
    BY Zenon DEF Extend
<1> HIDE DEF hist
<1>2. LET t == [s EXCEPT !.status = status, !.history = hist]
      IN  t \in Snapshot /\ t.status = status /\ t.step = s.step /\ t.history = hist
    BY <1>0 DEF Snapshot
<1>3. /\ Extend(s, status, m) \in Snapshot /\ Extend(s, status, m).status = status
      /\ Extend(s, status, m).step = s.step /\ Extend(s, status, m).history = hist
    BY <1>1, <1>2
<1> QED BY <1>3 DEF hist

\* A snapshot with one more message.
LEMMA ExtendSameType ==
    ASSUME NEW s \in Snapshot, NEW m \in Message
    PROVE  Extend(s, s.status, m) \in Snapshot
<1>1. s.status \in RunStatus
    BY DEF Snapshot
<1> QED BY <1>1, ExtendType

\* A snapshot with another step, another status and one more message.
LEMMA ExtendStepType ==
    ASSUME NEW s \in Snapshot, NEW step \in 0 .. MaxSteps, NEW status \in RunStatus,
           NEW m \in Message
    PROVE  Extend([s EXCEPT !.step = step], status, m) \in Snapshot
<1> DEFINE t == [s EXCEPT !.step = step]
<1>1. t \in Snapshot
    BY WithStep
<1> HIDE DEF t
<1>2. Extend(t, status, m) \in Snapshot
    BY <1>1, ExtendType
<1> QED BY <1>2 DEF t

\* A drive that awaits or sits between two commits.
LEMMA SuspendType ==
    ASSUME NEW s \in Snapshot, NEW at \in Location, NEW o \in 0 .. MaxCalls
    PROVE  /\ Suspend(at, s, o) \in Drive /\ Suspend(at, s, o).held = s
           /\ Suspend(at, s, o).at = at /\ Suspend(at, s, o).ordinal = o
BY ConstantRecords DEF Drive, Suspend

\* A drive that unwinds a cancellation.
LEMMA CancellingType ==
    LET d == [NoDrive EXCEPT !.at = "cancelling"]
    IN  d \in Drive /\ DriveOK(d) /\ \A s \in Snapshot : HoldsCurrent(d, s)
<1> DEFINE d == [NoDrive EXCEPT !.at = "cancelling"]
<1>1. d \in Drive
    BY ConstantRecords DEF Drive, Location
<1>2. d.at = "cancelling" /\ d.held = NoRun
    BY DEF NoDrive
<1>3. DriveOK(d)
    BY <1>2 DEF DriveOK
<1> HIDE DEF d
<1>4. ASSUME NEW s \in Snapshot PROVE HoldsCurrent(d, s)
    BY <1>2 DEF HoldsCurrent, Suspended, NoRun, Snapshot
<1> QED BY <1>1, <1>3, <1>4 DEF d

\* A step of one drive that commits at most once.
LEMMA GotoType ==
    ASSUME TypeInv, NEW h \in Harnesses, NEW d \in Drive, DriveOK(d), Goto(h, d),
           snap' \in Snapshot, snap' = snap \/ snap'.revision = snap.revision + 1,
           HoldsCurrent(d, snap')
    PROVE  /\ drive' \in [Harnesses -> Drive] /\ HeldOK' /\ HeldIsStored'
           /\ drive'[h] = d /\ \A g \in Harnesses \ {h} : drive'[g] = drive[g]
<1>1. /\ drive' \in [Harnesses -> Drive]
      /\ drive'[h] = d /\ \A g \in Harnesses \ {h} : drive'[g] = drive[g]
    BY DEF Goto, TypeInv, TypeOK
<1>2. ASSUME NEW g \in Harnesses
      PROVE  DriveOK(drive[g])' /\ HoldsCurrent(drive[g], snap)'
    <2>1. CASE g = h BY <1>1, <2>1 DEF DriveOK, HoldsCurrent
    <2>2. CASE g # h
        <3>1. drive'[g] = drive[g] BY <1>1, <2>2
        <3>2. DriveOK(drive[g])' BY <3>1 DEF DriveOK, TypeInv, HeldOK
        <3>3. drive[g].held.revision \in Nat /\ snap.revision \in Nat
              /\ HoldsCurrent(drive[g], snap)
            BY DEF TypeInv, TypeOK, HeldIsStored, Drive, Snapshot
        <3> QED BY <3>1, <3>2, <3>3 DEF HoldsCurrent
    <2> QED BY <2>1, <2>2
<1> QED BY <1>1, <1>2 DEF HeldOK, HeldIsStored

\* A step no drive takes that commits at most once.
LEMMA StayType ==
    ASSUME TypeInv, UNCHANGED drive,
           snap' \in Snapshot, snap' = snap \/ snap'.revision = snap.revision + 1
    PROVE  drive' \in [Harnesses -> Drive] /\ HeldOK' /\ HeldIsStored'
<1>1. ASSUME NEW g \in Harnesses
      PROVE  DriveOK(drive[g])' /\ HoldsCurrent(drive[g], snap)'
    <2>1. drive'[g] = drive[g] OBVIOUS
    <2>2. DriveOK(drive[g])' BY <2>1 DEF DriveOK, TypeInv, HeldOK
    <2>3. drive[g].held.revision \in Nat /\ snap.revision \in Nat
          /\ HoldsCurrent(drive[g], snap)
        BY DEF TypeInv, TypeOK, HeldIsStored, Drive, Snapshot
    <2> QED BY <2>1, <2>2, <2>3 DEF HoldsCurrent
<1> QED BY <1>1 DEF HeldOK, HeldIsStored, TypeInv, TypeOK

\* A drive at rest holds nothing that could be wrong.
LEMMA RestOK == DriveOK(NoDrive) /\ DriveOK(AtLoop)
BY DEF DriveOK, NoDrive, AtLoop

\* A logged event is a terminal event.
LEMMA LogType ==
    ASSUME TypeOK,
           NEW event \in {"run.completed", "run.failed", "run.cancelled"}, Log(event)
    PROVE  terminals' \in Seq({"run.completed", "run.failed", "run.cancelled"})
BY DEF Log, TypeOK

\* A drive that rests holds nothing that could pass for current.
LEMMA RestIsCurrent ==
    ASSUME NEW s \in Snapshot
    PROVE  HoldsCurrent(NoDrive, s) /\ HoldsCurrent(AtLoop, s)
BY DEF HoldsCurrent, NoDrive, AtLoop, NoRun, Snapshot, Suspended

\* The call a drive is processing exists.
LEMMA ProcessedCall ==
    ASSUME TypeInv, NEW h \in Harnesses, NEW o \in 1 .. MaxCalls,
           FirstOpen(snap.step, o) \/ Processing(h, o)
    PROVE  <<snap.step, o>> \in Fingerprint
<1>1. snap.step \in 0 .. MaxSteps
    BY DEF TypeInv, TypeOK, Snapshot
<1>2. snap.step >= 1
    <2>1. CASE FirstOpen(snap.step, o) BY <2>1 DEF FirstOpen
    <2>2. CASE Processing(h, o) /\ drive[h].at = "requested"
        <3>1. drive[h].held = snap
            BY <2>2
               DEF Processing, TypeInv, HeldIsStored, HoldsCurrent, Suspended, Fresh
        <3> QED BY <2>2, <3>1 DEF TypeInv, HeldOK, DriveOK
    <2>3. CASE Processing(h, o) /\ drive[h].at # "requested"
        BY <2>3 DEF Processing, FirstOpen
    <2> QED BY <2>1, <2>2, <2>3
<1> QED BY <1>1, <1>2, BoundsAssumption DEF Fingerprint

\* The call a drive works on exists.
LEMMA HeldCallType ==
    ASSUME TypeInv, NEW h \in Harnesses, drive[h].at \in {"handler", "drain"}
    PROVE  HeldCall(h) \in Fingerprint
<1>1. drive[h] \in Drive /\ DriveOK(drive[h])
    BY DEF TypeInv, TypeOK, HeldOK
<1> QED BY <1>1, BoundsAssumption DEF HeldCall, Drive, Snapshot, DriveOK, Fingerprint

-----------------------------------------------------------------------------
\* Type correctness, with what drives hold.

\* The initial states are typed.
LEMMA TypeInit == Init => TypeInv
<1> SUFFICES ASSUME Init PROVE TypeInv
    OBVIOUS
<1>1. TypeOK
    BY ConstantRecords, BoundsAssumption DEF Init, TypeOK, Decision
<1>2. HeldOK /\ HeldIsStored
    BY RestOK DEF Init, HeldOK, HeldIsStored, HoldsCurrent, Suspended, NoDrive, NoRun
<1> QED BY <1>1, <1>2 DEF TypeInv

\* Every step keeps the state typed: one step per action of Next.
LEMMA TypeStep == TypeInv /\ [Next]_vars => TypeInv'
<1> SUFFICES ASSUME TypeInv, [Next]_vars PROVE TypeInv'
    OBVIOUS
<1> USE DEF RunStatus, CallStatus, Decision, Working, Terminal
<1>0. /\ snap \in Snapshot /\ snap.revision \in Nat /\ drive \in [Harnesses -> Drive]
      /\ calls \in [Fingerprint -> CallRecord]
      /\ approvals \in [Fingerprint -> Decision]
      /\ catalog \in [Harnesses -> Catalogs]
      /\ dispatches \in [Fingerprint -> Nat] /\ retries \in [Fingerprint -> Nat]
      /\ faults \in Nat /\ TypeOK
      /\ terminals \in Seq({"run.completed", "run.failed", "run.cancelled"})
    BY DEF TypeInv, TypeOK, Snapshot
<1>s. snap.status \in RunStatus /\ snap.step \in 0 .. MaxSteps
    BY DEF TypeInv, TypeOK, Snapshot
<1>00. \A h \in Harnesses : drive[h].held \in Snapshot /\ drive[h] \in Drive
          /\ DriveOK(drive[h])
    BY <1>0 DEF Drive, TypeInv, HeldOK
\* A current held snapshot is the stored one.
<1>h. ASSUME NEW h \in Harnesses, drive[h].at \in Suspended, Fresh(drive[h].held)
      PROVE  drive[h].held = snap
    BY <1>h DEF TypeInv, HeldIsStored, HoldsCurrent, Fresh
<1>1. ASSUME NEW h \in Harnesses, Start(h)
      PROVE  TypeInv'
    <2>1. [NoRun EXCEPT !.status = "ready_model"] \in Snapshot
        BY ConstantRecords, WithStatus
    <2>2. snap' \in Snapshot /\ snap'.revision = snap.revision + 1
        BY <1>1, <2>1, <1>0, CommitType DEF Start
    <2>3. drive' \in [Harnesses -> Drive] /\ HeldOK' /\ HeldIsStored'
        BY <2>2, <1>1, ConstantRecords, RestOK, RestIsCurrent, GotoType DEF Start
    <2> QED BY <1>1, <2>2, <2>3, <1>0 DEF Start, TypeInv, TypeOK, store, history
<1>2. ASSUME NEW h \in Harnesses, Resume(h)
      PROVE  TypeInv'
    <2>1. drive' \in [Harnesses -> Drive] /\ HeldOK' /\ HeldIsStored'
        BY <1>2, <1>0, ConstantRecords, RestOK, RestIsCurrent, GotoType
           DEF Resume, Leave, store
    <2> QED BY <1>2, <2>1, <1>0 DEF Resume, TypeInv, TypeOK, store, history
<1>3. ASSUME NEW h \in Harnesses, LeaveLoop(h)
      PROVE  TypeInv'
    <2>1. drive' \in [Harnesses -> Drive] /\ HeldOK' /\ HeldIsStored'
        BY <1>3, <1>0, ConstantRecords, RestOK, RestIsCurrent, GotoType
           DEF LeaveLoop, Leave, store
    <2> QED BY <1>3, <2>1, <1>0 DEF LeaveLoop, TypeInv, TypeOK, store, history
<1>4. ASSUME NEW h \in Harnesses, CommitFinal(h)
      PROVE  TypeInv'
    <2>1. [snap EXCEPT !.status = "completed"] \in Snapshot
        BY <1>0, WithStatus
    <2>2. snap' \in Snapshot /\ snap'.revision = snap.revision + 1
        BY <1>4, <2>1, <1>0, CommitType DEF CommitFinal
    <2>3. drive' \in [Harnesses -> Drive] /\ HeldOK' /\ HeldIsStored'
        BY <1>4, <2>2, ConstantRecords, RestOK, RestIsCurrent, GotoType
           DEF CommitFinal, Leave
    <2>4. terminals' \in Seq({"run.completed", "run.failed", "run.cancelled"})
        BY <1>4, <1>0, LogType DEF CommitFinal
    <2> QED BY <1>4, <2>2, <2>3, <2>4, <1>0 DEF CommitFinal, TypeInv, TypeOK, history
<1>5. ASSUME NEW h \in Harnesses, ExceedMaxSteps(h)
      PROVE  TypeInv'
    <2>1. [snap EXCEPT !.status = "failed"] \in Snapshot
        BY <1>0, WithStatus
    <2>2. snap' \in Snapshot /\ snap'.revision = snap.revision + 1
        BY <1>5, <2>1, <1>0, CommitType DEF ExceedMaxSteps
    <2>3. drive' \in [Harnesses -> Drive] /\ HeldOK' /\ HeldIsStored'
        BY <1>5, <2>2, ConstantRecords, RestOK, RestIsCurrent, GotoType
           DEF ExceedMaxSteps, Leave
    <2>4. terminals' \in Seq({"run.completed", "run.failed", "run.cancelled"})
        BY <1>5, <1>0, LogType DEF ExceedMaxSteps
    <2> QED BY <1>5, <2>2, <2>3, <2>4, <1>0 DEF ExceedMaxSteps, TypeInv, TypeOK, history
<1>6. ASSUME NEW h \in Harnesses, FailModel(h)
      PROVE  TypeInv'
    <2>1. [drive[h].held EXCEPT !.status = "failed"] \in Snapshot
        BY <1>00, WithStatus
    <2>2. snap' \in Snapshot /\ snap'.revision = snap.revision + 1
        BY <1>6, <2>1, <1>0, CommitType DEF FailModel
    <2>3. drive' \in [Harnesses -> Drive] /\ HeldOK' /\ HeldIsStored'
        BY <1>6, <2>2, ConstantRecords, RestOK, RestIsCurrent, GotoType
           DEF FailModel, Leave
    <2>4. terminals' \in Seq({"run.completed", "run.failed", "run.cancelled"})
        BY <1>6, <1>0, LogType DEF FailModel
    <2> QED BY <1>6, <2>2, <2>3, <2>4, <1>0 DEF FailModel, TypeInv, TypeOK, history
<1>7. ASSUME NEW h \in Harnesses, FinishReply(h)
      PROVE  TypeInv'
    <2>1. [snap EXCEPT !.status = "ready_model"] \in Snapshot
        BY <1>0, WithStatus
    <2>2. snap' \in Snapshot /\ snap'.revision = snap.revision + 1
        BY <1>7, <2>1, <1>0, CommitType DEF FinishReply
    <2>3. drive' \in [Harnesses -> Drive] /\ HeldOK' /\ HeldIsStored'
        BY <1>7, <2>2, StayType DEF FinishReply
    <2> QED BY <1>7, <2>2, <2>3, <1>0 DEF FinishReply, TypeInv, TypeOK, history
<1>8. ASSUME NEW h \in Harnesses, NEW reply \in Replies, FailDuplicate(h, reply)
      PROVE  TypeInv'
    <2>1. [snap EXCEPT !.status = "failed"] \in Snapshot
        BY <1>0, WithStatus
    <2>2. snap' \in Snapshot /\ snap'.revision = snap.revision + 1
        BY <1>8, <2>1, <1>0, CommitType DEF FailDuplicate
    <2>3. drive' \in [Harnesses -> Drive] /\ HeldOK' /\ HeldIsStored'
        BY <1>8, <2>2, ConstantRecords, RestOK, RestIsCurrent, GotoType
           DEF FailDuplicate, Leave
    <2>4. terminals' \in Seq({"run.completed", "run.failed", "run.cancelled"})
        BY <1>8, <1>0, LogType DEF FailDuplicate
    <2> QED BY <1>8, <2>2, <2>3, <2>4, <1>0 DEF FailDuplicate, TypeInv, TypeOK, history
<1>9. ASSUME NEW h \in Harnesses, StartModel(h)
      PROVE  TypeInv'
    <2> DEFINE d == Suspend("model", snap', 0)
    <2>1. snap' \in Snapshot /\ snap'.revision = snap.revision + 1
          /\ snap'.step = snap.step
        BY <1>9, <1>0, CommitType DEF StartModel
    <2>2. d \in Drive /\ d.held = snap' /\ d.at = "model"
        BY <2>1, BoundsAssumption, SuspendType DEF Location
    <2>3. DriveOK(d) /\ HoldsCurrent(d, snap')
        BY <1>9, <2>1, <2>2 DEF DriveOK, StartModel, HoldsCurrent, Snapshot
    <2>4. Goto(h, d)
        BY <1>9 DEF StartModel
    <2> HIDE DEF d
    <2>5. drive' \in [Harnesses -> Drive] /\ HeldOK' /\ HeldIsStored'
        BY <2>1, <2>2, <2>3, <2>4, GotoType
    <2> QED BY <1>9, <2>1, <2>5, <1>0 DEF StartModel, TypeInv, TypeOK, history
<1>10. ASSUME NEW h \in Harnesses, NEW reply \in Replies, AcceptReply(h, reply)
      PROVE  TypeInv'
    <2> DEFINE step == drive[h].held.step + 1
               m == [role |-> "assistant", step |-> step, ordinal |-> 0, error |-> FALSE]
               status == IF reply = <<>> THEN "pending_final" ELSE "processing_reply"
    <2>1. drive[h].held = snap /\ step \in 1 .. MaxSteps
        BY <1>10, <1>0, <1>00, <1>h, BoundsAssumption
           DEF AcceptReply, Suspended, DriveOK, Snapshot
    <2>2. m \in Message
        BY <2>1, BoundsAssumption DEF Message
    <2>3. status \in RunStatus
        OBVIOUS
    <2>4. Commit(Extend([snap EXCEPT !.step = step], status, m))
        BY <1>10, <2>1 DEF AcceptReply
    <2> HIDE DEF m, status, step
    <2>s. step \in 0 .. MaxSteps
        BY <2>1, BoundsAssumption
    <2>5. Extend([snap EXCEPT !.step = step], status, m) \in Snapshot
        BY <2>s, <2>2, <2>3, <1>0, ExtendStepType
    <2>6. snap' \in Snapshot /\ snap'.revision = snap.revision + 1
        BY <2>4, <2>5, <1>0, CommitType
    <2>7. calls' \in [Fingerprint -> CallRecord]
        <3>1. ASSUME NEW fp \in Fingerprint, fp[2] <= Len(reply)
              PROVE  NewCall(h, reply[fp[2]]) \in CallRecord
            <4>1. fp[2] \in 1 .. Len(reply)
                BY <3>1, BoundsAssumption DEF Fingerprint, Replies
            <4> QED BY <4>1, <1>0, ReplyType, NewCallType
        <3> QED BY <3>1, <1>10, <1>0 DEF AcceptReply
    <2>8. drive' \in [Harnesses -> Drive] /\ HeldOK' /\ HeldIsStored'
        BY <1>10, <2>6, ConstantRecords, RestOK, RestIsCurrent, GotoType DEF AcceptReply
    <2> QED BY <1>10, <2>6, <2>7, <2>8, <1>0 DEF AcceptReply, TypeInv, TypeOK, history
<1>11. ASSUME NEW h \in Harnesses, NEW o \in 1 .. MaxCalls, RequestCall(h, o)
      PROVE  TypeInv'
    <2> DEFINE d == Suspend("requested", snap', o)
    <2>1. snap' \in Snapshot /\ snap'.revision = snap.revision + 1
          /\ snap'.step = snap.step
        BY <1>11, <1>0, CommitType DEF RequestCall
    <2>2. d \in Drive /\ d.held = snap' /\ d.at = "requested" /\ d.ordinal = o
        BY <2>1, BoundsAssumption, SuspendType DEF Location
    <2>3. DriveOK(d) /\ HoldsCurrent(d, snap')
        BY <1>11, <2>1, <2>2, BoundsAssumption
           DEF DriveOK, RequestCall, FirstOpen, HoldsCurrent, Snapshot
    <2>4. Goto(h, d)
        BY <1>11 DEF RequestCall
    <2> HIDE DEF d
    <2>5. drive' \in [Harnesses -> Drive] /\ HeldOK' /\ HeldIsStored'
        BY <2>1, <2>2, <2>3, <2>4, GotoType
    <2>6. calls' \in [Fingerprint -> CallRecord]
        BY <1>11, <1>0, CallType DEF RequestCall
    <2> QED BY <1>11, <2>1, <2>5, <2>6, <1>0 DEF RequestCall, TypeInv, TypeOK, history
<1>12. ASSUME NEW h \in Harnesses, NEW o \in 1 .. MaxCalls, RefuseCall(h, o)
      PROVE  TypeInv'
    <2>1. <<snap.step, o>> \in Fingerprint
        BY <1>12, ProcessedCall DEF RefuseCall
    <2>m. Answer(<<snap.step, o>>, TRUE) \in Message
        BY <2>1, AnswerType
    <2>2. Extend(snap, "processing_reply", Answer(<<snap.step, o>>, TRUE)) \in Snapshot
        BY <2>m, <1>0, ExtendType
    <2>3. snap' \in Snapshot /\ snap'.revision = snap.revision + 1
        BY <1>12, <2>2, <1>0, CommitType DEF RefuseCall
    <2>4. calls' \in [Fingerprint -> CallRecord]
        BY <1>12, <1>0, CallType DEF RefuseCall
    <2>5. drive' \in [Harnesses -> Drive] /\ HeldOK' /\ HeldIsStored'
        BY <1>12, <2>3, ConstantRecords, RestOK, RestIsCurrent, GotoType DEF RefuseCall
    <2> QED BY <1>12, <2>3, <2>4, <2>5, <1>0 DEF RefuseCall, TypeInv, TypeOK, history
<1>13. ASSUME NEW h \in Harnesses, NEW o \in 1 .. MaxCalls, MarkEffectUnknown(h, o)
      PROVE  TypeInv'
    <2>1. [snap EXCEPT !.status = "effect_unknown"] \in Snapshot
        BY <1>0, WithStatus
    <2>2. snap' \in Snapshot /\ snap'.revision = snap.revision + 1
        BY <1>13, <2>1, <1>0, CommitType DEF MarkEffectUnknown
    <2>3. calls' \in [Fingerprint -> CallRecord]
        BY <1>13, <1>0, CallType DEF MarkEffectUnknown
    <2>4. drive' \in [Harnesses -> Drive] /\ HeldOK' /\ HeldIsStored'
        BY <1>13, <2>2, ConstantRecords, RestOK, RestIsCurrent, GotoType
           DEF MarkEffectUnknown, Leave
    <2> QED BY <1>13, <2>2, <2>3, <2>4, <1>0
           DEF MarkEffectUnknown, TypeInv, TypeOK, history
<1>14. ASSUME NEW h \in Harnesses, NEW o \in 1 .. MaxCalls, RequestApproval(h, o)
      PROVE  TypeInv'
    <2>1. [snap EXCEPT !.status = "awaiting_approval"] \in Snapshot
        BY <1>0, WithStatus
    <2>2. snap' \in Snapshot /\ snap'.revision = snap.revision + 1
        BY <1>14, <2>1, <1>0, CommitType DEF RequestApproval
    <2>3. calls' \in [Fingerprint -> CallRecord]
        BY <1>14, <1>0, CallType DEF RequestApproval
    <2>4. drive' \in [Harnesses -> Drive] /\ HeldOK' /\ HeldIsStored'
        BY <1>14, <2>2, ConstantRecords, RestOK, RestIsCurrent, GotoType
           DEF RequestApproval, Leave
    <2>5. approvals' \in [Fingerprint -> Decision]
        BY <1>14, <1>0 DEF RequestApproval
    <2> QED BY <1>14, <2>2, <2>3, <2>4, <2>5, <1>0
           DEF RequestApproval, TypeInv, TypeOK, history
<1>15. ASSUME NEW h \in Harnesses, NEW o \in 1 .. MaxCalls, AwaitDecision(h, o)
      PROVE  TypeInv'
    <2>1. drive' \in [Harnesses -> Drive] /\ HeldOK' /\ HeldIsStored'
        BY <1>15, <1>0, ConstantRecords, RestOK, RestIsCurrent, GotoType
           DEF AwaitDecision, Leave, store
    <2> QED BY <1>15, <2>1, <1>0, BoundsAssumption
           DEF AwaitDecision, TypeInv, TypeOK, store, history
<1>16. ASSUME NEW h \in Harnesses, Rejected(h)
      PROVE  TypeInv'
    <2>1. drive' \in [Harnesses -> Drive] /\ HeldOK' /\ HeldIsStored'
        BY <1>16, <1>0, ConstantRecords, RestOK, RestIsCurrent, GotoType
           DEF Rejected, Leave, store
    <2> QED BY <1>16, <2>1, <1>0, BoundsAssumption
           DEF Rejected, TypeInv, TypeOK, store, history
<1>17. ASSUME NEW h \in Harnesses, Crash(h)
      PROVE  TypeInv'
    <2>1. drive' \in [Harnesses -> Drive] /\ HeldOK' /\ HeldIsStored'
        BY <1>17, <1>0, ConstantRecords, RestOK, RestIsCurrent, GotoType
           DEF Crash, Leave, store
    <2> QED BY <1>17, <2>1, <1>0, BoundsAssumption
           DEF Crash, TypeInv, TypeOK, store, history
<1>18. ASSUME NEW h \in Harnesses, NEW o \in 1 .. MaxCalls, DispatchCall(h, o)
      PROVE  TypeInv'
    <2> DEFINE d == Suspend("handler", snap', o)
    <2>1. <<snap.step, o>> \in Fingerprint
        BY <1>18, ProcessedCall DEF DispatchCall
    <2>2. [snap EXCEPT !.status = "processing_reply"] \in Snapshot
          /\ [snap EXCEPT !.status = "processing_reply"].step = snap.step
        BY <1>0, WithStatus
    <2>3. snap' \in Snapshot /\ snap'.revision = snap.revision + 1
          /\ snap'.step = snap.step
        BY <1>18, <2>2, <1>0, CommitType DEF DispatchCall
    <2>4. d \in Drive /\ d.held = snap' /\ d.at = "handler" /\ d.ordinal = o
        BY <2>3, BoundsAssumption, SuspendType DEF Location
    <2>5. DriveOK(d) /\ HoldsCurrent(d, snap')
        BY <2>1, <2>3, <2>4, BoundsAssumption
           DEF DriveOK, HoldsCurrent, Snapshot, Fingerprint
    <2>6. Goto(h, d)
        BY <1>18 DEF DispatchCall
    <2> HIDE DEF d
    <2>7. drive' \in [Harnesses -> Drive] /\ HeldOK' /\ HeldIsStored'
        BY <2>3, <2>4, <2>5, <2>6, GotoType
    <2>8. calls' \in [Fingerprint -> CallRecord]
        BY <1>18, <1>0, CallType DEF DispatchCall
    <2>9. dispatches' \in [Fingerprint -> Nat]
        <3> DEFINE fp == <<snap.step, o>>
        <3>1. dispatches' = [dispatches EXCEPT ![fp] = @ + 1] /\ fp \in Fingerprint
            BY <1>18, <2>1 DEF DispatchCall
        <3> HIDE DEF fp
        <3> QED BY <3>1, <1>0
    <2> QED BY <1>18, <2>3, <2>7, <2>8, <2>9, <1>0 DEF DispatchCall, TypeInv, TypeOK
<1>19. ASSUME NEW h \in Harnesses, NEW returned \in BOOLEAN, HandlerEnds(h, returned)
      PROVE  TypeInv'
    <2> DEFINE d == [drive[h] EXCEPT !.at = "drain", !.returned = returned]
    <2>1. d \in Drive /\ d.held = drive[h].held /\ d.at = "drain"
          /\ d.ordinal = drive[h].ordinal
        BY <1>00 DEF Drive, Location
    <2>2. DriveOK(d) /\ HoldsCurrent(d, snap)
        BY <1>19, <1>00, <2>1
           DEF DriveOK, HoldsCurrent, HandlerEnds, TypeInv, HeldIsStored, Suspended
    <2>3. Goto(h, d) /\ snap' = snap
        BY <1>19 DEF HandlerEnds, store
    <2> HIDE DEF d
    <2>4. drive' \in [Harnesses -> Drive] /\ HeldOK' /\ HeldIsStored'
        BY <2>1, <2>2, <2>3, <1>0, GotoType
    <2> QED BY <1>19, <2>4, <1>0 DEF HandlerEnds, TypeInv, TypeOK, store
<1>20. ASSUME NEW h \in Harnesses, CommitResult(h)
      PROVE  TypeInv'
    <2>1. drive[h].held = snap /\ HeldCall(h) \in Fingerprint
        BY <1>20, <1>h, HeldCallType DEF CommitResult, Suspended
    <2> DEFINE failed == ~drive[h].returned
               m == Answer(HeldCall(h), failed)
    <2>2. m \in Message
        <3>1. failed \in BOOLEAN
            BY Zenon
        <3> HIDE DEF failed
        <3> QED BY <3>1, <2>1, AnswerType
    <2>c. Commit(Extend(snap, snap.status, m))
        BY <1>20, <2>1 DEF CommitResult
    <2> HIDE DEF m
    <2>3. Extend(snap, snap.status, m) \in Snapshot
        BY <2>2, <1>0, ExtendSameType
    <2>4. snap' \in Snapshot /\ snap'.revision = snap.revision + 1
        BY <2>c, <2>3, <1>0, CommitType
    <2>5. calls' \in [Fingerprint -> CallRecord]
        BY <1>20, <1>0, CallType DEF CommitResult
    <2>6. drive' \in [Harnesses -> Drive] /\ HeldOK' /\ HeldIsStored'
        BY <1>20, <2>4, ConstantRecords, RestOK, RestIsCurrent, GotoType
           DEF CommitResult
    <2> QED BY <1>20, <2>4, <2>5, <2>6, <1>0 DEF CommitResult, TypeInv, TypeOK, history
<1>21. ASSUME NEW h \in Harnesses, PauseUnknown(h)
      PROVE  TypeInv'
    <2>1. \A status \in RunStatus :
             [drive[h].held EXCEPT !.status = status] \in Snapshot
        BY <1>00, WithStatus
    <2>2. snap' \in Snapshot /\ snap'.revision = snap.revision + 1
        BY <1>21, <2>1, <1>0, CommitType DEF PauseUnknown
    <2>3. calls' \in [Fingerprint -> CallRecord]
        BY <1>21, <1>0, CallType DEF PauseUnknown
    <2>4. drive' \in [Harnesses -> Drive] /\ HeldOK' /\ HeldIsStored'
        BY <1>21, <2>2, ConstantRecords, RestOK, RestIsCurrent, GotoType
           DEF PauseUnknown, Leave
    <2> QED BY <1>21, <2>2, <2>3, <2>4, <1>0 DEF PauseUnknown, TypeInv, TypeOK, history
<1>22. ASSUME NEW h \in Harnesses, CancelHandler(h)
      PROVE  TypeInv'
    <2> DEFINE d == [NoDrive EXCEPT !.at = "cancelling"]
    <2>d. d \in Drive /\ DriveOK(d) /\ \A s \in Snapshot : HoldsCurrent(d, s)
        BY CancellingType
    <2> HIDE DEF d
    <2>1. CASE Fresh(drive[h].held)
        <3>1. [drive[h].held EXCEPT !.status = "effect_unknown"] \in Snapshot
            BY <1>00, WithStatus
        <3>2. snap' \in Snapshot /\ snap'.revision = snap.revision + 1
            BY <1>22, <2>1, <3>1, <1>0, CommitType DEF CancelHandler
        <3>3. calls' \in [Fingerprint -> CallRecord]
            BY <1>22, <2>1, <1>0, CallType DEF CancelHandler
        <3>4. drive' \in [Harnesses -> Drive] /\ HeldOK' /\ HeldIsStored'
            BY <1>22, <2>1, <2>d, <3>2, GotoType DEF CancelHandler, d
        <3> QED BY <1>22, <3>2, <3>3, <3>4, <1>0 DEF CancelHandler, TypeInv, TypeOK
    <2>2. CASE ~Fresh(drive[h].held)
        <3>1. drive' \in [Harnesses -> Drive] /\ HeldOK' /\ HeldIsStored'
            BY <1>22, <2>2, <1>0, ConstantRecords, RestOK, RestIsCurrent, GotoType
               DEF CancelHandler, Leave
        <3> QED BY <1>22, <2>2, <3>1, <1>0 DEF CancelHandler, TypeInv, TypeOK
    <2> QED BY <2>1, <2>2
<1>23. ASSUME NEW h \in Harnesses, CancelElsewhere(h)
      PROVE  TypeInv'
    <2> DEFINE d == [NoDrive EXCEPT !.at = "cancelling"]
    <2>d. d \in Drive /\ DriveOK(d) /\ \A s \in Snapshot : HoldsCurrent(d, s)
        BY CancellingType
    <2> HIDE DEF d
    <2>1. drive' \in [Harnesses -> Drive] /\ HeldOK' /\ HeldIsStored'
        BY <1>23, <2>d, <1>0, GotoType DEF CancelElsewhere, d, store
    <2> QED BY <1>23, <2>1, <1>0 DEF CancelElsewhere, TypeInv, TypeOK, store
<1>24. ASSUME NEW h \in Harnesses, CommitCancelled(h)
      PROVE  TypeInv'
    <2>1. snap' \in Snapshot /\ (snap' = snap \/ snap'.revision = snap.revision + 1)
        BY <1>24, <1>0, WithStatus, CommitType DEF CommitCancelled
    <2>2. drive' \in [Harnesses -> Drive] /\ HeldOK' /\ HeldIsStored'
        BY <1>24, <2>1, ConstantRecords, RestOK, RestIsCurrent, GotoType
           DEF CommitCancelled, Leave
    <2>3. terminals' \in Seq({"run.completed", "run.failed", "run.cancelled"})
        BY <1>24, <1>0, LogType DEF CommitCancelled
    <2> QED BY <1>24, <2>1, <2>2, <2>3, <1>0
           DEF CommitCancelled, TypeInv, TypeOK, history
<1>25. ASSUME NEW h \in Harnesses, NEW cat \in Catalogs, Redeploy(h, cat)
      PROVE  TypeInv'
    <2>1. drive' \in [Harnesses -> Drive] /\ HeldOK' /\ HeldIsStored'
        BY <1>25, <1>0, StayType DEF Redeploy, store
    <2>2. catalog' \in [Harnesses -> Catalogs]
        BY <1>25, <1>0 DEF Redeploy
    <2> QED BY <1>25, <2>1, <2>2, <1>0 DEF Redeploy, TypeInv, TypeOK, store
<1>26. ASSUME NEW fp \in Fingerprint,
              NEW answer \in BOOLEAN, ResolveApproval(fp, answer)
      PROVE  TypeInv'
    <2>1. [snap EXCEPT !.status = "awaiting_resume"] \in Snapshot
        BY <1>0, WithStatus
    <2>2. snap' \in Snapshot /\ snap'.revision = snap.revision + 1
        BY <1>26, <2>1, <1>0, CommitType DEF ResolveApproval
    <2>3. calls' \in [Fingerprint -> CallRecord]
        BY <1>26, <1>0, CallType DEF ResolveApproval
    <2>4. drive' \in [Harnesses -> Drive] /\ HeldOK' /\ HeldIsStored'
        BY <1>26, <2>2, StayType DEF ResolveApproval
    <2>5. approvals' \in [Fingerprint -> Decision]
        BY <1>26, <1>0 DEF ResolveApproval
    <2> QED BY <1>26, <2>2, <2>3, <2>4, <2>5, <1>0
           DEF ResolveApproval, TypeInv, TypeOK, history
<1>27. ASSUME NEW fp \in Fingerprint, NEW failed \in BOOLEAN, SettleEffect(fp, failed)
      PROVE  TypeInv'
    <2> DEFINE status == IF snap.status = "cancelled" THEN "cancelled" ELSE "awaiting_resume"
    <2>1. Extend(snap, status, Answer(fp, failed)) \in Snapshot
        BY <1>0, AnswerType, ExtendType, ZenonT(60)
    <2>2. snap' \in Snapshot /\ snap'.revision = snap.revision + 1
        BY <1>27, <2>1, <1>0, CommitType DEF SettleEffect
    <2>3. calls' \in [Fingerprint -> CallRecord]
        BY <1>27, <1>0, CallType DEF SettleEffect
    <2>4. drive' \in [Harnesses -> Drive] /\ HeldOK' /\ HeldIsStored'
        BY <1>27, <2>2, StayType DEF SettleEffect
    <2> QED BY <1>27, <2>2, <2>3, <2>4, <1>0 DEF SettleEffect, TypeInv, TypeOK, history
<1>28. ASSUME NEW fp \in Fingerprint, RetryEffect(fp)
      PROVE  TypeInv'
    <2>1. [snap EXCEPT !.status = "awaiting_resume"] \in Snapshot
        BY <1>0, WithStatus
    <2>2. snap' \in Snapshot /\ snap'.revision = snap.revision + 1
        BY <1>28, <2>1, <1>0, CommitType DEF RetryEffect
    <2>3. calls' \in [Fingerprint -> CallRecord]
        BY <1>28, <1>0, CallType DEF RetryEffect
    <2>4. drive' \in [Harnesses -> Drive] /\ HeldOK' /\ HeldIsStored'
        BY <1>28, <2>2, StayType DEF RetryEffect
    <2>5. retries' \in [Fingerprint -> Nat]
        BY <1>28, <1>0 DEF RetryEffect
    <2> QED BY <1>28, <2>2, <2>3, <2>4, <2>5, <1>0 DEF RetryEffect, TypeInv, TypeOK
<1>29. CASE UNCHANGED vars
    <2>1. drive' \in [Harnesses -> Drive] /\ HeldOK' /\ HeldIsStored'
        BY <1>29, <1>0, StayType DEF vars
    <2> QED BY <1>29, <2>1, <1>0 DEF vars, TypeInv, TypeOK
<1> QED
    BY <1>1, <1>2, <1>3, <1>4, <1>5, <1>6, <1>7, <1>8, <1>9, <1>10, <1>11, <1>12, <1>13,
       <1>14, <1>15, <1>16, <1>17, <1>18, <1>19, <1>20, <1>21, <1>22, <1>23, <1>24,
       <1>25, <1>26, <1>27, <1>28, <1>29
    DEF Next, Progress, Fault, Operator

\* Every reachable state is well typed, and a drive whose held snapshot would
\* pass the compare-and-swap of the run store (_commit's check of the
\* generation and revision) holds exactly the stored run.
THEOREM TypeCorrect == Spec => []TypeInv
<1>1. TypeInv /\ [Next]_vars => TypeInv'
    BY TypeStep
<1> QED BY TypeInit, <1>1, PTL DEF Spec

\* The type invariant of the runs, for every value of the constants.
THEOREM TypeSafety == Spec => []TypeOK
<1>1. TypeInv => TypeOK
    BY DEF TypeInv
<1> QED BY TypeCorrect, <1>1, PTL
-----------------------------------------------------------------------------
\* While a drive's snapshot is current, the run and the drive's call are where
\* the drive left them.
InPlace(h) ==
    Fresh(drive[h].held) =>
        /\ drive[h].at = "model" => snap.status = "ready_model"
        /\ drive[h].at = "requested" =>
              calls[HeldCall(h)].status = "requested" /\ snap.status \in Working
        /\ drive[h].at \in {"handler", "drain"} =>
              calls[HeldCall(h)].status = "dispatching"
              /\ snap.status = "processing_reply"

\* Calls of earlier steps are answered and calls of later steps do not exist.
OnlyThisStepOpen ==
    \A fp \in Fingerprint :
        /\ fp[1] < snap.step => calls[fp].status \in {"absent", "result"}
        /\ fp[1] > snap.step => calls[fp].status = "absent"

\* Which calls can be open in which run status.
Quiescent == {"absent", "ready_model", "pending_final", "completed"}

StatusOfCalls ==
    \A fp \in Fingerprint :
        /\ snap.status \in Quiescent => calls[fp].status \in {"absent", "result"}
        /\ calls[fp].status = "effect_unknown" =>
              snap.status \in {"effect_unknown", "cancelled", "failed"}
        /\ calls[fp].status = "awaiting_approval" =>
              snap.status \in {"awaiting_approval", "cancelled", "failed"}

\* Dispatches of one call are paid for: before its first dispatch there is none,
\* an approved side effect has used no more dispatches than retries, and the
\* approval row follows the status.
Unstarted == {"absent", "pending", "requested", "awaiting_approval"}

PaidFor(c, decision, dispatched, retried) ==
    /\ c.status \in Unstarted => dispatched = 0
    /\ c.status \in {"absent", "pending", "requested"} => decision = "absent"
    /\ c.status = "awaiting_approval" <=> decision = "undecided"
    /\ c.effect = "side_effecting" /\ c.status \in {"approved", "denied"} =>
          dispatched <= retried
    /\ c.effect = "side_effecting" => dispatched <= 1 + retried
    /\ c.effect # "read_only" /\ dispatched > 0 => decision = "approved"

AllPaidFor ==
    \A fp \in Fingerprint :
        PaidFor(calls[fp], approvals[fp], dispatches[fp], retries[fp])

Unborn == snap.status = "absent" => snap.step = 0

IInv ==
    /\ TypeInv
    /\ \A h \in Harnesses : InPlace(h)
    /\ OnlyThisStepOpen /\ SerialExecution
    /\ StatusOfCalls /\ AllPaidFor /\ PausesAreResolvable /\ Unborn

-----------------------------------------------------------------------------
\* The order of calls.

\* Two different calls are ordered.
LEMMA Ordered ==
    ASSUME NEW f \in Fingerprint, NEW g \in Fingerprint, f # g
    PROVE  Before(f, g) \/ Before(g, f)
BY BoundsAssumption DEF Fingerprint, Before

\* SetCall changes the status of one call only, and nothing else of it.
LEMMA SetCallEffect ==
    ASSUME TypeOK, NEW fp \in Fingerprint, NEW st, SetCall(fp, st)
    PROVE  /\ calls'[fp].status = st /\ calls'[fp].effect = calls[fp].effect
           /\ \A g \in Fingerprint \ {fp} : calls'[g] = calls[g]
BY DEF TypeOK, SetCall, CallRecord

\* The calls before the first open one are answered.
LEMMA FirstOpenOrder ==
    ASSUME OnlyThisStepOpen, NEW o \in 1 .. MaxCalls, FirstOpen(snap.step, o),
           NEW f \in Fingerprint, Before(f, <<snap.step, o>>)
    PROVE  calls[f].status \in {"absent", "result"}
<1>1. CASE f[1] < snap.step
    BY <1>1 DEF OnlyThisStepOpen
<1>2. CASE f[1] = snap.step /\ f[2] < o
    <2>1. f = <<snap.step, f[2]>> /\ f[2] \in 1 .. o - 1
        BY <1>2, BoundsAssumption DEF Fingerprint
    <2> QED BY <2>1 DEF FirstOpen
<1> QED BY <1>1, <1>2 DEF Before

\* A call that is in progress, or the first open one, is of the current step,
\* and no other call is in progress.
Predecessors(fp) ==
    \A f \in Fingerprint : Before(f, fp) => calls[f].status \in {"absent", "result"}

\* An open call whose predecessors are answered is of the current step, and no
\* other call is in progress.
LEMMA Alone ==
    ASSUME TypeOK, OnlyThisStepOpen, SerialExecution, NEW fp \in Fingerprint,
           calls[fp].status \notin {"absent", "result"},
           calls[fp].status = "pending" => Predecessors(fp)
    PROVE  /\ fp[1] = snap.step /\ Predecessors(fp)
           /\ \A g \in Fingerprint \ {fp} :
                 calls[g].status \in {"absent", "pending", "result"}
           /\ \A g \in Fingerprint : Before(fp, g)
                 => calls[g].status \in {"absent", "pending"}
<1>1. fp[1] = snap.step
    BY BoundsAssumption DEF TypeOK, Snapshot, OnlyThisStepOpen, Fingerprint
<1>2. Predecessors(fp)
    BY DEF SerialExecution, Predecessors
<1>3. \A g \in Fingerprint : Before(fp, g) => calls[g].status \in {"absent", "pending"}
    BY DEF SerialExecution
<1> QED BY <1>1, <1>2, <1>3, Ordered DEF Predecessors

-----------------------------------------------------------------------------
\* What a step of one drive does to the places of all.

\* A drive that stops, returns to the loop or unwinds holds nothing current.
LEMMA PlaceRest ==
    ASSUME TypeInv, NEW h \in Harnesses, NEW d \in Drive, Goto(h, d),
           d.at \in {"idle", "loop", "cancelling"},
           \A g \in Harnesses : InPlace(g),
           (snap' = snap /\ calls' = calls) \/ snap'.revision = snap.revision + 1
    PROVE  \A g \in Harnesses : InPlace(g)'
<1> SUFFICES ASSUME NEW g \in Harnesses PROVE InPlace(g)'
    OBVIOUS
<1>1. drive \in [Harnesses -> Drive] /\ snap.revision \in Nat
    BY DEF TypeInv, TypeOK, Snapshot
<1>2. CASE g = h
    BY <1>1, <1>2 DEF Goto, InPlace
<1>3. CASE g # h
    <2>1. drive'[g] = drive[g] /\ drive[g].held.revision <= snap.revision
          /\ drive[g].held.revision \in Nat
        BY <1>1, <1>3 DEF Goto, TypeInv, HeldIsStored, HoldsCurrent, Drive, Snapshot
    <2> QED BY <1>1, <2>1 DEF InPlace, Fresh, HeldCall
<1> QED BY <1>2, <1>3

\* A commit makes the snapshots of the other drives stale.
LEMMA PlaceOthers ==
    ASSUME TypeInv, NEW h \in Harnesses, NEW d, Goto(h, d),
           snap'.revision = snap.revision + 1
    PROVE  drive'[h] = d /\ \A g \in Harnesses \ {h} : InPlace(g)'
<1>1. drive \in [Harnesses -> Drive] /\ snap.revision \in Nat
    BY DEF TypeInv, TypeOK, Snapshot
<1>2. ASSUME NEW g \in Harnesses \ {h} PROVE InPlace(g)'
    <2>1. drive'[g] = drive[g] /\ drive[g].held.revision <= snap.revision
          /\ drive[g].held.revision \in Nat
        BY <1>1, <1>2 DEF Goto, TypeInv, HeldIsStored, HoldsCurrent, Drive, Snapshot
    <2> QED BY <1>1, <2>1 DEF InPlace, Fresh
<1> QED BY <1>1, <1>2 DEF Goto

\* A step that commits nothing and moves no drive keeps everyone in place.
LEMMA PlaceStay ==
    ASSUME TypeInv, UNCHANGED drive, \A g \in Harnesses : InPlace(g),
           (snap' = snap /\ calls' = calls) \/ snap'.revision = snap.revision + 1
    PROVE  \A g \in Harnesses : InPlace(g)'
<1> SUFFICES ASSUME NEW g \in Harnesses PROVE InPlace(g)'
    OBVIOUS
<1>1. drive'[g] = drive[g] /\ drive[g].held.revision <= snap.revision
      /\ drive[g].held.revision \in Nat /\ snap.revision \in Nat
    BY DEF TypeInv, TypeOK, HeldIsStored, HoldsCurrent, Drive, Snapshot
<1> QED BY <1>1 DEF InPlace, Fresh, HeldCall

-----------------------------------------------------------------------------
\* The two shapes nearly every step has.

\* What a call becomes once it is taken up.
Moved == CallStatus \ {"absent", "pending"}

\* The statuses the actions assign, in the sets the invariant speaks of.
LEMMA StatusFacts ==
    /\ {"ready_model", "processing_reply", "awaiting_approval", "awaiting_resume",
        "paused_recovery", "effect_unknown", "completed", "failed", "cancelled"}
           \subseteq RunStatus
    /\ Quiescent \cap (Working \cup {"awaiting_approval", "effect_unknown", "cancelled"})
           = {}
    /\ {"processing_reply", "awaiting_resume", "paused_recovery"} = Working
    /\ {"requested", "awaiting_approval", "dispatching", "effect_unknown", "approved",
        "result"} \subseteq Moved
BY DEF RunStatus, Quiescent, Working, CallStatus, Moved

\* A commit that changes the status only.
LEMMA CommitStatus ==
    ASSUME snap \in Snapshot, NEW s \in Snapshot, NEW status \in RunStatus,
           Commit([s EXCEPT !.status = status])
    PROVE  /\ snap' \in Snapshot /\ snap'.revision = snap.revision + 1
           /\ snap'.status = status /\ snap'.step = s.step /\ snap'.history = s.history
<1> DEFINE t == [s EXCEPT !.status = status]
<1>1. t \in Snapshot /\ t.status = status /\ t.step = s.step /\ t.history = s.history
      /\ Commit(t)
    BY WithStatus
<1> HIDE DEF t
<1> QED BY <1>1, CommitType

\* A commit that changes the status and appends a message.
LEMMA CommitExtend ==
    ASSUME snap \in Snapshot, NEW s \in Snapshot, NEW status \in RunStatus,
           NEW m \in Message, Commit(Extend(s, status, m))
    PROVE  /\ snap' \in Snapshot /\ snap'.revision = snap.revision + 1
           /\ snap'.status = status /\ snap'.step = s.step
           /\ snap'.history = Append(s.history, m)
<1> DEFINE t == Extend(s, status, m)
<1>1. t \in Snapshot /\ t.status = status /\ t.step = s.step /\ Commit(t)
      /\ t.history = Append(s.history, m)
    BY ExtendType
<1> HIDE DEF t
<1> QED BY <1>1, CommitType

\* A commit that appends a message and keeps the status.
LEMMA CommitExtendSame ==
    ASSUME snap \in Snapshot, NEW m \in Message, Commit(Extend(snap, snap.status, m))
    PROVE  /\ snap' \in Snapshot /\ snap'.revision = snap.revision + 1
           /\ snap'.status = snap.status /\ snap'.step = snap.step
           /\ snap'.history = Append(snap.history, m)
<1>1. snap.status \in RunStatus
    BY DEF Snapshot
<1> QED BY <1>1, CommitExtend

\* No call changes: the run keeps its status, ends, is paused for recovery, or
\* moves on because every call is answered.
LEMMA NoCallStep ==
    ASSUME IInv, TypeInv', \A g \in Harnesses : InPlace(g)',
           UNCHANGED <<calls, approvals, dispatches, retries>>, snap'.step = snap.step,
           \/ snap'.status \in {snap.status, "failed", "cancelled"}
           \/ snap.status \in Working /\ snap'.status = "paused_recovery"
           \/ /\ snap'.status \in Quiescent \ {"absent"}
              /\ \A fp \in Fingerprint : calls[fp].status \in {"absent", "result"}
    PROVE  IInv'
<1>1. OnlyThisStepOpen' /\ SerialExecution' /\ AllPaidFor'
    BY DEF IInv, OnlyThisStepOpen, SerialExecution, AllPaidFor
<1>2. StatusOfCalls'
    BY DEF IInv, StatusOfCalls, Quiescent, Working
<1>3. PausesAreResolvable'
    BY DEF IInv, PausesAreResolvable, Quiescent
<1>4. Unborn'
    BY DEF IInv, Unborn, Quiescent
<1> QED BY <1>1, <1>2, <1>3, <1>4 DEF IInv

\* The call in progress, or the first open one, changes its status, and the run
\* is paused exactly when the call is.
LEMMA OneCallStep ==
    ASSUME IInv, TypeInv', \A g \in Harnesses : InPlace(g)',
           NEW fp \in Fingerprint, NEW st \in Moved,
           SetCall(fp, st), snap'.step = snap.step, snap'.status \notin Quiescent,
           calls[fp].status \notin {"absent", "result"},
           calls[fp].status = "pending" => Predecessors(fp),
           snap'.status = "awaiting_approval" => st = "awaiting_approval",
           snap'.status = "effect_unknown" => st = "effect_unknown",
           st = "awaiting_approval" => snap'.status = "awaiting_approval",
           st = "effect_unknown" => snap'.status = "effect_unknown",
           PaidFor(calls'[fp], approvals'[fp], dispatches'[fp], retries'[fp]),
           \A g \in Fingerprint \ {fp} :
              /\ approvals'[g] = approvals[g] /\ dispatches'[g] = dispatches[g]
              /\ retries'[g] = retries[g]
    PROVE  IInv'
<1>0. TypeOK /\ OnlyThisStepOpen /\ SerialExecution /\ AllPaidFor
    BY DEF IInv, TypeInv
<1>1. /\ calls'[fp].status = st /\ calls'[fp].effect = calls[fp].effect
      /\ \A g \in Fingerprint \ {fp} : calls'[g] = calls[g]
    BY <1>0, SetCallEffect
<1>2. /\ fp[1] = snap.step /\ Predecessors(fp)
      /\ \A g \in Fingerprint \ {fp} :
            calls[g].status \in {"absent", "pending", "result"}
      /\ \A g \in Fingerprint : Before(fp, g)
            => calls[g].status \in {"absent", "pending"}
    BY <1>0, Alone
<1>3. OnlyThisStepOpen'
    <2> SUFFICES ASSUME NEW g \in Fingerprint
                 PROVE  /\ g[1] < snap'.step =>
                              calls'[g].status \in {"absent", "result"}
                        /\ g[1] > snap'.step => calls'[g].status = "absent"
        BY DEF OnlyThisStepOpen
    <2>1. CASE g = fp
        <3>1. snap.step \in Nat
            BY <1>0, BoundsAssumption DEF TypeOK, Snapshot
        <3> QED BY <2>1, <3>1, <1>2
    <2>2. CASE g # fp
        BY <2>2, <1>0, <1>1 DEF OnlyThisStepOpen
    <2> QED BY <2>1, <2>2
<1>4. SerialExecution'
    <2> SUFFICES ASSUME NEW f \in Fingerprint, NEW g \in Fingerprint, Before(f, g),
                        calls'[g].status \notin {"absent", "pending"}
                 PROVE  calls'[f].status \in {"absent", "result"}
        BY DEF SerialExecution
    <2>1. f # g
        BY BoundsAssumption DEF Before, Fingerprint
    <2>2. CASE g = fp
        BY <2>1, <2>2, <1>1, <1>2 DEF Predecessors
    <2>3. CASE f = fp
        BY <2>1, <2>3, <1>1, <1>2
    <2>4. CASE f # fp /\ g # fp
        BY <2>4, <1>0, <1>1 DEF SerialExecution
    <2> QED BY <2>2, <2>3, <2>4
<1>5. StatusOfCalls'
    BY <1>1, <1>2 DEF StatusOfCalls
<1>6. AllPaidFor'
    BY <1>0, <1>1 DEF AllPaidFor
<1>7. PausesAreResolvable'
    <2>1. /\ fp = <<snap'.step, fp[2]>> /\ fp[2] \in 1 .. MaxCalls /\ snap'.step >= 1
        BY <1>2, BoundsAssumption DEF Fingerprint
    <2>2. st = "awaiting_approval" => approvals'[fp] = "undecided"
        BY <1>1 DEF PaidFor
    <2> QED BY <1>1, <2>1, <2>2 DEF PausesAreResolvable
<1>8. Unborn'
    BY DEF Unborn, Quiescent
<1> QED BY <1>3, <1>4, <1>5, <1>6, <1>7, <1>8 DEF IInv

\* A call a drive processes was requested, approved, denied or dispatched.
LEMMA ProcessedStatus ==
    ASSUME IInv, NEW h \in Harnesses, NEW o \in 1 .. MaxCalls, Processing(h, o)
    PROVE  /\ <<snap.step, o>> \in Fingerprint /\ snap.status \in Working
           /\ calls[<<snap.step, o>>].status
                 \in {"requested", "approved", "denied", "dispatching"}
<1>1. <<snap.step, o>> \in Fingerprint
    BY ProcessedCall DEF IInv
<1>2. CASE drive[h].at = "requested" /\ drive[h].ordinal = o /\ Fresh(drive[h].held)
    <2>1. drive[h].held = snap
        BY <1>2 DEF IInv, TypeInv, HeldIsStored, HoldsCurrent, Suspended, Fresh
    <2> QED BY <1>1, <1>2, <2>1 DEF IInv, InPlace, HeldCall
<1>3. CASE snap.status \in Working /\ FirstOpen(snap.step, o)
           /\ calls[<<snap.step, o>>].status # "pending"
    <2>1. calls[<<snap.step, o>>].status \in CallStatus
        BY <1>1 DEF IInv, TypeInv, TypeOK, CallRecord
    <2> QED BY <1>1, <1>3, <2>1 DEF IInv, StatusOfCalls, FirstOpen, Working, CallStatus
<1> QED BY <1>2, <1>3 DEF Processing

\* The call a drive with a current snapshot executes is dispatching.
LEMMA ExecutedStatus ==
    ASSUME IInv, NEW h \in Harnesses, drive[h].at \in {"handler", "drain"},
           Fresh(drive[h].held)
    PROVE  /\ HeldCall(h) \in Fingerprint /\ drive[h].held = snap
           /\ calls[HeldCall(h)].status = "dispatching"
           /\ snap.status = "processing_reply"
<1>1. HeldCall(h) \in Fingerprint
    BY HeldCallType DEF IInv
<1>2. drive[h].held = snap
    BY DEF IInv, TypeInv, HeldIsStored, HoldsCurrent, Suspended, Fresh
<1> QED BY <1>1, <1>2 DEF IInv, InPlace
-----------------------------------------------------------------------------
\* The invariant.

\* The initial states satisfy the invariant.
LEMMA SafetyInit == Init => IInv
<1> SUFFICES ASSUME Init PROVE IInv
    OBVIOUS
<1>1. \A fp \in Fingerprint :
         /\ calls[fp].status = "absent" /\ approvals[fp] = "absent"
         /\ dispatches[fp] = 0 /\ retries[fp] = 0
    BY DEF Init, NoCall
<1>2. \A h \in Harnesses : drive[h].at = "idle"
    BY DEF Init, NoDrive
<1>3. snap.status = "absent" /\ snap.step = 0
    BY DEF Init, NoRun
<1>4. (\A h \in Harnesses : InPlace(h)) /\ OnlyThisStepOpen /\ SerialExecution
    BY <1>1, <1>2 DEF InPlace, OnlyThisStepOpen, SerialExecution
<1>5. StatusOfCalls /\ AllPaidFor /\ PausesAreResolvable /\ Unborn
    BY <1>1, <1>3 DEF StatusOfCalls, AllPaidFor, PaidFor, PausesAreResolvable, Unborn
<1> QED BY <1>4, <1>5, TypeInit DEF IInv

\* Every step preserves the invariant: one step per action of Next.
LEMMA SafetyStep == IInv /\ [Next]_vars => IInv'
<1> SUFFICES ASSUME IInv, [Next]_vars PROVE IInv'
    OBVIOUS
<1>0. /\ snap \in Snapshot /\ drive \in [Harnesses -> Drive] /\ TypeInv /\ TypeOK
      /\ \A g \in Harnesses : InPlace(g)
      /\ approvals \in [Fingerprint -> Decision]
      /\ dispatches \in [Fingerprint -> Nat] /\ retries \in [Fingerprint -> Nat]
    BY DEF IInv, TypeInv, TypeOK
<1>t. TypeInv'
    BY TypeStep DEF IInv
<1>r. NoDrive \in Drive /\ NoDrive.at = "idle" /\ AtLoop \in Drive /\ AtLoop.at = "loop"
    BY ConstantRecords DEF NoDrive, AtLoop
<1>h. ASSUME NEW h \in Harnesses, drive[h].at \in Suspended, Fresh(drive[h].held)
      PROVE  drive[h].held = snap
    BY <1>h DEF TypeInv, IInv, HeldIsStored, HoldsCurrent, Fresh
<1>p. \A fp \in Fingerprint :
         PaidFor(calls[fp], approvals[fp], dispatches[fp], retries[fp])
    BY DEF IInv, AllPaidFor
<1>1. ASSUME NEW h \in Harnesses, Start(h)
      PROVE  IInv'
    <2>1. snap.step = 0 /\ \A fp \in Fingerprint :
             calls[fp].status \in {"absent", "result"}
        BY <1>1 DEF IInv, Unborn, StatusOfCalls, Quiescent, Start
    <2>2. snap' = [[NoRun EXCEPT !.status = "ready_model"]
                     EXCEPT !.revision = snap.revision + 1]
        BY <1>1 DEF Start, Commit
    <2>3. snap'.step = 0 /\ snap'.status = "ready_model"
          /\ snap'.revision = snap.revision + 1
        BY <2>2 DEF NoRun
    <2>4. \A g \in Harnesses : InPlace(g)'
        BY <1>1, <2>3, <1>0, <1>r, PlaceRest DEF Start
    <2> QED BY <1>1, <2>1, <2>3, <2>4, <1>t, NoCallStep DEF Start, history, Quiescent
<1>2. ASSUME NEW h \in Harnesses, Resume(h)
      PROVE  IInv'
    <2>1. UNCHANGED <<snap, calls, approvals, dispatches, retries>> /\ Goto(h, AtLoop)
        BY <1>2 DEF Resume, Leave, store, history
    <2>2. \A g \in Harnesses : InPlace(g)'
        BY <2>1, <1>0, <1>r, PlaceRest
    <2> QED BY <2>1, <2>2, <1>t, NoCallStep
<1>3. ASSUME NEW h \in Harnesses, LeaveLoop(h)
      PROVE  IInv'
    <2>1. UNCHANGED <<snap, calls, approvals, dispatches, retries>> /\ Goto(h, NoDrive)
        BY <1>3 DEF LeaveLoop, Leave, store, history
    <2>2. \A g \in Harnesses : InPlace(g)'
        BY <2>1, <1>0, <1>r, PlaceRest
    <2> QED BY <2>1, <2>2, <1>t, NoCallStep
<1>4. ASSUME NEW h \in Harnesses, Rejected(h)
      PROVE  IInv'
    <2>1. UNCHANGED <<snap, calls, approvals, dispatches, retries>> /\ Goto(h, NoDrive)
        BY <1>4 DEF Rejected, Leave, store, history
    <2>2. \A g \in Harnesses : InPlace(g)'
        BY <2>1, <1>0, <1>r, PlaceRest
    <2> QED BY <2>1, <2>2, <1>t, NoCallStep
<1>5. ASSUME NEW h \in Harnesses, Crash(h)
      PROVE  IInv'
    <2>1. UNCHANGED <<snap, calls, approvals, dispatches, retries>> /\ Goto(h, NoDrive)
        BY <1>5 DEF Crash, Leave, store, history
    <2>2. \A g \in Harnesses : InPlace(g)'
        BY <2>1, <1>0, <1>r, PlaceRest
    <2> QED BY <2>1, <2>2, <1>t, NoCallStep
<1>6. ASSUME NEW h \in Harnesses, NEW o \in 1 .. MaxCalls, AwaitDecision(h, o)
      PROVE  IInv'
    <2>1. UNCHANGED <<snap, calls, approvals, dispatches, retries>> /\ Goto(h, NoDrive)
        BY <1>6 DEF AwaitDecision, Leave, store, history
    <2>2. \A g \in Harnesses : InPlace(g)'
        BY <2>1, <1>0, <1>r, PlaceRest
    <2> QED BY <2>1, <2>2, <1>t, NoCallStep
<1>7. ASSUME NEW h \in Harnesses, CommitFinal(h)
      PROVE  IInv'
    <2>1. /\ snap'.revision = snap.revision + 1 /\ snap'.status = "completed"
          /\ snap'.step = snap.step
          /\ Goto(h, NoDrive) /\ UNCHANGED <<calls, approvals, dispatches, retries>>
        BY <1>7, <1>0, StatusFacts, CommitStatus DEF CommitFinal, Leave, history
    <2>2. \A g \in Harnesses : InPlace(g)'
        BY <2>1, <1>0, <1>r, PlaceRest
    <2>3. \A fp \in Fingerprint : calls[fp].status \in {"absent", "result"}
        BY <1>7 DEF CommitFinal, IInv, StatusOfCalls, Quiescent
    <2> QED BY <2>1, <2>2, <2>3, <1>t, NoCallStep DEF Quiescent
<1>8. ASSUME NEW h \in Harnesses, ExceedMaxSteps(h)
      PROVE  IInv'
    <2>1. /\ snap'.revision = snap.revision + 1 /\ snap'.status = "failed"
          /\ snap'.step = snap.step
          /\ Goto(h, NoDrive) /\ UNCHANGED <<calls, approvals, dispatches, retries>>
        BY <1>8, <1>0, StatusFacts, CommitStatus DEF ExceedMaxSteps, Leave, history
    <2>2. \A g \in Harnesses : InPlace(g)'
        BY <2>1, <1>0, <1>r, PlaceRest
    <2> QED BY <2>1, <2>2, <1>t, NoCallStep
<1>9. ASSUME NEW h \in Harnesses, FailModel(h)
      PROVE  IInv'
    <2>1. /\ snap'.revision = snap.revision + 1 /\ snap'.status = "failed"
          /\ snap'.step = snap.step
          /\ Goto(h, NoDrive) /\ UNCHANGED <<calls, approvals, dispatches, retries>>
        BY <1>9, <1>0, <1>h, StatusFacts, CommitStatus
           DEF FailModel, Leave, history, Suspended
    <2>2. \A g \in Harnesses : InPlace(g)'
        BY <2>1, <1>0, <1>r, PlaceRest
    <2> QED BY <2>1, <2>2, <1>t, NoCallStep
<1>10. ASSUME NEW h \in Harnesses, NEW reply \in Replies, FailDuplicate(h, reply)
      PROVE  IInv'
    <2>1. /\ snap'.revision = snap.revision + 1 /\ snap'.status = "failed"
          /\ snap'.step = snap.step
          /\ Goto(h, NoDrive) /\ UNCHANGED <<calls, approvals, dispatches, retries>>
        BY <1>10, <1>0, StatusFacts, CommitStatus DEF FailDuplicate, Leave, history
    <2>2. \A g \in Harnesses : InPlace(g)'
        BY <2>1, <1>0, <1>r, PlaceRest
    <2> QED BY <2>1, <2>2, <1>t, NoCallStep
<1>11. ASSUME NEW h \in Harnesses, FinishReply(h)
      PROVE  IInv'
    <2>1. /\ snap'.revision = snap.revision + 1 /\ snap'.status = "ready_model"
          /\ snap'.step = snap.step
          /\ UNCHANGED <<drive, calls, approvals, dispatches, retries>>
        BY <1>11, <1>0, StatusFacts, CommitStatus DEF FinishReply, history
    <2>2. \A g \in Harnesses : InPlace(g)'
        BY <2>1, <1>0, PlaceStay
    <2>3. ASSUME NEW fp \in Fingerprint PROVE calls[fp].status \in {"absent", "result"}
        <3>1. fp = <<fp[1], fp[2]>> /\ fp[1] \in 1 .. MaxSteps
              /\ fp[2] \in 1 .. MaxCalls
            BY DEF Fingerprint
        <3>2. CASE fp[1] = snap.step
            BY <1>11, <3>1, <3>2, BoundsAssumption DEF FinishReply, NoneOpen
        <3>3. CASE fp[1] # snap.step
            BY <3>1, <3>3, <1>0, BoundsAssumption DEF IInv, OnlyThisStepOpen, Snapshot
        <3> QED BY <3>2, <3>3
    <2> QED BY <2>1, <2>2, <2>3, <1>t, NoCallStep DEF Quiescent
<1>12. ASSUME NEW h \in Harnesses, StartModel(h)
      PROVE  IInv'
    <2> DEFINE d == Suspend("model", snap', 0)
    <2>1. /\ snap' \in Snapshot /\ snap'.revision = snap.revision + 1
          /\ snap'.status = snap.status /\ snap'.step = snap.step
          /\ snap.status = "ready_model"
          /\ Goto(h, d) /\ UNCHANGED <<calls, approvals, dispatches, retries>>
        BY <1>12, <1>0, CommitType DEF StartModel, history
    <2>2. d.at = "model"
        BY <2>1, BoundsAssumption, SuspendType DEF Location
    <2> HIDE DEF d
    <2>3. drive'[h] = d /\ \A g \in Harnesses \ {h} : InPlace(g)'
        BY <2>1, <1>0, PlaceOthers
    <2>4. InPlace(h)'
        BY <2>1, <2>2, <2>3 DEF InPlace
    <2>5. \A g \in Harnesses : InPlace(g)'
        BY <2>3, <2>4
    <2> QED BY <2>1, <2>5, <1>t, NoCallStep
<1>13. ASSUME NEW h \in Harnesses, NEW returned \in BOOLEAN, HandlerEnds(h, returned)
      PROVE  IInv'
    <2>1. UNCHANGED <<snap, calls, approvals, dispatches, retries>>
        BY <1>13 DEF HandlerEnds, store
    <2>2. /\ drive'[h].held = drive[h].held /\ drive'[h].ordinal = drive[h].ordinal
          /\ drive'[h].at = "drain" /\ drive[h].at = "handler"
          /\ \A g \in Harnesses \ {h} : drive'[g] = drive[g]
        BY <1>13, <1>0 DEF HandlerEnds, Goto, Drive
    <2>3. \A g \in Harnesses : InPlace(g)'
        BY <2>1, <2>2, <1>0 DEF InPlace, HeldCall, Fresh
    <2> QED BY <2>1, <2>3, <1>t, NoCallStep
<1>14. ASSUME NEW h \in Harnesses, CancelElsewhere(h)
      PROVE  IInv'
    <2> DEFINE d == [NoDrive EXCEPT !.at = "cancelling"]
    <2>1. UNCHANGED <<snap, calls, approvals, dispatches, retries>> /\ Goto(h, d)
        BY <1>14 DEF CancelElsewhere, store
    <2>2. d \in Drive /\ d.at = "cancelling"
        BY CancellingType DEF NoDrive
    <2> HIDE DEF d
    <2>3. \A g \in Harnesses : InPlace(g)'
        BY <2>1, <2>2, <1>0, PlaceRest
    <2> QED BY <2>1, <2>3, <1>t, NoCallStep
<1>15. ASSUME NEW h \in Harnesses, CommitCancelled(h)
      PROVE  IInv'
    <2>1. /\ UNCHANGED <<calls, approvals, dispatches, retries>> /\ Goto(h, NoDrive)
          /\ \/ snap' = snap
             \/ snap'.revision = snap.revision + 1 /\ snap'.status = "cancelled"
                /\ snap'.step = snap.step
        BY <1>15, <1>0, StatusFacts, CommitStatus DEF CommitCancelled, Leave, history
    <2>2. \A g \in Harnesses : InPlace(g)'
        BY <2>1, <1>0, <1>r, PlaceRest
    <2> QED BY <2>1, <2>2, <1>t, NoCallStep
<1>16. ASSUME NEW h \in Harnesses, NEW cat \in Catalogs, Redeploy(h, cat)
      PROVE  IInv'
    <2>1. UNCHANGED <<snap, drive, calls, approvals, dispatches, retries>>
        BY <1>16 DEF Redeploy, store
    <2>2. \A g \in Harnesses : InPlace(g)'
        BY <2>1, <1>0, PlaceStay
    <2> QED BY <2>1, <2>2, <1>t, NoCallStep
<1>17. ASSUME NEW h \in Harnesses, NEW o \in 1 .. MaxCalls, RequestCall(h, o)
      PROVE  IInv'
    <2> DEFINE fp == <<snap.step, o>>
               d == Suspend("requested", snap', o)
    <2>0. fp \in Fingerprint
        BY <1>17, <1>0, ProcessedCall DEF RequestCall
    <2>1. /\ snap' \in Snapshot /\ snap'.revision = snap.revision + 1
          /\ snap'.status = snap.status /\ snap'.step = snap.step
          /\ snap.status \in Working /\ calls[fp].status = "pending"
          /\ SetCall(fp, "requested") /\ Goto(h, d)
          /\ UNCHANGED <<approvals, dispatches, retries>>
        BY <1>17, <1>0, CommitType DEF RequestCall, history
    <2>2. calls'[fp].status = "requested" /\ calls'[fp].effect = calls[fp].effect
        BY <2>0, <2>1, <1>0, SetCallEffect
    <2>3. d.held = snap' /\ d.at = "requested" /\ d.ordinal = o
        BY <2>1, BoundsAssumption, SuspendType DEF Location
    <2>4. Predecessors(fp)
        BY <1>17, FirstOpenOrder DEF Predecessors, RequestCall, IInv
    <2> HIDE DEF d
    <2>5. drive'[h] = d /\ \A g \in Harnesses \ {h} : InPlace(g)'
        BY <2>1, <1>0, PlaceOthers
    <2>6. InPlace(h)'
        BY <2>1, <2>2, <2>3, <2>5 DEF InPlace, HeldCall
    <2>7. \A g \in Harnesses : InPlace(g)'
        BY <2>5, <2>6
    <2>8. PaidFor(calls'[fp], approvals'[fp], dispatches'[fp], retries'[fp])
        BY <2>0, <2>1, <2>2, <1>p DEF PaidFor, Unstarted
    <2> HIDE DEF fp
    <2> QED
        BY <2>0, <2>1, <2>4, <2>7, <2>8, <1>t, StatusFacts, OneCallStep
<1>18. ASSUME NEW h \in Harnesses, NEW o \in 1 .. MaxCalls, RefuseCall(h, o)
      PROVE  IInv'
    <2> DEFINE fp == <<snap.step, o>>
    <2>0. fp \in Fingerprint
          /\ calls[fp].status \in {"requested", "approved", "denied", "dispatching"}
        BY <1>18, ProcessedStatus DEF RefuseCall
    <2>m. Answer(fp, TRUE) \in Message
        BY <2>0, AnswerType
    <2>1. /\ snap'.revision = snap.revision + 1 /\ snap'.status = "processing_reply"
          /\ snap'.step = snap.step
        BY <1>18, <2>m, <1>0, StatusFacts, CommitExtend DEF RefuseCall
    <2>2. SetCall(fp, "result") /\ Goto(h, AtLoop)
          /\ UNCHANGED <<approvals, dispatches, retries>>
        BY <1>18 DEF RefuseCall, history
    <2>3. \A g \in Harnesses : InPlace(g)'
        BY <2>1, <2>2, <1>0, <1>r, PlaceRest
    <2>4. calls'[fp].status = "result" /\ calls'[fp].effect = calls[fp].effect
        BY <2>0, <2>2, <1>0, SetCallEffect
    <2>5. PaidFor(calls'[fp], approvals'[fp], dispatches'[fp], retries'[fp])
        BY <2>0, <2>2, <2>4, <1>p DEF PaidFor, Unstarted
    <2> HIDE DEF fp
    <2> QED
        BY <2>0, <2>1, <2>2, <2>3, <2>5, <1>t, StatusFacts, OneCallStep
<1>19. ASSUME NEW h \in Harnesses, NEW o \in 1 .. MaxCalls, MarkEffectUnknown(h, o)
      PROVE  IInv'
    <2> DEFINE fp == <<snap.step, o>>
    <2>0. fp \in Fingerprint
          /\ calls[fp].status \in {"requested", "approved", "denied", "dispatching"}
        BY <1>19, ProcessedStatus DEF MarkEffectUnknown
    <2>1. /\ snap'.revision = snap.revision + 1 /\ snap'.status = "effect_unknown"
          /\ snap'.step = snap.step
        BY <1>19, <1>0, StatusFacts, CommitStatus DEF MarkEffectUnknown
    <2>2. SetCall(fp, "effect_unknown") /\ Goto(h, NoDrive)
          /\ UNCHANGED <<approvals, dispatches, retries>>
        BY <1>19 DEF MarkEffectUnknown, Leave, history
    <2>3. \A g \in Harnesses : InPlace(g)'
        BY <2>1, <2>2, <1>0, <1>r, PlaceRest
    <2>4. calls'[fp].status = "effect_unknown" /\ calls'[fp].effect = calls[fp].effect
        BY <2>0, <2>2, <1>0, SetCallEffect
    <2>5. PaidFor(calls'[fp], approvals'[fp], dispatches'[fp], retries'[fp])
        BY <2>0, <2>2, <2>4, <1>p DEF PaidFor, Unstarted
    <2> HIDE DEF fp
    <2> QED
        BY <2>0, <2>1, <2>2, <2>3, <2>5, <1>t, StatusFacts, OneCallStep
<1>20. ASSUME NEW h \in Harnesses, NEW o \in 1 .. MaxCalls, RequestApproval(h, o)
      PROVE  IInv'
    <2> DEFINE fp == <<snap.step, o>>
    <2>0. fp \in Fingerprint /\ calls[fp].status = "requested"
        BY <1>20, ProcessedStatus DEF RequestApproval, Verdict
    <2>1. /\ snap'.revision = snap.revision + 1 /\ snap'.status = "awaiting_approval"
          /\ snap'.step = snap.step
        BY <1>20, <1>0, StatusFacts, CommitStatus DEF RequestApproval
    <2>2. /\ SetCall(fp, "awaiting_approval") /\ Goto(h, NoDrive)
          /\ UNCHANGED <<dispatches, retries>>
          /\ approvals' = [approvals EXCEPT ![fp] = "undecided"]
        BY <1>20 DEF RequestApproval, Leave, history
    <2>3. \A g \in Harnesses : InPlace(g)'
        BY <2>1, <2>2, <1>0, <1>r, PlaceRest
    <2>4. calls'[fp].status = "awaiting_approval"
          /\ calls'[fp].effect = calls[fp].effect
        BY <2>0, <2>2, <1>0, SetCallEffect
    <2> HIDE DEF fp
    <2>a. approvals'[fp] = "undecided" /\ \A g \in Fingerprint \ {fp} :
             approvals'[g] = approvals[g]
        BY <2>0, <2>2, <1>0
    <2>5. PaidFor(calls'[fp], approvals'[fp], dispatches'[fp], retries'[fp])
        BY <2>0, <2>2, <2>4, <2>a, <1>p DEF PaidFor, Unstarted
    <2> QED
        BY <2>0, <2>1, <2>2, <2>3, <2>5, <2>a, <1>t, StatusFacts, OneCallStep
<1>21. ASSUME NEW h \in Harnesses, NEW o \in 1 .. MaxCalls, DispatchCall(h, o)
      PROVE  IInv'
    <2> DEFINE fp == <<snap.step, o>>
               d == Suspend("handler", snap', o)
    <2>0. fp \in Fingerprint
          /\ calls[fp].status \in {"requested", "approved", "denied", "dispatching"}
        BY <1>21, ProcessedStatus DEF DispatchCall
    <2>v. calls[fp].effect # "read_only" =>
             /\ approvals[fp] = "approved" /\ calls[fp].status # "denied"
             /\ calls[fp].effect = "side_effecting" => calls[fp].status # "dispatching"
        <3>1. approvals[fp] \in Decision
            BY <2>0, <1>0
        <3> QED BY <1>21, <3>1 DEF DispatchCall, Verdict, Undecided, InDoubt, Decision
    <2>1. /\ snap' \in Snapshot /\ snap'.revision = snap.revision + 1
          /\ snap'.status = "processing_reply" /\ snap'.step = snap.step
        BY <1>21, <1>0, StatusFacts, CommitStatus DEF DispatchCall
    <2>2. /\ SetCall(fp, "dispatching") /\ Goto(h, d)
          /\ UNCHANGED <<approvals, retries>>
          /\ dispatches' = [dispatches EXCEPT ![fp] = @ + 1]
        BY <1>21 DEF DispatchCall
    <2>3. d.held = snap' /\ d.at = "handler" /\ d.ordinal = o
        BY <2>1, BoundsAssumption, SuspendType DEF Location
    <2>4. calls'[fp].status = "dispatching" /\ calls'[fp].effect = calls[fp].effect
        BY <2>0, <2>2, <1>0, SetCallEffect
    <2> HIDE DEF d
    <2>5. drive'[h] = d /\ \A g \in Harnesses \ {h} : InPlace(g)'
        BY <2>1, <2>2, <1>0, PlaceOthers
    <2>6. InPlace(h)'
        BY <2>1, <2>3, <2>4, <2>5 DEF InPlace, HeldCall
    <2>7. \A g \in Harnesses : InPlace(g)'
        BY <2>5, <2>6
    <2> HIDE DEF fp
    <2>a. dispatches'[fp] = dispatches[fp] + 1 /\ \A g \in Fingerprint \ {fp} :
             dispatches'[g] = dispatches[g]
        BY <2>0, <2>2, <1>0
    <2>8. PaidFor(calls'[fp], approvals'[fp], dispatches'[fp], retries'[fp])
        <3>1. dispatches[fp] \in Nat /\ retries[fp] \in Nat
            BY <2>0, <1>0
        <3>2. calls[fp].effect = "side_effecting" => dispatches[fp] <= retries[fp]
            BY <3>1, <2>0, <2>v, <1>p DEF PaidFor, Unstarted
        <3>3. approvals[fp] # "undecided"
            BY <2>0, <1>p DEF PaidFor
        <3> QED BY <3>1, <3>2, <3>3, <2>2, <2>4, <2>a, <2>v DEF PaidFor, Unstarted
    <2> QED
        BY <2>0, <2>1, <2>2, <2>7, <2>8, <2>a, <1>t, StatusFacts, OneCallStep
<1>22. ASSUME NEW h \in Harnesses, CommitResult(h)
      PROVE  IInv'
    <2> DEFINE fp == HeldCall(h)
               failed == ~drive[h].returned
               m == Answer(fp, failed)
    <2>0. fp \in Fingerprint /\ drive[h].held = snap /\ calls[fp].status = "dispatching"
          /\ snap.status = "processing_reply"
        BY <1>22, ExecutedStatus DEF CommitResult
    <2>f. failed \in BOOLEAN
        BY Zenon
    <2>2. /\ Commit(Extend(snap, snap.status, m)) /\ SetCall(fp, "result")
          /\ Goto(h, AtLoop)
          /\ UNCHANGED <<approvals, dispatches, retries>>
        BY <1>22, <2>0 DEF CommitResult, history
    <2> HIDE DEF failed
    <2>m. m \in Message
        BY <2>0, <2>f, AnswerType
    <2> HIDE DEF fp, m
    <2>1. /\ snap'.revision = snap.revision + 1 /\ snap'.status = snap.status
          /\ snap'.step = snap.step
        BY <2>0, <2>m, <2>2, <1>0, CommitExtendSame
    <2>3. \A g \in Harnesses : InPlace(g)'
        BY <2>1, <2>2, <1>0, <1>r, PlaceRest
    <2>4. calls'[fp].status = "result" /\ calls'[fp].effect = calls[fp].effect
        BY <2>0, <2>2, <1>0, SetCallEffect
    <2>5. PaidFor(calls'[fp], approvals'[fp], dispatches'[fp], retries'[fp])
        BY <2>0, <2>2, <2>4, <1>p DEF PaidFor, Unstarted
    <2> QED
        BY <2>0, <2>1, <2>2, <2>3, <2>5, <1>t, StatusFacts, OneCallStep
<1>23. ASSUME NEW h \in Harnesses, PauseUnknown(h)
      PROVE  IInv'
    <2> DEFINE fp == HeldCall(h)
    <2>0. fp \in Fingerprint /\ drive[h].held = snap /\ calls[fp].status = "dispatching"
          /\ snap.status = "processing_reply"
        BY <1>23, ExecutedStatus DEF PauseUnknown
    <2>1. CASE calls[fp].effect = "idempotent"
        <3>1. /\ snap'.revision = snap.revision + 1 /\ snap'.status = "paused_recovery"
              /\ snap'.step = snap.step /\ Goto(h, NoDrive)
              /\ UNCHANGED <<calls, approvals, dispatches, retries>>
            BY <1>23, <2>0, <2>1, <1>0, StatusFacts, CommitStatus
               DEF PauseUnknown, Leave, history
        <3>2. \A g \in Harnesses : InPlace(g)'
            BY <3>1, <1>0, <1>r, PlaceRest
        <3> QED BY <3>1, <3>2, <2>0, <1>t, NoCallStep DEF Working
    <2>2. CASE calls[fp].effect # "idempotent"
        <3>1. /\ snap'.revision = snap.revision + 1 /\ snap'.status = "effect_unknown"
              /\ snap'.step = snap.step /\ Goto(h, NoDrive)
              /\ SetCall(fp, "effect_unknown")
              /\ UNCHANGED <<approvals, dispatches, retries>>
            BY <1>23, <2>0, <2>2, <1>0, StatusFacts, CommitStatus
               DEF PauseUnknown, Leave, history
        <3>2. \A g \in Harnesses : InPlace(g)'
            BY <3>1, <1>0, <1>r, PlaceRest
        <3>3. calls'[fp].status = "effect_unknown"
              /\ calls'[fp].effect = calls[fp].effect
            BY <2>0, <3>1, <1>0, SetCallEffect
        <3>4. PaidFor(calls'[fp], approvals'[fp], dispatches'[fp], retries'[fp])
            BY <2>0, <3>1, <3>3, <1>p DEF PaidFor, Unstarted
        <3> HIDE DEF fp
        <3> QED
            BY <2>0, <3>1, <3>2, <3>4, <1>t, StatusFacts, OneCallStep
    <2> QED BY <2>1, <2>2
<1>24. ASSUME NEW h \in Harnesses, CancelHandler(h)
      PROVE  IInv'
    <2> DEFINE fp == HeldCall(h)
               d == [NoDrive EXCEPT !.at = "cancelling"]
    <2>d. d \in Drive /\ d.at = "cancelling"
        BY CancellingType DEF NoDrive
    <2>u. UNCHANGED <<approvals, dispatches, retries>>
        BY <1>24 DEF CancelHandler
    <2>1. CASE Fresh(drive[h].held)
        <3>0. fp \in Fingerprint /\ drive[h].held = snap
              /\ calls[fp].status = "dispatching"
            BY <1>24, <2>1, ExecutedStatus DEF CancelHandler
        <3>1. /\ snap'.revision = snap.revision + 1 /\ snap'.status = "effect_unknown"
              /\ snap'.step = snap.step /\ Goto(h, d) /\ SetCall(fp, "effect_unknown")
            BY <1>24, <2>1, <3>0, <1>0, StatusFacts, CommitStatus DEF CancelHandler
        <3> HIDE DEF d
        <3>2. \A g \in Harnesses : InPlace(g)'
            BY <3>1, <2>d, <1>0, PlaceRest
        <3>3. calls'[fp].status = "effect_unknown"
              /\ calls'[fp].effect = calls[fp].effect
            BY <3>0, <3>1, <1>0, SetCallEffect
        <3>4. PaidFor(calls'[fp], approvals'[fp], dispatches'[fp], retries'[fp])
            BY <3>0, <2>u, <3>3, <1>p DEF PaidFor, Unstarted
        <3> HIDE DEF fp
        <3> QED
            BY <3>0, <3>1, <2>u, <3>2, <3>4, <1>t, StatusFacts, OneCallStep
    <2>2. CASE ~Fresh(drive[h].held)
        <3>1. UNCHANGED <<snap, calls>> /\ Goto(h, NoDrive)
            BY <1>24, <2>2 DEF CancelHandler, Leave
        <3>2. \A g \in Harnesses : InPlace(g)'
            BY <3>1, <1>0, <1>r, PlaceRest
        <3> QED BY <2>u, <3>1, <3>2, <1>t, NoCallStep
    <2> QED BY <2>1, <2>2
<1>25. ASSUME NEW fp \in Fingerprint,
              NEW answer \in BOOLEAN, ResolveApproval(fp, answer)
      PROVE  IInv'
    <2> DEFINE decision == IF answer THEN "approved" ELSE "denied"
    <2>0. calls[fp].status = "awaiting_approval" /\ decision \in {"approved", "denied"}
        BY <1>25, <1>p DEF ResolveApproval, PaidFor
    <2>1. /\ snap'.revision = snap.revision + 1 /\ snap'.status = "awaiting_resume"
          /\ snap'.step = snap.step
        BY <1>25, <1>0, StatusFacts, CommitStatus DEF ResolveApproval
    <2>2. /\ SetCall(fp, decision) /\ UNCHANGED <<drive, dispatches, retries>>
          /\ approvals' = [approvals EXCEPT ![fp] = decision]
        BY <1>25 DEF ResolveApproval, history
    <2> HIDE DEF decision
    <2>3. \A g \in Harnesses : InPlace(g)'
        BY <2>1, <2>2, <1>0, PlaceStay
    <2>4. calls'[fp].status = decision /\ calls'[fp].effect = calls[fp].effect
        BY <2>2, <1>0, SetCallEffect
    <2>a. approvals'[fp] = decision /\ \A g \in Fingerprint \ {fp} :
             approvals'[g] = approvals[g]
        BY <2>2, <1>0
    <2>5. PaidFor(calls'[fp], approvals'[fp], dispatches'[fp], retries'[fp])
        <3>1. dispatches[fp] = 0 /\ retries[fp] \in Nat
            BY <2>0, <1>0, <1>p DEF PaidFor, Unstarted
        <3> QED BY <3>1, <2>0, <2>2, <2>4, <2>a DEF PaidFor, Unstarted
    <2>6. decision \in Moved /\ decision \notin {"awaiting_approval", "effect_unknown"}
        BY <2>0 DEF Moved, CallStatus
    <2> QED
        BY <2>0, <2>1, <2>2, <2>3, <2>5, <2>6, <2>a, <1>t, StatusFacts, OneCallStep
<1>26. ASSUME NEW fp \in Fingerprint, NEW failed \in BOOLEAN, SettleEffect(fp, failed)
      PROVE  IInv'
    <2> DEFINE status == IF snap.status = "cancelled" THEN "cancelled" ELSE "awaiting_resume"
    <2>0. calls[fp].status = "effect_unknown"
          /\ status \in {"cancelled", "awaiting_resume"}
        BY <1>26 DEF SettleEffect, Reconcilable
    <2>m. Answer(fp, failed) \in Message
        BY AnswerType
    <2>2. /\ Commit(Extend(snap, status, Answer(fp, failed))) /\ SetCall(fp, "result")
          /\ UNCHANGED <<drive, approvals, dispatches, retries>>
        BY <1>26 DEF SettleEffect, history
    <2> HIDE DEF status
    <2>1. /\ snap'.revision = snap.revision + 1 /\ snap'.status = status
          /\ snap'.step = snap.step
        BY <2>0, <2>m, <2>2, <1>0, StatusFacts, CommitExtend
    <2>3. \A g \in Harnesses : InPlace(g)'
        BY <2>1, <2>2, <1>0, PlaceStay
    <2>4. calls'[fp].status = "result" /\ calls'[fp].effect = calls[fp].effect
        BY <2>2, <1>0, SetCallEffect
    <2>5. PaidFor(calls'[fp], approvals'[fp], dispatches'[fp], retries'[fp])
        BY <2>0, <2>2, <2>4, <1>p DEF PaidFor, Unstarted
    <2> QED
        BY <2>0, <2>1, <2>2, <2>3, <2>5, <1>t, StatusFacts, OneCallStep
<1>27. ASSUME NEW fp \in Fingerprint, RetryEffect(fp)
      PROVE  IInv'
    <2>0. calls[fp].status = "effect_unknown"
        BY <1>27 DEF RetryEffect, Reconcilable
    <2>1. /\ snap'.revision = snap.revision + 1 /\ snap'.status = "awaiting_resume"
          /\ snap'.step = snap.step
        BY <1>27, <1>0, StatusFacts, CommitStatus DEF RetryEffect
    <2>2. /\ SetCall(fp, "approved") /\ UNCHANGED <<drive, approvals, dispatches>>
          /\ retries' = [retries EXCEPT ![fp] = @ + 1]
        BY <1>27 DEF RetryEffect
    <2>3. \A g \in Harnesses : InPlace(g)'
        BY <2>1, <2>2, <1>0, PlaceStay
    <2>4. calls'[fp].status = "approved" /\ calls'[fp].effect = calls[fp].effect
        BY <2>2, <1>0, SetCallEffect
    <2>a. retries'[fp] = retries[fp] + 1 /\ \A g \in Fingerprint \ {fp} :
             retries'[g] = retries[g]
        BY <2>2, <1>0
    <2>5. PaidFor(calls'[fp], approvals'[fp], dispatches'[fp], retries'[fp])
        <3>1. dispatches[fp] \in Nat /\ retries[fp] \in Nat
            BY <1>0
        <3> QED BY <3>1, <2>0, <2>2, <2>4, <2>a, <1>p DEF PaidFor, Unstarted
    <2> QED
        BY <2>0, <2>1, <2>2, <2>3, <2>5, <2>a, <1>t, StatusFacts, OneCallStep
<1>28. ASSUME NEW h \in Harnesses, NEW reply \in Replies, AcceptReply(h, reply)
      PROVE  IInv'
    <2> DEFINE step == snap.step + 1
               New(fp) == fp[1] = step /\ fp[2] <= Len(reply)
    <2>1. drive[h].held = snap /\ snap.status = "ready_model" /\ snap.step \in Nat
          /\ snap.step < MaxSteps
        BY <1>28, <1>0, <1>h
           DEF AcceptReply, Suspended, InPlace, TypeInv, HeldOK, DriveOK, Snapshot
    <2>2. \A fp \in Fingerprint :
             /\ calls[fp].status \in {"absent", "result"}
             /\ fp[1] >= step => calls[fp].status = "absent"
        BY <2>1 DEF IInv, StatusOfCalls, Quiescent, OnlyThisStepOpen, Fingerprint
    <2>3. /\ snap'.revision = snap.revision + 1 /\ snap'.step = step
          /\ snap'.status \in {"pending_final", "processing_reply"}
          /\ snap'.status = "pending_final" => reply = <<>>
        BY <1>28, <2>1 DEF AcceptReply, Commit, Extend, Snapshot
    <2>4. \A g \in Harnesses : InPlace(g)'
        BY <1>28, <2>3, <1>0, <1>r, PlaceRest DEF AcceptReply
    <2>5. \A fp \in Fingerprint :
             calls'[fp] = IF New(fp) THEN NewCall(h, reply[fp[2]]) ELSE calls[fp]
        BY <1>28, <2>1 DEF AcceptReply
    <2>6. \A fp \in Fingerprint : New(fp) => calls'[fp].status = "pending"
             /\ calls[fp].status = "absent"
        <3> SUFFICES ASSUME NEW fp \in Fingerprint, New(fp)
                     PROVE  calls'[fp].status = "pending" /\ calls[fp].status = "absent"
            OBVIOUS
        <3>1. fp[2] \in 1 .. Len(reply) /\ fp[1] >= step
            BY <2>1, BoundsAssumption DEF Fingerprint, Replies
        <3>2. NewCall(h, reply[fp[2]]).status = "pending"
            BY DEF NewCall
        <3> QED BY <3>1, <3>2, <2>2, <2>5
    <2>7. \A fp \in Fingerprint : ~New(fp) => calls'[fp] = calls[fp]
        BY <2>5
    <2>8. UNCHANGED <<approvals, dispatches, retries>>
        BY <1>28 DEF AcceptReply, history
    <2>9. OnlyThisStepOpen'
        BY <2>1, <2>2, <2>3, <2>6, <2>7 DEF OnlyThisStepOpen, Fingerprint
    <2>10. SerialExecution' /\ PausesAreResolvable' /\ Unborn'
        <3>1. \A fp \in Fingerprint :
                 calls'[fp].status \in {"absent", "pending", "result"}
            BY <2>2, <2>6, <2>7
        <3>2. \A f, g \in Fingerprint : Before(f, g) /\ calls'[g].status = "result"
                 => ~New(f)
            <4> SUFFICES ASSUME NEW f \in Fingerprint, NEW g \in Fingerprint,
                                Before(f, g), calls'[g].status = "result", New(f)
                         PROVE  FALSE
                OBVIOUS
            <4>1. ~New(g) /\ calls[g].status = "result"
                BY <2>6, <2>7
            <4>2. g[1] >= step
                BY <2>1 DEF Before, Fingerprint
            <4> QED BY <4>1, <4>2, <2>2
        <3>3. SerialExecution'
            BY <3>1, <3>2, <2>2, <2>7 DEF SerialExecution
        <3> QED BY <3>3, <2>3 DEF PausesAreResolvable, Unborn
    <2>11. StatusOfCalls'
        <3>1. reply = <<>> => \A fp \in Fingerprint : ~New(fp)
            BY BoundsAssumption DEF Fingerprint
        <3> QED BY <3>1, <2>2, <2>3, <2>6, <2>7 DEF StatusOfCalls, Quiescent
    <2>12. AllPaidFor'
        <3> SUFFICES ASSUME NEW fp \in Fingerprint
                     PROVE  PaidFor(calls'[fp], approvals'[fp], dispatches'[fp], retries'[fp])
            BY DEF AllPaidFor
        <3>1. CASE New(fp)
            <4>1. dispatches[fp] = 0 /\ approvals[fp] = "absent" /\ retries[fp] \in Nat
                BY <3>1, <2>6, <1>0, <1>p DEF PaidFor, Unstarted
            <4> QED BY <3>1, <4>1, <2>6, <2>8 DEF PaidFor, Unstarted
        <3>2. CASE ~New(fp)
            BY <3>2, <2>7, <2>8, <1>p
        <3> QED BY <3>1, <3>2
    <2> QED BY <2>4, <2>9, <2>10, <2>11, <2>12, <1>t DEF IInv
<1>29. CASE UNCHANGED vars
    <2>1. UNCHANGED <<snap, drive, calls, approvals, dispatches, retries>>
        BY <1>29 DEF vars
    <2>2. \A g \in Harnesses : InPlace(g)'
        BY <2>1, <1>0, PlaceStay
    <2> QED BY <2>1, <2>2, <1>t, NoCallStep
<1> QED
    BY <1>1, <1>2, <1>3, <1>4, <1>5, <1>6, <1>7, <1>8, <1>9, <1>10, <1>11, <1>12, <1>13,
       <1>14, <1>15, <1>16, <1>17, <1>18, <1>19, <1>20, <1>21, <1>22, <1>23, <1>24,
       <1>25, <1>26, <1>27, <1>28, <1>29
    DEF Next, Progress, Fault, Operator

\* The inductive invariant, which ties what drives hold, the call rows, the
\* approval rows and the dispatch counters together, holds in every reachable
\* state of the loop and its store.
THEOREM Inductive == Spec => []IInv
<1> QED BY SafetyInit, SafetyStep, PTL DEF Spec

\* A side-effecting call reaches its handler at most once plus once per retry
\* an operator accepted (runtime.py's dispatch intent and _mark_effect_unknown),
\* for any number of Harness objects over one store.
THEOREM DispatchedOnce == Spec => []AtMostOneDispatch
<1>1. IInv => AtMostOneDispatch
    BY DEF IInv, AllPaidFor, PaidFor, AtMostOneDispatch
<1> QED BY Inductive, <1>1, PTL

\* No call that is not read-only is dispatched before its own fingerprint was
\* approved (the approval gate of _process_call).
THEOREM ApprovalGate == Spec => []ApprovedBeforeDispatch
<1>1. IInv => ApprovedBeforeDispatch
    BY DEF IInv, AllPaidFor, PaidFor, ApprovedBeforeDispatch
<1> QED BY Inductive, <1>1, PTL

\* Calls are taken up in order and one at a time (_call_records' loop), also
\* when several drives interleave on one run.
THEOREM OneCallAtATime == Spec => []SerialExecution
<1>1. IInv => SerialExecution
    BY DEF IInv
<1> QED BY Inductive, <1>1, PTL

\* A run that is paused for an operator has the call the operator can act on
\* (resolve_approval and resolve_effect find their row).
THEOREM PausedRunsHaveTheirCall == Spec => []PausesAreResolvable
<1>1. IInv => PausesAreResolvable
    BY DEF IInv
<1> QED BY Inductive, <1>1, PTL

-----------------------------------------------------------------------------
\* The shapes of the steps, and what follows from them.

\* Only calls that may change something are put to an operator.
OnlyMutationsAreAsked ==
    \A fp \in Fingerprint :
        calls[fp].effect = "read_only" =>
            calls[fp].status \notin {"awaiting_approval", "denied"}

\* A run that does not exist has said nothing.
Unwritten == snap.status = "absent" => snap.history = <<>>

\* The last message of a run that has its final answer.
FinalReply(s) ==
    s.status \in {"pending_final", "completed"} =>
        s.history[Len(s.history)] =
            [role |-> "assistant", step |-> s.step, ordinal |-> 0, error |-> FALSE]

HistoryInv ==
    /\ IInv
    /\ OnlyMutationsAreAsked /\ Unwritten
    /\ AnsweredExactlyOnce /\ FinalReply(snap)

-----------------------------------------------------------------------------
\* The shapes of a step.

\* A step that moves no call: it leaves the run, ends it, pauses it for
\* recovery or turns to the model.
NoCallMoves ==
    /\ UNCHANGED <<calls, dispatches>>
    /\ snap'.step = snap.step /\ snap'.history = snap.history
    /\ snap'.status = "absent" => snap.status = "absent"
    /\ snap'.status \in {"pending_final", "completed"} =>
          snap.status \in {"pending_final", "completed"}

\* What may become of call c in one step.
Moves(c, st) ==
    \/ c.status = "pending" /\ st = "requested"
    \/ c.status = "requested" /\ c.effect # "read_only" /\ st = "awaiting_approval"
    \/ c.status = "awaiting_approval" /\ st \in {"approved", "denied"}
    \/ c.status = "effect_unknown" /\ st = "approved"
    \/ c.status = "requested" /\ c.effect = "read_only" /\ st = "dispatching"
    \/ c.status \in {"approved", "dispatching"} /\ st = "dispatching"
    \/ /\ c.status \in {"requested", "approved", "denied", "dispatching"}
       /\ st \in {"effect_unknown", "result"}
    \/ c.status = "effect_unknown" /\ st = "result"

\* Drive h is entering the handler of call fp, with the tool the call records.
Enters(h, fp) ==
    /\ drive'[h].at = "handler" /\ HeldCall(h)' = fp
    /\ calls[fp].name \in DOMAIN catalog[h]
    /\ ~ContractChanged(calls[fp], catalog[h][calls[fp].name])

\* A step that moves call fp to status st: the answer is written with the
\* result, the dispatch is counted with the entry of the handler.
OneCallMoves(fp, st) ==
    /\ SetCall(fp, st) /\ Moves(calls[fp], st)
    /\ calls[fp].status = "pending" => Predecessors(fp)
    /\ snap'.step = snap.step /\ snap'.status \notin Quiescent
    /\ IF st = "result"
       THEN \E failed \in BOOLEAN : snap'.history = Append(snap.history, Answer(fp, failed))
       ELSE snap'.history = snap.history
    /\ IF st = "dispatching"
       THEN /\ \A g \in Fingerprint \ {fp} : dispatches'[g] = dispatches[g]
            /\ \E h \in Harnesses : Enters(h, fp)
       ELSE UNCHANGED dispatches

\* A step that accepts a reply: its calls are new, and all others are answered.
ReplyAccepted ==
    /\ snap.status = "ready_model"
    /\ snap'.status \in {"pending_final", "processing_reply"}
    /\ snap'.step = snap.step + 1
    /\ snap'.history = Append(snap.history,
          [role |-> "assistant", step |-> snap.step + 1, ordinal |-> 0, error |-> FALSE])
    /\ \A fp \in Fingerprint :
          calls'[fp] # calls[fp] =>
              calls[fp].status = "absent" /\ calls'[fp].status = "pending"
    /\ UNCHANGED dispatches

OtherShape ==
    \/ NoCallMoves
    \/ \E fp \in Fingerprint, st \in Moved : OneCallMoves(fp, st)

StepShape == OtherShape \/ ReplyAccepted

\* Every action but the acceptance of a reply.
OtherStep ==
    \/ \E h \in Harnesses :
          \/ Start(h) \/ Resume(h) \/ LeaveLoop(h) \/ CommitFinal(h)
          \/ FinishReply(h) \/ ExceedMaxSteps(h) \/ StartModel(h) \/ FailModel(h)
          \/ \E reply \in Replies : FailDuplicate(h, reply)
          \/ \E o \in 1 .. MaxCalls :
                \/ RequestCall(h, o) \/ RefuseCall(h, o) \/ MarkEffectUnknown(h, o)
                \/ RequestApproval(h, o) \/ AwaitDecision(h, o) \/ DispatchCall(h, o)
          \/ HandlerEnds(h, TRUE) \/ CommitResult(h) \/ PauseUnknown(h)
          \/ Rejected(h) \/ CommitCancelled(h) \/ Fault(h)
    \/ Operator \/ UNCHANGED vars

\* Every other step moves no call or one: one step per action.
LEMMA OtherShapes == HistoryInv /\ OtherStep => OtherShape
<1> SUFFICES ASSUME HistoryInv, OtherStep PROVE OtherShape
    OBVIOUS
<1>i. IInv
    BY DEF HistoryInv
<1>0. /\ snap \in Snapshot /\ drive \in [Harnesses -> Drive] /\ TypeInv /\ TypeOK
      /\ IInv /\ dispatches \in [Fingerprint -> Nat]
      /\ \A fp \in Fingerprint : calls[fp] \in CallRecord
    BY <1>i DEF IInv, TypeInv, TypeOK
<1>h. ASSUME NEW h \in Harnesses, drive[h].at \in Suspended, Fresh(drive[h].held)
      PROVE  drive[h].held = snap
    BY <1>h, <1>0 DEF TypeInv, HeldIsStored, HoldsCurrent, Fresh
<1>p. \A fp \in Fingerprint :
         PaidFor(calls[fp], approvals[fp], dispatches[fp], retries[fp])
    BY <1>0 DEF IInv, AllPaidFor
<1>1. ASSUME NEW h \in Harnesses, Resume(h)
      PROVE  OtherShape
    <2>1. UNCHANGED <<snap, calls, dispatches>>
        BY <1>1 DEF Resume, store, history
    <2> QED BY <2>1 DEF OtherShape, NoCallMoves
<1>2. ASSUME NEW h \in Harnesses, LeaveLoop(h)
      PROVE  OtherShape
    <2>1. UNCHANGED <<snap, calls, dispatches>>
        BY <1>2 DEF LeaveLoop, store, history
    <2> QED BY <2>1 DEF OtherShape, NoCallMoves
<1>3. ASSUME NEW h \in Harnesses, Rejected(h)
      PROVE  OtherShape
    <2>1. UNCHANGED <<snap, calls, dispatches>>
        BY <1>3 DEF Rejected, store, history
    <2> QED BY <2>1 DEF OtherShape, NoCallMoves
<1>4. ASSUME NEW h \in Harnesses, Crash(h)
      PROVE  OtherShape
    <2>1. UNCHANGED <<snap, calls, dispatches>>
        BY <1>4 DEF Crash, store
    <2> QED BY <2>1 DEF OtherShape, NoCallMoves
<1>5. ASSUME NEW h \in Harnesses, NEW o \in 1 .. MaxCalls, AwaitDecision(h, o)
      PROVE  OtherShape
    <2>1. UNCHANGED <<snap, calls, dispatches>>
        BY <1>5 DEF AwaitDecision, store, history
    <2> QED BY <2>1 DEF OtherShape, NoCallMoves
<1>6. ASSUME NEW h \in Harnesses, NEW returned \in BOOLEAN, HandlerEnds(h, returned)
      PROVE  OtherShape
    <2>1. UNCHANGED <<snap, calls, dispatches>>
        BY <1>6 DEF HandlerEnds, store
    <2> QED BY <2>1 DEF OtherShape, NoCallMoves
<1>7. ASSUME NEW h \in Harnesses, CancelElsewhere(h)
      PROVE  OtherShape
    <2>1. UNCHANGED <<snap, calls, dispatches>>
        BY <1>7 DEF CancelElsewhere, store
    <2> QED BY <2>1 DEF OtherShape, NoCallMoves
<1>8. ASSUME NEW h \in Harnesses, NEW cat \in Catalogs, Redeploy(h, cat)
      PROVE  OtherShape
    <2>1. UNCHANGED <<snap, calls, dispatches>>
        BY <1>8 DEF Redeploy, store
    <2> QED BY <2>1 DEF OtherShape, NoCallMoves
<1>9. ASSUME NEW h \in Harnesses, CommitFinal(h)
      PROVE  OtherShape
    <2>1. /\ snap'.status = "completed" /\ snap'.step = snap.step
          /\ snap'.history = snap.history /\ UNCHANGED <<calls, dispatches>>
          /\ snap.status = "pending_final"
        BY <1>9, <1>0, StatusFacts, CommitStatus DEF CommitFinal, history
    <2> QED BY <2>1 DEF OtherShape, NoCallMoves
<1>10. ASSUME NEW h \in Harnesses, FinishReply(h)
      PROVE  OtherShape
    <2>1. /\ snap'.status = "ready_model" /\ snap'.step = snap.step
          /\ snap'.history = snap.history /\ UNCHANGED <<calls, dispatches>>
        BY <1>10, <1>0, StatusFacts, CommitStatus DEF FinishReply, history
    <2> QED BY <2>1 DEF OtherShape, NoCallMoves
<1>11. ASSUME NEW h \in Harnesses, ExceedMaxSteps(h)
      PROVE  OtherShape
    <2>1. /\ snap'.status = "failed" /\ snap'.step = snap.step
          /\ snap'.history = snap.history /\ UNCHANGED <<calls, dispatches>>
        BY <1>11, <1>0, StatusFacts, CommitStatus DEF ExceedMaxSteps, history
    <2> QED BY <2>1 DEF OtherShape, NoCallMoves
<1>12. ASSUME NEW h \in Harnesses, FailModel(h)
      PROVE  OtherShape
    <2>1. /\ snap'.status = "failed" /\ snap'.step = snap.step
          /\ snap'.history = snap.history /\ UNCHANGED <<calls, dispatches>>
        BY <1>12, <1>0, <1>h, StatusFacts, CommitStatus DEF FailModel, history, Suspended
    <2> QED BY <2>1 DEF OtherShape, NoCallMoves
<1>13. ASSUME NEW h \in Harnesses, NEW reply \in Replies, FailDuplicate(h, reply)
      PROVE  OtherShape
    <2>1. /\ snap'.status = "failed" /\ snap'.step = snap.step
          /\ snap'.history = snap.history /\ UNCHANGED <<calls, dispatches>>
        BY <1>13, <1>0, StatusFacts, CommitStatus DEF FailDuplicate, history
    <2> QED BY <2>1 DEF OtherShape, NoCallMoves
<1>14. ASSUME NEW h \in Harnesses, Start(h)
      PROVE  OtherShape
    <2>1. snap.step = 0 /\ snap.history = <<>>
        BY <1>14 DEF Start, IInv, Unborn, HistoryInv, Unwritten
    <2>2. snap' = [[NoRun EXCEPT !.status = "ready_model"]
                     EXCEPT !.revision = snap.revision + 1]
        BY <1>14 DEF Start, Commit
    <2>3. snap'.step = 0 /\ snap'.status = "ready_model" /\ snap'.history = <<>>
        BY <2>2 DEF NoRun
    <2>4. UNCHANGED <<calls, dispatches>>
        BY <1>14 DEF Start, history
    <2> QED BY <2>1, <2>3, <2>4 DEF OtherShape, NoCallMoves
<1>15. ASSUME NEW h \in Harnesses, StartModel(h)
      PROVE  OtherShape
    <2>1. /\ snap'.status = snap.status /\ snap'.step = snap.step
          /\ snap'.history = snap.history /\ UNCHANGED <<calls, dispatches>>
        BY <1>15, <1>0, CommitType DEF StartModel, history
    <2> QED BY <2>1 DEF OtherShape, NoCallMoves
<1>16. ASSUME NEW h \in Harnesses, CommitCancelled(h)
      PROVE  OtherShape
    <2>1. /\ UNCHANGED <<calls, dispatches>>
          /\ \/ snap' = snap
             \/ /\ snap'.status = "cancelled" /\ snap'.step = snap.step
                /\ snap'.history = snap.history
        BY <1>16, <1>0, StatusFacts, CommitStatus DEF CommitCancelled, history
    <2> QED BY <2>1 DEF OtherShape, NoCallMoves
<1>17. ASSUME NEW h \in Harnesses, NEW o \in 1 .. MaxCalls, RequestCall(h, o)
      PROVE  OtherShape
    <2> DEFINE fp == <<snap.step, o>>
    <2>1. fp \in Fingerprint
        BY <1>17, <1>0, ProcessedCall DEF RequestCall
    <2>2. /\ snap'.status = snap.status /\ snap'.step = snap.step
          /\ snap'.history = snap.history
          /\ snap.status \in Working /\ calls[fp].status = "pending"
          /\ SetCall(fp, "requested") /\ UNCHANGED dispatches
        BY <1>17, <1>0, CommitType DEF RequestCall, history
    <2>3. Predecessors(fp)
        BY <1>17, <1>0, FirstOpenOrder DEF Predecessors, RequestCall, IInv
    <2> HIDE DEF fp
    <2>4. OneCallMoves(fp, "requested")
        BY <2>2, <2>3, StatusFacts DEF OneCallMoves, Moves
    <2> QED BY <2>1, <2>4, StatusFacts DEF OtherShape
<1>18. ASSUME NEW h \in Harnesses, NEW o \in 1 .. MaxCalls, RefuseCall(h, o)
      PROVE  OtherShape
    <2> DEFINE fp == <<snap.step, o>>
    <2>1. fp \in Fingerprint
          /\ calls[fp].status \in {"requested", "approved", "denied", "dispatching"}
        BY <1>18, <1>0, ProcessedStatus DEF RefuseCall
    <2>2. Answer(fp, TRUE) \in Message
        BY <2>1, AnswerType
    <2>3. /\ snap'.status = "processing_reply" /\ snap'.step = snap.step
          /\ snap'.history = Append(snap.history, Answer(fp, TRUE))
          /\ SetCall(fp, "result") /\ UNCHANGED dispatches
        BY <1>18, <2>2, <1>0, StatusFacts, CommitExtend DEF RefuseCall, history
    <2> HIDE DEF fp
    <2>4. OneCallMoves(fp, "result")
        BY <2>1, <2>3, StatusFacts DEF OneCallMoves, Moves
    <2> QED BY <2>1, <2>4, StatusFacts DEF OtherShape
<1>19. ASSUME NEW h \in Harnesses, NEW o \in 1 .. MaxCalls, MarkEffectUnknown(h, o)
      PROVE  OtherShape
    <2> DEFINE fp == <<snap.step, o>>
    <2>1. fp \in Fingerprint
          /\ calls[fp].status \in {"requested", "approved", "denied", "dispatching"}
        BY <1>19, <1>0, ProcessedStatus DEF MarkEffectUnknown
    <2>2. /\ snap'.status = "effect_unknown" /\ snap'.step = snap.step
          /\ snap'.history = snap.history
          /\ SetCall(fp, "effect_unknown") /\ UNCHANGED dispatches
        BY <1>19, <1>0, StatusFacts, CommitStatus DEF MarkEffectUnknown, history
    <2> HIDE DEF fp
    <2>3. OneCallMoves(fp, "effect_unknown")
        BY <2>1, <2>2, StatusFacts DEF OneCallMoves, Moves
    <2> QED BY <2>1, <2>3, StatusFacts DEF OtherShape
<1>20. ASSUME NEW h \in Harnesses, NEW o \in 1 .. MaxCalls, RequestApproval(h, o)
      PROVE  OtherShape
    <2> DEFINE fp == <<snap.step, o>>
    <2>1. /\ fp \in Fingerprint /\ calls[fp].status = "requested"
          /\ calls[fp].effect # "read_only"
        BY <1>20, <1>0, ProcessedStatus DEF RequestApproval, Verdict
    <2>2. /\ snap'.status = "awaiting_approval" /\ snap'.step = snap.step
          /\ snap'.history = snap.history
          /\ SetCall(fp, "awaiting_approval") /\ UNCHANGED dispatches
        BY <1>20, <1>0, StatusFacts, CommitStatus DEF RequestApproval, history
    <2> HIDE DEF fp
    <2>3. OneCallMoves(fp, "awaiting_approval")
        BY <2>1, <2>2, StatusFacts DEF OneCallMoves, Moves
    <2> QED BY <2>1, <2>3, StatusFacts DEF OtherShape
<1>21. ASSUME NEW h \in Harnesses, NEW o \in 1 .. MaxCalls, DispatchCall(h, o)
      PROVE  OtherShape
    <2> DEFINE fp == <<snap.step, o>>
               d == Suspend("handler", snap', o)
    <2>1. fp \in Fingerprint
          /\ calls[fp].status \in {"requested", "approved", "denied", "dispatching"}
        BY <1>21, <1>0, ProcessedStatus DEF DispatchCall
    <2>2. /\ calls[fp].name \in DOMAIN catalog[h]
          /\ ~ContractChanged(calls[fp], catalog[h][calls[fp].name])
        BY <1>21 DEF DispatchCall, Verdict
    <2>3. calls[fp].effect # "read_only" => calls[fp].status \notin {"requested", "denied"}
        <3>1. calls[fp].status = "requested" => approvals[fp] = "absent"
            BY <2>1, <1>p DEF PaidFor
        <3> QED BY <1>21, <3>1 DEF DispatchCall, Verdict, Undecided
    <2>4. Moves(calls[fp], "dispatching")
        BY <2>1, <2>3 DEF Moves, HistoryInv, OnlyMutationsAreAsked
    <2>5. /\ snap' \in Snapshot
          /\ snap'.status = "processing_reply" /\ snap'.step = snap.step
          /\ snap'.history = snap.history
        BY <1>21, <1>0, StatusFacts, CommitStatus DEF DispatchCall
    <2>6. /\ SetCall(fp, "dispatching") /\ Goto(h, d)
          /\ dispatches' = [dispatches EXCEPT ![fp] = @ + 1]
        BY <1>21 DEF DispatchCall
    <2>7. d.held = snap' /\ d.at = "handler" /\ d.ordinal = o
        BY <2>5, BoundsAssumption, SuspendType DEF Location
    <2> HIDE DEF d
    <2>8. drive'[h] = d
        BY <2>6, <1>0 DEF Goto
    <2>9. drive'[h].at = "handler" /\ HeldCall(h)' = fp
        BY <2>5, <2>7, <2>8 DEF HeldCall
    <2> HIDE DEF fp
    <2>10. Enters(h, fp)
        BY <2>2, <2>9 DEF Enters
    <2>11. \A g \in Fingerprint \ {fp} : dispatches'[g] = dispatches[g]
        BY <2>6, <1>0
    <2>12. OneCallMoves(fp, "dispatching")
        BY <2>1, <2>4, <2>5, <2>6, <2>10, <2>11, StatusFacts DEF OneCallMoves
    <2> QED BY <2>1, <2>12, StatusFacts DEF OtherShape
<1>22. ASSUME NEW h \in Harnesses, CommitResult(h)
      PROVE  OtherShape
    <2> DEFINE fp == HeldCall(h)
               failed == ~drive[h].returned
               m == Answer(fp, failed)
    <2>1. fp \in Fingerprint /\ drive[h].held = snap /\ calls[fp].status = "dispatching"
          /\ snap.status = "processing_reply"
        BY <1>22, <1>0, ExecutedStatus DEF CommitResult
    <2>2. failed \in BOOLEAN
        BY Zenon
    <2>3. /\ Commit(Extend(snap, snap.status, m)) /\ SetCall(fp, "result")
          /\ UNCHANGED dispatches
        BY <1>22, <2>1 DEF CommitResult, history
    <2> HIDE DEF failed
    <2>4. m \in Message
        BY <2>1, <2>2, AnswerType
    <2> HIDE DEF m
    <2>5. /\ snap'.status = snap.status /\ snap'.step = snap.step
          /\ snap'.history = Append(snap.history, m)
        BY <2>3, <2>4, <1>0, CommitExtendSame
    <2>6. snap'.history = Append(snap.history, Answer(fp, failed))
        BY <2>5 DEF m
    <2> HIDE DEF fp
    <2>7. OneCallMoves(fp, "result")
        BY <2>1, <2>2, <2>3, <2>5, <2>6, StatusFacts DEF OneCallMoves, Moves, Working
    <2> QED BY <2>1, <2>7, StatusFacts DEF OtherShape
<1>23. ASSUME NEW h \in Harnesses, PauseUnknown(h)
      PROVE  OtherShape
    <2> DEFINE fp == HeldCall(h)
    <2>1. fp \in Fingerprint /\ drive[h].held = snap /\ calls[fp].status = "dispatching"
        BY <1>23, <1>0, ExecutedStatus DEF PauseUnknown
    <2>2. CASE calls[fp].effect = "idempotent"
        <3>1. /\ snap'.status = "paused_recovery" /\ snap'.step = snap.step
              /\ snap'.history = snap.history /\ UNCHANGED <<calls, dispatches>>
            BY <1>23, <2>1, <2>2, <1>0, StatusFacts, CommitStatus
               DEF PauseUnknown, history
        <3> QED BY <3>1 DEF OtherShape, NoCallMoves
    <2>3. CASE calls[fp].effect # "idempotent"
        <3>1. /\ snap'.status = "effect_unknown" /\ snap'.step = snap.step
              /\ snap'.history = snap.history
              /\ SetCall(fp, "effect_unknown") /\ UNCHANGED dispatches
            BY <1>23, <2>1, <2>3, <1>0, StatusFacts, CommitStatus
               DEF PauseUnknown, history
        <3> HIDE DEF fp
        <3>2. OneCallMoves(fp, "effect_unknown")
            BY <2>1, <3>1, StatusFacts DEF OneCallMoves, Moves
        <3> QED BY <2>1, <3>2, StatusFacts DEF OtherShape
    <2> QED BY <2>2, <2>3
<1>24. ASSUME NEW h \in Harnesses, CancelHandler(h)
      PROVE  OtherShape
    <2> DEFINE fp == HeldCall(h)
    <2>1. CASE Fresh(drive[h].held)
        <3>1. fp \in Fingerprint /\ drive[h].held = snap
              /\ calls[fp].status = "dispatching"
            BY <1>24, <2>1, <1>0, ExecutedStatus DEF CancelHandler
        <3>2. /\ snap'.status = "effect_unknown" /\ snap'.step = snap.step
              /\ snap'.history = snap.history
              /\ SetCall(fp, "effect_unknown") /\ UNCHANGED dispatches
            BY <1>24, <2>1, <3>1, <1>0, StatusFacts, CommitStatus DEF CancelHandler
        <3> HIDE DEF fp
        <3>3. OneCallMoves(fp, "effect_unknown")
            BY <3>1, <3>2, StatusFacts DEF OneCallMoves, Moves
        <3> QED BY <3>1, <3>3, StatusFacts DEF OtherShape
    <2>2. CASE ~Fresh(drive[h].held)
        <3>1. UNCHANGED <<snap, calls, dispatches>>
            BY <1>24, <2>2 DEF CancelHandler
        <3> QED BY <3>1 DEF OtherShape, NoCallMoves
    <2> QED BY <2>1, <2>2
<1>25. ASSUME NEW fp \in Fingerprint,
              NEW answer \in BOOLEAN, ResolveApproval(fp, answer)
      PROVE  OtherShape
    <2> DEFINE decision == IF answer THEN "approved" ELSE "denied"
    <2>1. calls[fp].status = "awaiting_approval" /\ decision \in {"approved", "denied"}
        BY <1>25, <1>p DEF ResolveApproval, PaidFor
    <2>2. /\ snap'.status = "awaiting_resume" /\ snap'.step = snap.step
          /\ snap'.history = snap.history
          /\ SetCall(fp, decision) /\ UNCHANGED dispatches
        BY <1>25, <1>0, StatusFacts, CommitStatus DEF ResolveApproval, history
    <2>3. OneCallMoves(fp, decision)
        BY <2>1, <2>2, StatusFacts DEF OneCallMoves, Moves
    <2>4. decision \in Moved
        BY <2>1 DEF Moved, CallStatus
    <2> HIDE DEF decision
    <2> QED BY <2>3, <2>4 DEF OtherShape
<1>26. ASSUME NEW fp \in Fingerprint, NEW failed \in BOOLEAN, SettleEffect(fp, failed)
      PROVE  OtherShape
    <2> DEFINE status == IF snap.status = "cancelled" THEN "cancelled" ELSE "awaiting_resume"
    <2>1. calls[fp].status = "effect_unknown"
          /\ status \in {"cancelled", "awaiting_resume"}
        BY <1>26 DEF SettleEffect, Reconcilable
    <2>2. Answer(fp, failed) \in Message
        BY AnswerType
    <2>3. /\ Commit(Extend(snap, status, Answer(fp, failed))) /\ SetCall(fp, "result")
          /\ UNCHANGED dispatches
        BY <1>26 DEF SettleEffect, history
    <2> HIDE DEF status
    <2>4. /\ snap'.status = status /\ snap'.step = snap.step
          /\ snap'.history = Append(snap.history, Answer(fp, failed))
        BY <2>1, <2>2, <2>3, <1>0, StatusFacts, CommitExtend
    <2>5. OneCallMoves(fp, "result")
        BY <2>1, <2>3, <2>4, StatusFacts DEF OneCallMoves, Moves
    <2> QED BY <2>5, StatusFacts DEF OtherShape
<1>27. ASSUME NEW fp \in Fingerprint, RetryEffect(fp)
      PROVE  OtherShape
    <2>1. /\ calls[fp].status = "effect_unknown"
          /\ snap'.status = "awaiting_resume" /\ snap'.step = snap.step
          /\ snap'.history = snap.history
          /\ SetCall(fp, "approved") /\ UNCHANGED dispatches
        BY <1>27, <1>0, StatusFacts, CommitStatus DEF RetryEffect, Reconcilable
    <2>2. OneCallMoves(fp, "approved")
        BY <2>1, StatusFacts DEF OneCallMoves, Moves
    <2> QED BY <2>2, StatusFacts DEF OtherShape
<1>28. CASE UNCHANGED vars
    <2>1. UNCHANGED <<snap, calls, dispatches>>
        BY <1>28 DEF vars
    <2> QED BY <2>1 DEF OtherShape, NoCallMoves
<1> QED
    BY <1>1, <1>2, <1>3, <1>4, <1>5, <1>6, <1>7, <1>8, <1>9, <1>10, <1>11,
       <1>12, <1>13, <1>14, <1>15, <1>16, <1>17, <1>18, <1>19, <1>20, <1>21,
       <1>22, <1>23, <1>24, <1>25, <1>26, <1>27, <1>28
    DEF OtherStep, Fault, Operator

\* The acceptance of a reply.
LEMMA ReplyShape ==
    ASSUME HistoryInv, NEW h \in Harnesses, NEW reply \in Replies, AcceptReply(h, reply)
    PROVE  /\ ReplyAccepted /\ drive[h].held = snap /\ snap.step + 1 \in 1 .. MaxSteps
           /\ snap'.status = IF reply = <<>> THEN "pending_final" ELSE "processing_reply"
<1>0. /\ snap \in Snapshot /\ drive \in [Harnesses -> Drive] /\ TypeInv /\ TypeOK /\ IInv
    BY DEF HistoryInv, IInv, TypeInv, TypeOK
<1>h. drive[h].held = snap
    BY <1>0 DEF AcceptReply, TypeInv, HeldIsStored, HoldsCurrent, Fresh, Suspended
<1> DEFINE step == snap.step + 1
           m == [role |-> "assistant", step |-> step, ordinal |-> 0, error |-> FALSE]
           status == IF reply = <<>> THEN "pending_final" ELSE "processing_reply"
           base == [snap EXCEPT !.step = step]
<1>1. drive[h].held = snap /\ snap.status = "ready_model" /\ step \in 1 .. MaxSteps
    BY <1>0, <1>h, BoundsAssumption
       DEF AcceptReply, Suspended, IInv, InPlace, TypeInv, HeldOK, DriveOK, Snapshot
<1>2. m \in Message
    BY <1>1, BoundsAssumption DEF Message
<1>3. status \in {"pending_final", "processing_reply"} /\ status \in RunStatus
    BY DEF RunStatus
<1>4. Commit(Extend(base, status, m)) /\ UNCHANGED dispatches
    BY <1>1 DEF AcceptReply, history
<1>5. base \in Snapshot /\ base.step = step /\ base.history = snap.history
    BY <1>1, <1>0, BoundsAssumption, WithStep
<1> HIDE DEF base, status, m
<1>6. /\ snap'.status = status /\ snap'.step = step
      /\ snap'.history = Append(snap.history, m)
    BY <1>2, <1>3, <1>4, <1>5, <1>0, CommitExtend
<1>7. ASSUME NEW fp \in Fingerprint, calls'[fp] # calls[fp]
      PROVE  calls[fp].status = "absent" /\ calls'[fp].status = "pending"
    <2>1. fp[1] = step /\ calls'[fp] = NewCall(h, reply[fp[2]])
        BY <1>1, <1>7 DEF AcceptReply
    <2>2. calls[fp].status = "absent"
        BY <2>1, <1>1, <1>0 DEF IInv, OnlyThisStepOpen, Snapshot
    <2> QED BY <2>1, <2>2 DEF NewCall
<1>8. ReplyAccepted
    BY <1>1, <1>3, <1>4, <1>6, <1>7 DEF ReplyAccepted, m
<1> QED BY <1>1, <1>6, <1>8 DEF status

\* Every step has one of the three shapes.
LEMMA Shapes == HistoryInv /\ [Next]_vars => StepShape
<1>1. [Next]_vars => OtherStep \/ \E h \in Harnesses, reply \in Replies : AcceptReply(h, reply)
    BY DEF Next, Progress, OtherStep
<1> QED BY <1>1, OtherShapes, ReplyShape DEF StepShape

-----------------------------------------------------------------------------
\* The history.

\* The places of a history that answer a call.
AnswersIn(hist, fp) ==
    {i \in DOMAIN hist :
        hist[i].role = "tool" /\ hist[i].step = fp[1] /\ hist[i].ordinal = fp[2]}

\* A message appended to a history is its last, and the others stay.
LEMMA Appended ==
    ASSUME NEW hist \in Seq(Message), NEW m \in Message
    PROVE  /\ DOMAIN Append(hist, m) = DOMAIN hist \cup {Len(hist) + 1}
           /\ Len(hist) + 1 \notin DOMAIN hist /\ Len(hist) \in Nat
           /\ Len(Append(hist, m)) = Len(hist) + 1
           /\ \A i \in DOMAIN hist : Append(hist, m)[i] = hist[i]
           /\ Append(hist, m)[Len(hist) + 1] = m
OBVIOUS

\* An answer appended to the history is one more answer to its call, and to
\* no other.
LEMMA AnswerAppended ==
    ASSUME NEW hist \in Seq(Message), NEW fp \in Fingerprint, NEW failed \in BOOLEAN
    PROVE  LET longer == Append(hist, Answer(fp, failed))
           IN  /\ AnswersIn(longer, fp) = AnswersIn(hist, fp) \cup {Len(hist) + 1}
               /\ \A g \in Fingerprint \ {fp} : AnswersIn(longer, g) = AnswersIn(hist, g)
<1> DEFINE m == Answer(fp, failed)
           longer == Append(hist, m)
<1>1. m \in Message
    BY AnswerType
<1>2. m.role = "tool" /\ m.step = fp[1] /\ m.ordinal = fp[2]
    BY DEF Answer
<1>3. /\ DOMAIN longer = DOMAIN hist \cup {Len(hist) + 1}
      /\ \A i \in DOMAIN hist : longer[i] = hist[i]
      /\ longer[Len(hist) + 1] = m /\ Len(hist) + 1 \notin DOMAIN hist
    BY <1>1, Appended
<1> HIDE DEF m, longer
<1>4. AnswersIn(longer, fp) = AnswersIn(hist, fp) \cup {Len(hist) + 1}
    BY <1>2, <1>3 DEF AnswersIn
<1>5. ASSUME NEW g \in Fingerprint \ {fp}
      PROVE  AnswersIn(longer, g) = AnswersIn(hist, g)
    <2>1. fp[1] # g[1] \/ fp[2] # g[2]
        BY DEF Fingerprint
    <2> QED BY <2>1, <1>2, <1>3 DEF AnswersIn
<1> QED BY <1>4, <1>5 DEF m, longer

\* A message of the model answers no call.
LEMMA ReplyAppended ==
    ASSUME NEW hist \in Seq(Message), NEW m \in Message, m.role = "assistant",
           NEW fp \in Fingerprint
    PROVE  AnswersIn(Append(hist, m), fp) = AnswersIn(hist, fp)
BY Appended DEF AnswersIn

\* The answers of the current history.
LEMMA AnswersNow == \A fp \in Fingerprint : AnswersOf(fp) = AnswersIn(snap.history, fp)
BY DEF AnswersOf, AnswersIn

\* What the history says is what the calls say, through a step of any shape.
LEMMA AnswersStep ==
    ASSUME HistoryInv, TypeOK', StepShape
    PROVE  AnsweredExactlyOnce'
<1>0. /\ snap.history \in Seq(Message) /\ snap'.history \in Seq(Message)
      /\ snap.step \in 0 .. MaxSteps /\ snap'.step \in 0 .. MaxSteps
      /\ AnsweredExactlyOnce /\ TypeOK
      /\ \A fp \in Fingerprint : AnswersOf(fp) = AnswersIn(snap.history, fp)
    BY AnswersNow DEF HistoryInv, IInv, TypeInv, TypeOK, Snapshot
<1>1. \A fp \in Fingerprint : AnswersOf(fp)' = AnswersIn(snap'.history, fp)
    BY DEF AnswersOf, AnswersIn
<1>2. CASE NoCallMoves
    BY <1>0, <1>1, <1>2 DEF NoCallMoves, AnsweredExactlyOnce
<1>3. ASSUME NEW fp \in Fingerprint, NEW st \in Moved, OneCallMoves(fp, st)
      PROVE  AnsweredExactlyOnce'
    <2>1. /\ calls'[fp].status = st /\ \A g \in Fingerprint \ {fp} : calls'[g] = calls[g]
          /\ calls[fp].status # "result"
        BY <1>0, <1>3, SetCallEffect DEF OneCallMoves, Moves
    <2>2. AnswersIn(snap.history, fp) = {}
        BY <2>1, <1>0 DEF AnsweredExactlyOnce
    <2>3. CASE st = "result"
        <3>1. PICK failed \in BOOLEAN :
                 snap'.history = Append(snap.history, Answer(fp, failed))
            BY <1>3, <2>3 DEF OneCallMoves
        <3>2. /\ AnswersIn(snap'.history, fp)
                    = AnswersIn(snap.history, fp) \cup {Len(snap.history) + 1}
              /\ \A g \in Fingerprint \ {fp} :
                    AnswersIn(snap'.history, g) = AnswersIn(snap.history, g)
            BY <3>1, <1>0, AnswerAppended
        <3>3. AnswersOf(fp)' = {Len(snap.history) + 1}
              /\ Len(snap.history) + 1 \in AnswersOf(fp)'
            BY <3>2, <2>2, <1>1
        <3>4. \A g \in Fingerprint \ {fp} : AnswersOf(g)' = AnswersOf(g)
            BY <3>2, <1>0, <1>1
        <3> QED BY <2>1, <2>3, <3>3, <3>4, <1>0 DEF AnsweredExactlyOnce
    <2>4. CASE st # "result"
        <3>1. snap'.history = snap.history
            BY <1>3, <2>4 DEF OneCallMoves
        <3>2. \A g \in Fingerprint : AnswersOf(g)' = AnswersOf(g)
            BY <3>1, <1>0, <1>1
        <3> QED BY <2>1, <2>4, <3>2, <1>0 DEF AnsweredExactlyOnce
    <2> QED BY <2>3, <2>4
<1>4. CASE ReplyAccepted
    <2> DEFINE m == [role |-> "assistant", step |-> snap.step + 1, ordinal |-> 0,
                     error |-> FALSE]
    <2>1. m \in Message
        BY <1>0, <1>4, BoundsAssumption DEF Message, ReplyAccepted
    <2>2. m.role = "assistant" /\ snap'.history = Append(snap.history, m)
        BY <1>4 DEF ReplyAccepted
    <2> HIDE DEF m
    <2>3. \A g \in Fingerprint : AnswersOf(g)' = AnswersOf(g)
        BY <2>1, <2>2, <1>0, <1>1, ReplyAppended
    <2>4. \A g \in Fingerprint : calls'[g].status = "result" <=> calls[g].status = "result"
        BY <1>4 DEF ReplyAccepted
    <2> QED BY <2>3, <2>4, <1>0 DEF AnsweredExactlyOnce
<1> QED BY <1>2, <1>3, <1>4 DEF StepShape, OtherShape

\* The initial states satisfy the invariant.
LEMMA HistoryInit == Init => HistoryInv
<1> SUFFICES ASSUME Init PROVE HistoryInv
    OBVIOUS
<1>1. /\ snap.status = "absent" /\ snap.history = <<>>
      /\ \A fp \in Fingerprint : calls[fp].status = "absent"
    BY DEF Init, NoRun, NoCall
<1>2. OnlyMutationsAreAsked /\ Unwritten /\ FinalReply(snap)
    BY <1>1 DEF OnlyMutationsAreAsked, Unwritten, FinalReply
<1>3. AnsweredExactlyOnce
    BY <1>1 DEF AnsweredExactlyOnce, AnswersOf
<1> QED BY <1>2, <1>3, SafetyInit DEF HistoryInv

\* Every step preserves it, whatever its shape.
LEMMA HistoryStep == HistoryInv /\ [Next]_vars => HistoryInv'
<1> SUFFICES ASSUME HistoryInv, [Next]_vars PROVE HistoryInv'
    OBVIOUS
<1>0. IInv' /\ TypeOK' /\ TypeOK /\ StepShape
      /\ snap.history \in Seq(Message) /\ snap.step \in 0 .. MaxSteps
    BY SafetyStep, Shapes DEF HistoryInv, IInv, TypeInv, TypeOK, Snapshot
<1>1. AnsweredExactlyOnce'
    BY <1>0, AnswersStep
<1>2. CASE NoCallMoves
    <2>1. OnlyMutationsAreAsked'
        BY <1>2 DEF NoCallMoves, HistoryInv, OnlyMutationsAreAsked
    <2>2. Unwritten' /\ FinalReply(snap')
        BY <1>2 DEF NoCallMoves, HistoryInv, Unwritten, FinalReply
    <2> QED BY <1>0, <1>1, <2>1, <2>2 DEF HistoryInv, FinalReply
<1>3. ASSUME NEW fp \in Fingerprint, NEW st \in Moved, OneCallMoves(fp, st)
      PROVE  HistoryInv'
    <2>1. /\ calls'[fp].status = st /\ calls'[fp].effect = calls[fp].effect
          /\ \A g \in Fingerprint \ {fp} : calls'[g] = calls[g]
        BY <1>0, <1>3, SetCallEffect DEF OneCallMoves
    <2>2. calls[fp].effect = "read_only" => st \notin {"awaiting_approval", "denied"}
        BY <1>3 DEF OneCallMoves, Moves, HistoryInv, OnlyMutationsAreAsked
    <2>3. OnlyMutationsAreAsked'
        BY <2>1, <2>2 DEF HistoryInv, OnlyMutationsAreAsked
    <2>4. Unwritten' /\ FinalReply(snap')
        BY <1>3 DEF OneCallMoves, Quiescent, Unwritten, FinalReply
    <2> QED BY <1>0, <1>1, <2>3, <2>4 DEF HistoryInv, FinalReply
<1>4. CASE ReplyAccepted
    <2> DEFINE m == [role |-> "assistant", step |-> snap.step + 1, ordinal |-> 0,
                     error |-> FALSE]
    <2>1. OnlyMutationsAreAsked'
        <3> SUFFICES ASSUME NEW fp \in Fingerprint, calls'[fp].effect = "read_only"
                     PROVE  calls'[fp].status \notin {"awaiting_approval", "denied"}
            BY DEF OnlyMutationsAreAsked
        <3> QED BY <1>4 DEF ReplyAccepted, HistoryInv, OnlyMutationsAreAsked
    <2>2. snap'.step \in 0 .. MaxSteps
        BY <1>0 DEF TypeOK, Snapshot
    <2>3. m \in Message
        BY <1>0, <1>4, <2>2, BoundsAssumption DEF Message, ReplyAccepted
    <2>4. snap'.history = Append(snap.history, m) /\ snap'.step = snap.step + 1
          /\ snap'.status \in {"pending_final", "processing_reply"}
        BY <1>4 DEF ReplyAccepted
    <2> HIDE DEF m
    <2>5. snap'.history[Len(snap'.history)] = m
        BY <2>3, <2>4, <1>0, Appended
    <2>6. FinalReply(snap')
        BY <2>4, <2>5 DEF FinalReply, m
    <2> QED BY <1>0, <1>1, <2>1, <2>4, <2>6 DEF HistoryInv, FinalReply, Unwritten
<1> QED BY <1>0, <1>2, <1>3, <1>4 DEF StepShape, OtherShape

\* The invariant of the history, over the shapes every step has.
THEOREM HistoryInductive == Spec => []HistoryInv
<1> QED BY HistoryInit, HistoryStep, PTL DEF Spec

\* The history holds one answer to each call that has a result and none to the
\* others (_process_call, _record_tool_error and resolve_effect commit the
\* answer and the call's status in one transaction), whichever drives,
\* faults and operators act.
THEOREM AnsweredOnce == Spec => []AnsweredExactlyOnce
<1>1. HistoryInv => AnsweredExactlyOnce
    BY DEF HistoryInv
<1> QED BY HistoryInductive, <1>1, PTL

\* The model is called, and its final answer taken, only when every accepted
\* call has its result in the history (run_agent_loop).
THEOREM ModelIsToldEverything == Spec => []ModelSeesEveryResult
<1>1. HistoryInv => ModelSeesEveryResult
    BY DEF HistoryInv, IInv, StatusOfCalls, Quiescent, FinalReply, ModelSeesEveryResult
<1> QED BY HistoryInductive, <1>1, PTL

\* No step shortens or rewrites the history or takes the step back.
LEMMA NothingLost ==
    HistoryInv /\ [Next]_vars =>
        /\ Len(snap.history) <= Len(snap'.history)
        /\ \A i \in DOMAIN snap.history : snap'.history[i] = snap.history[i]
        /\ snap.step <= snap'.step
<1> SUFFICES ASSUME HistoryInv, [Next]_vars
             PROVE  /\ Len(snap.history) <= Len(snap'.history)
                    /\ \A i \in DOMAIN snap.history : snap'.history[i] = snap.history[i]
                    /\ snap.step <= snap'.step
    OBVIOUS
<1>0. /\ StepShape /\ TypeOK'
      /\ snap.history \in Seq(Message) /\ snap.step \in 0 .. MaxSteps
      /\ snap'.step \in 0 .. MaxSteps
    BY SafetyStep, Shapes DEF HistoryInv, IInv, TypeInv, TypeOK, Snapshot
<1>1. CASE NoCallMoves
    BY <1>0, <1>1, BoundsAssumption DEF NoCallMoves
<1>2. ASSUME NEW fp \in Fingerprint, NEW st \in Moved, OneCallMoves(fp, st)
      PROVE  /\ Len(snap.history) <= Len(snap'.history)
             /\ \A i \in DOMAIN snap.history : snap'.history[i] = snap.history[i]
             /\ snap.step <= snap'.step
    <2>1. CASE st = "result"
        <3>1. PICK failed \in BOOLEAN :
                 snap'.history = Append(snap.history, Answer(fp, failed))
            BY <1>2, <2>1 DEF OneCallMoves
        <3>2. Answer(fp, failed) \in Message
            BY AnswerType
        <3> QED BY <3>1, <3>2, <1>0, <1>2, Appended, BoundsAssumption DEF OneCallMoves
    <2>2. CASE st # "result"
        BY <1>0, <1>2, <2>2, BoundsAssumption DEF OneCallMoves
    <2> QED BY <2>1, <2>2
<1>3. CASE ReplyAccepted
    <2> DEFINE m == [role |-> "assistant", step |-> snap.step + 1, ordinal |-> 0,
                     error |-> FALSE]
    <2>1. m \in Message
        BY <1>0, <1>3, BoundsAssumption DEF Message, ReplyAccepted
    <2>2. snap'.history = Append(snap.history, m) /\ snap'.step = snap.step + 1
        BY <1>3 DEF ReplyAccepted
    <2> HIDE DEF m
    <2> QED BY <2>1, <2>2, <1>0, Appended, BoundsAssumption
<1> QED BY <1>0, <1>1, <1>2, <1>3 DEF StepShape, OtherShape

\* No commit drops what an earlier one recorded, also when a drive commits a
\* snapshot it held across an await (the compare-and-swap of the run store).
THEOREM NothingIsLost == Spec => NoLostUpdate
<1>1. HistoryInv /\ [Next]_vars =>
        [ /\ Len(snap.history) <= Len(snap'.history)
          /\ \A i \in DOMAIN snap.history : snap'.history[i] = snap.history[i]
          /\ snap.step <= snap'.step ]_vars
    BY NothingLost
<1> QED BY HistoryInductive, <1>1, PTL DEF Spec, NoLostUpdate

-----------------------------------------------------------------------------
\* The contract of a call.

\* A row with its own status is the row.
LEMMA SameRow ==
    ASSUME NEW c \in CallRecord
    PROVE  c = [c EXCEPT !.status = c.status]
BY DEF CallRecord

\* One step dispatches a call only into a handler whose tool still is the one
\* recorded, and changes nothing but the status of a row that exists.
LEMMA ContractStep ==
    ASSUME HistoryInv, [Next]_vars, NEW fp \in Fingerprint
    PROVE  /\ dispatches'[fp] > dispatches[fp] => \E h \in Harnesses : Enters(h, fp)
           /\ Present(fp) =>
                 calls'[fp] = [calls[fp] EXCEPT !.status = calls'[fp].status]
<1>0. /\ StepShape /\ TypeOK /\ calls[fp] \in CallRecord /\ dispatches[fp] \in Nat
      /\ calls \in [Fingerprint -> CallRecord]
    BY Shapes DEF HistoryInv, IInv, TypeInv, TypeOK
<1>1. calls[fp] = [calls[fp] EXCEPT !.status = calls[fp].status]
    BY <1>0, SameRow
<1>2. CASE NoCallMoves
    BY <1>0, <1>1, <1>2 DEF NoCallMoves
<1>3. ASSUME NEW f \in Fingerprint, NEW st \in Moved, OneCallMoves(f, st)
      PROVE  /\ dispatches'[fp] > dispatches[fp] => \E h \in Harnesses : Enters(h, fp)
             /\ calls'[fp] = [calls[fp] EXCEPT !.status = calls'[fp].status]
    <2>1. dispatches'[fp] > dispatches[fp] => f = fp /\ \E h \in Harnesses : Enters(h, fp)
        BY <1>0, <1>3 DEF OneCallMoves
    <2>2. calls'[fp] = [calls[fp] EXCEPT !.status = calls'[fp].status]
        <3>1. CASE f = fp
            <4>1. calls'[fp] = [calls[fp] EXCEPT !.status = st]
                BY <1>0, <1>3, <3>1 DEF OneCallMoves, SetCall
            <4>2. calls'[fp].status = st
                BY <1>0, <1>3, <3>1, SetCallEffect DEF OneCallMoves
            <4> QED BY <4>1, <4>2
        <3>2. CASE f # fp
            <4>1. calls'[fp] = calls[fp]
                BY <1>0, <1>3, <3>2, SetCallEffect DEF OneCallMoves
            <4> QED BY <4>1, <1>1
        <3> QED BY <3>1, <3>2
    <2> QED BY <2>1, <2>2
<1>4. CASE ReplyAccepted
    <2>1. Present(fp) => calls'[fp] = calls[fp]
        BY <1>4 DEF ReplyAccepted, Present
    <2>2. dispatches'[fp] = dispatches[fp]
        BY <1>4 DEF ReplyAccepted
    <2> QED BY <2>1, <2>2, <1>0, <1>1
<1> QED BY <1>0, <1>2, <1>3, <1>4 DEF StepShape, OtherShape

\* A call that may change something is dispatched with the tool, revision and
\* key it was recorded and approved with (_process_call compares them before every
\* dispatch), however often the run is taken over by other deployments.
THEOREM DispatchedAsRecorded == Spec => DispatchesRecordedContract
<1>1. ASSUME HistoryInv, [Next]_vars, NEW fp \in Fingerprint
      PROVE  /\ dispatches'[fp] > dispatches[fp] /\ calls[fp].effect # "read_only" =>
                \E h \in Harnesses :
                    /\ drive'[h].at = "handler" /\ HeldCall(h)' = fp
                    /\ calls[fp].name \in DOMAIN catalog[h]
                    /\ LET tool == catalog[h][calls[fp].name] IN
                         /\ tool.effect = calls[fp].effect
                         /\ tool.revision = calls[fp].revision
                         /\ tool.effect = "idempotent" => tool.key = calls[fp].key
             /\ Present(fp) =>
                calls'[fp] = [calls[fp] EXCEPT !.status = calls'[fp].status]
    BY <1>1, ContractStep DEF Enters, ContractChanged
<1>2. HistoryInv /\ [Next]_vars =>
      [ \A fp \in Fingerprint :
          /\ dispatches'[fp] > dispatches[fp] /\ calls[fp].effect # "read_only" =>
                \E h \in Harnesses :
                    /\ drive'[h].at = "handler" /\ HeldCall(h)' = fp
                    /\ calls[fp].name \in DOMAIN catalog[h]
                    /\ LET tool == catalog[h][calls[fp].name] IN
                         /\ tool.effect = calls[fp].effect
                         /\ tool.revision = calls[fp].revision
                         /\ tool.effect = "idempotent" => tool.key = calls[fp].key
          /\ Present(fp) =>
                calls'[fp] = [calls[fp] EXCEPT !.status = calls'[fp].status]
      ]_vars
    BY <1>1
<1> QED BY HistoryInductive, <1>2, PTL DEF Spec, DispatchesRecordedContract

-----------------------------------------------------------------------------
\* The refinement.

\* The phase of every status.
LEMMA PhaseFacts ==
    /\ PhaseOf("absent") = "unborn" /\ PhaseOf("pending") = "proposed"
    /\ PhaseOf("requested") = "proposed" /\ PhaseOf("awaiting_approval") = "asked"
    /\ PhaseOf("approved") = "allowed" /\ PhaseOf("denied") = "refused"
    /\ PhaseOf("dispatching") = "running" /\ PhaseOf("effect_unknown") = "doubtful"
    /\ PhaseOf("result") = "answered"
BY DEF PhaseOf

\* What CallContract sees.
Phases == [fp \in Fingerprint |-> PhaseOf(calls[fp].status)]
KindsOf == [fp \in Fingerprint |-> calls[fp].effect]

\* The initial state is one of CallContract's.
LEMMA RefinesInit == Init => Abstract!Init
<1> SUFFICES ASSUME Init PROVE Abstract!Init
    OBVIOUS
<1>1. \A fp \in Fingerprint : calls[fp].status = "absent" /\ calls[fp].effect = "read_only"
    BY DEF Init, NoCall
<1> QED BY <1>1, PhaseFacts DEF Abstract!Init, Abstract!Kinds

\* What a step that moves one call is to CallContract.
LEMMA RefinesMove ==
    ASSUME HistoryInv, NEW fp \in Fingerprint, NEW st \in Moved, OneCallMoves(fp, st)
    PROVE  [Abstract!Next]_<<Phases, KindsOf>>
<1>0. /\ TypeOK /\ OnlyThisStepOpen /\ SerialExecution
      /\ Moves(calls[fp], st) /\ SetCall(fp, st)
      /\ calls[fp].status = "pending" => Predecessors(fp)
    BY DEF HistoryInv, IInv, TypeInv, OneCallMoves
<1>1. /\ calls'[fp].status = st /\ calls'[fp].effect = calls[fp].effect
      /\ \A g \in Fingerprint \ {fp} : calls'[g] = calls[g]
    BY <1>0, SetCallEffect
<1>2. \A g \in Fingerprint \ {fp} : calls[g].status \in {"absent", "pending", "result"}
    BY <1>0, Alone DEF Moves
<1>3. Abstract!Alone(fp)
    BY <1>2, PhaseFacts DEF Abstract!Alone, Abstract!Quiet
<1>4. KindsOf' = KindsOf
    BY <1>1 DEF KindsOf
<1>5. Phases' = [Phases EXCEPT ![fp] = PhaseOf(st)]
    BY <1>1 DEF Phases
<1>6. \A p : PhaseOf(st) = p => Abstract!Become(fp, p)
    BY <1>4, <1>5 DEF Abstract!Become, Phases, KindsOf
<1>7. Phases[fp] = PhaseOf(calls[fp].status) /\ KindsOf[fp] = calls[fp].effect
    BY DEF Phases, KindsOf
<1>s. CASE PhaseOf(st) = Phases[fp]
    <2>1. Phases' = Phases
        BY <1>s, <1>5 DEF Phases
    <2> QED BY <2>1, <1>4
<1>a. CASE calls[fp].status = "requested" /\ calls[fp].effect # "read_only"
           /\ st = "awaiting_approval"
    <2>1. Abstract!Ask(fp)
        BY <1>a, <1>3, <1>6, <1>7, PhaseFacts DEF Abstract!Ask, Phases, KindsOf
    <2> QED BY <2>1 DEF Abstract!Next
<1>b. CASE calls[fp].status = "awaiting_approval" /\ st \in {"approved", "denied"}
    <2>1. Abstract!Decide(fp)
        BY <1>b, <1>6, <1>7, PhaseFacts DEF Abstract!Decide, Phases
    <2> QED BY <2>1 DEF Abstract!Next
<1>c. CASE calls[fp].status = "effect_unknown" /\ st = "approved"
    <2>1. Abstract!Reallow(fp)
        BY <1>c, <1>6, <1>7, PhaseFacts DEF Abstract!Reallow, Phases
    <2> QED BY <2>1 DEF Abstract!Next
<1>d. CASE /\ st = "dispatching"
           /\ \/ calls[fp].status = "approved"
              \/ calls[fp].status = "requested" /\ calls[fp].effect = "read_only"
    <2>1. Abstract!Run(fp)
        BY <1>d, <1>3, <1>6, <1>7, PhaseFacts DEF Abstract!Run, Phases, KindsOf
    <2> QED BY <2>1 DEF Abstract!Next
<1>e. CASE calls[fp].status \in {"requested", "approved", "denied", "dispatching"}
           /\ st = "effect_unknown"
    <2>1. Abstract!Doubt(fp)
        BY <1>e, <1>3, <1>6, <1>7, PhaseFacts DEF Abstract!Doubt, Phases
    <2> QED BY <2>1 DEF Abstract!Next
<1>f. CASE st = "result" /\ calls[fp].status
             \in {"requested", "approved", "denied", "dispatching", "effect_unknown"}
    <2>1. Abstract!Reply(fp)
        BY <1>f, <1>3, <1>6, <1>7, PhaseFacts DEF Abstract!Reply, Phases
    <2> QED BY <2>1 DEF Abstract!Next
<1> QED
    BY <1>0, <1>7, <1>s, <1>a, <1>b, <1>c, <1>d, <1>e, <1>f, PhaseFacts DEF Moves

\* A step that accepts a reply proposes its calls.
LEMMA RefinesReply ==
    ASSUME HistoryInv, TypeOK', ReplyAccepted
    PROVE  Abstract!Next
<1> DEFINE new == {fp \in Fingerprint : calls'[fp] # calls[fp]}
<1>1. \A fp \in Fingerprint : calls[fp].status \in {"absent", "result"}
    BY DEF ReplyAccepted, HistoryInv, IInv, StatusOfCalls, Quiescent
<1>2. \A fp \in new : calls[fp].status = "absent" /\ calls'[fp].status = "pending"
    BY DEF ReplyAccepted
<1>3. \A fp \in Fingerprint \ new : calls'[fp] = calls[fp]
    OBVIOUS
<1>4. new \in SUBSET Fingerprint
    OBVIOUS
<1> HIDE DEF new
<1>5. \A fp \in Fingerprint : Phases[fp] \in {"unborn", "answered"}
    BY <1>1, PhaseFacts DEF Phases
<1>6. \A fp \in new : Phases[fp] = "unborn"
    BY <1>2, <1>4, PhaseFacts DEF Phases
<1>7. Phases' = [fp \in Fingerprint |-> IF fp \in new THEN "proposed" ELSE Phases[fp]]
    BY <1>2, <1>3, PhaseFacts DEF Phases
<1>8. KindsOf' \in [Fingerprint -> Abstract!Kinds]
    BY DEF TypeOK, CallRecord, Effects, Abstract!Kinds, KindsOf
<1>9. \A fp \in Fingerprint \ new : KindsOf'[fp] = KindsOf[fp]
    BY <1>3 DEF KindsOf
<1>10. PICK n \in SUBSET Fingerprint : n = new
    BY <1>4
<1>11. Abstract!Propose(n)
    BY <1>5, <1>6, <1>7, <1>8, <1>9, <1>10 DEF Abstract!Propose, Phases, KindsOf
<1> QED BY <1>10, <1>11 DEF Abstract!Next

\* Every step of the loop, its drives, faults and operators is a step of
\* CallContract or changes nothing CallContract sees.
LEMMA RefinesStep ==
    HistoryInv /\ [Next]_vars => [Abstract!Next]_<<Phases, KindsOf>>
<1> SUFFICES ASSUME HistoryInv, [Next]_vars
             PROVE  [Abstract!Next]_<<Phases, KindsOf>>
    OBVIOUS
<1>1. StepShape /\ TypeOK'
    BY Shapes, SafetyStep DEF HistoryInv, IInv, TypeInv
<1>2. CASE NoCallMoves
    BY <1>2 DEF NoCallMoves, Phases, KindsOf
<1> QED BY <1>1, <1>2, RefinesMove, RefinesReply DEF StepShape, OtherShape

\* The durable loop implements what CallContract promises: every call is
\* proposed, allowed, run, doubted and answered in that order, one at a time,
\* whatever the interleaving of drives, faults and operators.
THEOREM LoopKeepsCallContract == Spec => ImplementsCallContract
<1>1. HistoryInv /\ [Next]_vars =>
        [Abstract!Next]_<<[fp \in Fingerprint |-> PhaseOf(calls[fp].status)],
                          [fp \in Fingerprint |-> calls[fp].effect]>>
    BY RefinesStep DEF Phases, KindsOf
<1> QED BY HistoryInductive, RefinesInit, <1>1, PTL
        DEF Spec, ImplementsCallContract, Abstract!Spec

-----------------------------------------------------------------------------
\* The terminal event, when one Harness drives the run.

\* A suspended drive holds the stored run, and a run that is being cancelled
\* waits for nobody.
Holds(solo) ==
    /\ drive[solo].at \in Suspended => drive[solo].held = snap
    /\ drive[solo].at = "cancelling" => snap.status # "awaiting_approval"

\* A call waits for its approval only while the run does.
WaitsTogether ==
    snap.status # "awaiting_approval" =>
        \A fp \in Fingerprint : calls[fp].status # "awaiting_approval"

SoloInv(solo) ==
    HistoryInv /\ Holds(solo) /\ WaitsTogether /\ TerminalEventMatches

\* A step that ends the run logs the event of its status; no other step logs.
Logged(event, status) ==
    Log(event) /\ snap.status \notin Terminal /\ snap'.status = status

EventsAgree ==
    \/ UNCHANGED terminals /\ snap'.status = snap.status
    \/ UNCHANGED terminals /\ snap.status \notin Terminal /\ snap'.status \notin Terminal
    \/ Logged("run.completed", "completed") \/ Logged("run.failed", "failed")
    \/ Logged("run.cancelled", "cancelled")

\* No step ends a run that awaits an approval.
NobodyLeftWaiting ==
    snap'.status \in {"cancelled", "failed"} =>
        /\ snap.status # "awaiting_approval"
        /\ \A fp \in Fingerprint : calls'[fp].status = "awaiting_approval"
              => calls[fp].status = "awaiting_approval"

\* What a step has to show.
LEMMA SoloKept ==
    ASSUME NEW solo, SoloInv(solo), HistoryInv', EventsAgree, NobodyLeftWaiting,
           Holds(solo)'
    PROVE  SoloInv(solo)'
<1>1. WaitsTogether'
    <2>1. CASE snap'.status \in {"cancelled", "failed"}
        BY <2>1 DEF NobodyLeftWaiting, SoloInv, WaitsTogether
    <2>2. CASE snap'.status \notin {"cancelled", "failed"}
        BY <2>2 DEF HistoryInv, IInv, StatusOfCalls, WaitsTogether
    <2> QED BY <2>1, <2>2
<1>2. TerminalEventMatches'
    <2>0. terminals = CASE snap.status = "completed" -> <<"run.completed">>
                        [] snap.status = "failed" -> <<"run.failed">>
                        [] snap.status = "cancelled" -> <<"run.cancelled">>
                        [] OTHER -> <<>>
        BY DEF SoloInv, TerminalEventMatches
    <2>1. CASE UNCHANGED terminals /\ snap'.status = snap.status
        BY <2>0, <2>1 DEF TerminalEventMatches
    <2>2. snap.status \notin Terminal => terminals = <<>>
        BY <2>0 DEF Terminal
    <2>a. \A e : Append(<<>>, e) = <<e>>
        OBVIOUS
    <2>3. CASE UNCHANGED terminals /\ snap.status \notin Terminal
               /\ snap'.status \notin Terminal
        BY <2>2, <2>3 DEF TerminalEventMatches, Terminal
    <2>4. CASE Logged("run.completed", "completed")
        <3>1. terminals' = <<"run.completed">> /\ snap'.status = "completed"
            BY <2>2, <2>a, <2>4 DEF Logged, Log
        <3> QED BY <3>1 DEF TerminalEventMatches
    <2>5. CASE Logged("run.failed", "failed")
        <3>1. terminals' = <<"run.failed">> /\ snap'.status = "failed"
            BY <2>2, <2>a, <2>5 DEF Logged, Log
        <3> QED BY <3>1 DEF TerminalEventMatches
    <2>6. CASE Logged("run.cancelled", "cancelled")
        <3>1. terminals' = <<"run.cancelled">> /\ snap'.status = "cancelled"
            BY <2>2, <2>a, <2>6 DEF Logged, Log
        <3> QED BY <3>1 DEF TerminalEventMatches
    <2> QED BY <2>1, <2>3, <2>4, <2>5, <2>6 DEF EventsAgree
<1> QED BY <1>1, <1>2 DEF SoloInv

\* Every step of a run with one Harness keeps its event log and its status
\* together: one step per action of Next.
LEMMA SoloStep ==
    ASSUME NEW solo, Harnesses = {solo}
    PROVE  SoloInv(solo) /\ [Next]_vars => SoloInv(solo)'
<1> SUFFICES ASSUME SoloInv(solo), [Next]_vars PROVE SoloInv(solo)'
    OBVIOUS
<1>i. SoloInv(solo) /\ HistoryInv'
    BY HistoryStep DEF SoloInv
<1>0. /\ snap \in Snapshot /\ drive \in [Harnesses -> Drive] /\ TypeOK /\ IInv
      /\ Holds(solo) /\ solo \in Harnesses
    BY DEF SoloInv, HistoryInv, IInv, TypeInv, TypeOK
<1>1. \A h \in Harnesses : h = solo
    OBVIOUS
<1>r. NoDrive.at = "idle" /\ AtLoop.at = "loop"
    BY DEF NoDrive, AtLoop
\* The run is at work while its drive is suspended.
<1>w. ASSUME NEW h \in Harnesses, drive[h].at \in Suspended
      PROVE  /\ drive[h].held = snap
             /\ snap.status \in Working \cup {"ready_model"}
             /\ snap.status \notin {"awaiting_approval", "effect_unknown", "cancelled"}
             /\ drive[h].at = "model" => snap.status = "ready_model"
    <2>1. drive[h].held = snap /\ InPlace(h)
        BY <1>w, <1>0, <1>1 DEF Holds, IInv
    <2> QED BY <1>w, <2>1 DEF InPlace, Fresh, Suspended, Working
<1>p. \A fp \in Fingerprint :
         PaidFor(calls[fp], approvals[fp], dispatches[fp], retries[fp])
    BY <1>0 DEF IInv, AllPaidFor
<1>2. ASSUME NEW h \in Harnesses, Resume(h)
      PROVE  SoloInv(solo)'
    <2>1. UNCHANGED <<snap, calls, terminals>> /\ Goto(h, AtLoop)
        BY <1>2 DEF Resume, store
    <2>2. Holds(solo)'
        BY <2>1, <1>0, <1>1, <1>r DEF Goto, Holds, Suspended
    <2> QED BY <2>1, <2>2, <1>i, SoloKept DEF EventsAgree, NobodyLeftWaiting
<1>3. ASSUME NEW h \in Harnesses, LeaveLoop(h)
      PROVE  SoloInv(solo)'
    <2>1. UNCHANGED <<snap, calls, terminals>> /\ Goto(h, NoDrive)
        BY <1>3 DEF LeaveLoop, Leave, store
    <2>2. Holds(solo)'
        BY <2>1, <1>0, <1>1, <1>r DEF Goto, Holds, Suspended
    <2> QED BY <2>1, <2>2, <1>i, SoloKept DEF EventsAgree, NobodyLeftWaiting
<1>4. ASSUME NEW h \in Harnesses, Rejected(h)
      PROVE  SoloInv(solo)'
    <2>1. UNCHANGED <<snap, calls, terminals>> /\ Goto(h, NoDrive)
        BY <1>4 DEF Rejected, Leave, store
    <2>2. Holds(solo)'
        BY <2>1, <1>0, <1>1, <1>r DEF Goto, Holds, Suspended
    <2> QED BY <2>1, <2>2, <1>i, SoloKept DEF EventsAgree, NobodyLeftWaiting
<1>5. ASSUME NEW h \in Harnesses, Crash(h)
      PROVE  SoloInv(solo)'
    <2>1. UNCHANGED <<snap, calls, terminals>> /\ Goto(h, NoDrive)
        BY <1>5 DEF Crash, Leave, store
    <2>2. Holds(solo)'
        BY <2>1, <1>0, <1>1, <1>r DEF Goto, Holds, Suspended
    <2> QED BY <2>1, <2>2, <1>i, SoloKept DEF EventsAgree, NobodyLeftWaiting
<1>6. ASSUME NEW h \in Harnesses, NEW o \in 1 .. MaxCalls, AwaitDecision(h, o)
      PROVE  SoloInv(solo)'
    <2>1. UNCHANGED <<snap, calls, terminals>> /\ Goto(h, NoDrive)
        BY <1>6 DEF AwaitDecision, Leave, store
    <2>2. Holds(solo)'
        BY <2>1, <1>0, <1>1, <1>r DEF Goto, Holds, Suspended
    <2> QED BY <2>1, <2>2, <1>i, SoloKept DEF EventsAgree, NobodyLeftWaiting
<1>7. ASSUME NEW h \in Harnesses, CommitFinal(h)
      PROVE  SoloInv(solo)'
    <2>1. snap.status = "pending_final"
        BY <1>7, <1>0, <1>w DEF CommitFinal, Suspended
    <2>2. /\ snap'.status = "completed" /\ UNCHANGED calls
          /\ Log("run.completed") /\ Goto(h, NoDrive)
        BY <1>7, <2>1, <1>0, StatusFacts, CommitStatus DEF CommitFinal, Leave
    <2>3. Holds(solo)'
        BY <2>2, <1>0, <1>1, <1>r DEF Goto, Holds, Suspended
    <2> QED
        BY <2>1, <2>2, <2>3, <1>i, SoloKept
           DEF EventsAgree, NobodyLeftWaiting, Logged, Terminal
<1>8. ASSUME NEW h \in Harnesses, ExceedMaxSteps(h)
      PROVE  SoloInv(solo)'
    <2>1. snap.status = "ready_model"
        BY <1>8, <1>0, <1>w DEF ExceedMaxSteps, Suspended
    <2>2. /\ snap'.status = "failed" /\ UNCHANGED calls
          /\ Log("run.failed") /\ Goto(h, NoDrive)
        BY <1>8, <2>1, <1>0, StatusFacts, CommitStatus DEF ExceedMaxSteps, Leave
    <2>3. Holds(solo)'
        BY <2>2, <1>0, <1>1, <1>r DEF Goto, Holds, Suspended
    <2> QED
        BY <2>1, <2>2, <2>3, <1>i, SoloKept
           DEF EventsAgree, NobodyLeftWaiting, Logged, Terminal
<1>9. ASSUME NEW h \in Harnesses, FailModel(h)
      PROVE  SoloInv(solo)'
    <2>1. snap.status = "ready_model" /\ drive[h].held = snap
        BY <1>9, <1>0, <1>w DEF FailModel, Suspended
    <2>2. /\ snap'.status = "failed" /\ UNCHANGED calls
          /\ Log("run.failed") /\ Goto(h, NoDrive)
        BY <1>9, <2>1, <1>0, StatusFacts, CommitStatus DEF FailModel, Leave
    <2>3. Holds(solo)'
        BY <2>2, <1>0, <1>1, <1>r DEF Goto, Holds, Suspended
    <2> QED
        BY <2>1, <2>2, <2>3, <1>i, SoloKept
           DEF EventsAgree, NobodyLeftWaiting, Logged, Terminal
<1>10. ASSUME NEW h \in Harnesses, NEW reply \in Replies, FailDuplicate(h, reply)
      PROVE  SoloInv(solo)'
    <2>1. snap.status = "ready_model"
        BY <1>10, <1>0, <1>w DEF FailDuplicate, Suspended
    <2>2. /\ snap'.status = "failed" /\ UNCHANGED calls
          /\ Log("run.failed") /\ Goto(h, NoDrive)
        BY <1>10, <2>1, <1>0, StatusFacts, CommitStatus DEF FailDuplicate, Leave
    <2>3. Holds(solo)'
        BY <2>2, <1>0, <1>1, <1>r DEF Goto, Holds, Suspended
    <2> QED
        BY <2>1, <2>2, <2>3, <1>i, SoloKept
           DEF EventsAgree, NobodyLeftWaiting, Logged, Terminal
<1>11. ASSUME NEW h \in Harnesses, FinishReply(h)
      PROVE  SoloInv(solo)'
    <2>1. /\ snap.status \in Working /\ snap'.status = "ready_model"
          /\ UNCHANGED <<calls, terminals, drive>> /\ drive[solo].at = "loop"
        BY <1>11, <1>0, <1>1, StatusFacts, CommitStatus DEF FinishReply
    <2>2. Holds(solo)'
        BY <2>1 DEF Holds, Suspended
    <2> QED
        BY <2>1, <2>2, <1>i, SoloKept
           DEF EventsAgree, NobodyLeftWaiting, Working, Terminal
<1>12. ASSUME NEW h \in Harnesses, Start(h)
      PROVE  SoloInv(solo)'
    <2>1. snap' = [[NoRun EXCEPT !.status = "ready_model"]
                     EXCEPT !.revision = snap.revision + 1]
        BY <1>12 DEF Start, Commit
    <2>2. /\ snap.status = "absent" /\ snap'.status = "ready_model"
          /\ UNCHANGED <<calls, terminals>> /\ Goto(h, AtLoop)
        BY <1>12, <2>1 DEF NoRun, Start
    <2>3. Holds(solo)'
        BY <2>2, <1>0, <1>1, <1>r DEF Goto, Holds, Suspended
    <2> QED
        BY <2>2, <2>3, <1>i, SoloKept DEF EventsAgree, NobodyLeftWaiting, Terminal
<1>13. ASSUME NEW h \in Harnesses, StartModel(h)
      PROVE  SoloInv(solo)'
    <2> DEFINE d == Suspend("model", snap', 0)
    <2>1. /\ snap' \in Snapshot /\ snap'.status = snap.status
          /\ snap.status \in {"ready_model"}
        BY <1>13, <1>0, CommitType DEF StartModel
    <2>2. Goto(h, d) /\ UNCHANGED terminals
        BY <1>13 DEF StartModel
    <2>3. d.held = snap' /\ d.at = "model"
        BY <2>1, BoundsAssumption, SuspendType DEF Location
    <2> HIDE DEF d
    <2>4. drive'[solo] = d
        BY <2>2, <1>0, <1>1 DEF Goto
    <2>5. Holds(solo)'
        BY <2>3, <2>4 DEF Holds
    <2> QED
        BY <2>1, <2>2, <2>5, <1>i, SoloKept
           DEF EventsAgree, NobodyLeftWaiting, Terminal, Working
<1>14. ASSUME NEW h \in Harnesses, NEW o \in 1 .. MaxCalls, RequestCall(h, o)
      PROVE  SoloInv(solo)'
    <2> DEFINE d == Suspend("requested", snap', o)
    <2>1. /\ snap' \in Snapshot /\ snap'.status = snap.status
          /\ snap.status \in Working
        BY <1>14, <1>0, CommitType DEF RequestCall
    <2>2. Goto(h, d) /\ UNCHANGED terminals
        BY <1>14 DEF RequestCall
    <2>3. d.held = snap' /\ d.at = "requested"
        BY <2>1, BoundsAssumption, SuspendType DEF Location
    <2> HIDE DEF d
    <2>4. drive'[solo] = d
        BY <2>2, <1>0, <1>1 DEF Goto
    <2>5. Holds(solo)'
        BY <2>3, <2>4 DEF Holds
    <2> QED
        BY <2>1, <2>2, <2>5, <1>i, SoloKept
           DEF EventsAgree, NobodyLeftWaiting, Terminal, Working
<1>15. ASSUME NEW h \in Harnesses, NEW o \in 1 .. MaxCalls, DispatchCall(h, o)
      PROVE  SoloInv(solo)'
    <2> DEFINE d == Suspend("handler", snap', o)
    <2>1. /\ snap' \in Snapshot /\ snap'.status = "processing_reply"
          /\ snap.status \in Working
        BY <1>15, <1>0, StatusFacts, CommitStatus, ProcessedStatus DEF DispatchCall
    <2>2. Goto(h, d) /\ UNCHANGED terminals
        BY <1>15 DEF DispatchCall
    <2>3. d.held = snap' /\ d.at = "handler"
        BY <2>1, BoundsAssumption, SuspendType DEF Location
    <2> HIDE DEF d
    <2>4. drive'[solo] = d
        BY <2>2, <1>0, <1>1 DEF Goto
    <2>5. Holds(solo)'
        BY <2>3, <2>4 DEF Holds
    <2> QED
        BY <2>1, <2>2, <2>5, <1>i, SoloKept
           DEF EventsAgree, NobodyLeftWaiting, Terminal, Working
<1>16. ASSUME NEW h \in Harnesses, NEW returned \in BOOLEAN, HandlerEnds(h, returned)
      PROVE  SoloInv(solo)'
    <2>1. UNCHANGED <<snap, calls, terminals>> /\ drive[h].at = "handler"
        BY <1>16 DEF HandlerEnds, store
    <2>2. drive'[h].held = drive[h].held /\ drive'[h].at = "drain"
        BY <1>16, <1>0 DEF HandlerEnds, Goto, Drive
    <2>3. Holds(solo)'
        BY <2>1, <2>2, <1>0, <1>1 DEF Holds, Suspended
    <2> QED BY <2>1, <2>3, <1>i, SoloKept DEF EventsAgree, NobodyLeftWaiting
<1>17. ASSUME NEW h \in Harnesses, CancelElsewhere(h)
      PROVE  SoloInv(solo)'
    <2> DEFINE d == [NoDrive EXCEPT !.at = "cancelling"]
    <2>1. UNCHANGED <<snap, calls, terminals>> /\ Goto(h, d)
        BY <1>17 DEF CancelElsewhere, store
    <2>2. d.at = "cancelling"
        BY DEF NoDrive
    <2>3. snap.status # "awaiting_approval"
        BY <1>17, <1>w DEF CancelElsewhere, Suspended
    <2> HIDE DEF d
    <2>4. Holds(solo)'
        BY <2>1, <2>2, <2>3, <1>0, <1>1 DEF Goto, Holds, Suspended
    <2> QED BY <2>1, <2>4, <1>i, SoloKept DEF EventsAgree, NobodyLeftWaiting
<1>18. ASSUME NEW h \in Harnesses, CommitCancelled(h)
      PROVE  SoloInv(solo)'
    <2>1. Goto(h, NoDrive) /\ UNCHANGED calls /\ drive[h].at = "cancelling"
        BY <1>18 DEF CommitCancelled, Leave
    <2>2. Holds(solo)'
        BY <2>1, <1>0, <1>1, <1>r DEF Goto, Holds, Suspended
    <2>3. CASE snap.status \in Terminal
        <3>1. UNCHANGED <<snap, terminals>>
            BY <1>18, <2>3 DEF CommitCancelled
        <3> QED BY <3>1, <2>1, <2>2, <1>i, SoloKept DEF EventsAgree, NobodyLeftWaiting
    <2>4. CASE snap.status \notin Terminal
        <3>1. snap'.status = "cancelled" /\ Log("run.cancelled")
            BY <1>18, <2>4, <1>0, StatusFacts, CommitStatus DEF CommitCancelled
        <3>2. snap.status # "awaiting_approval"
            BY <2>1, <1>0, <1>1 DEF Holds
        <3> QED BY <3>1, <3>2, <2>1, <2>2, <2>4, <1>i, SoloKept
               DEF EventsAgree, NobodyLeftWaiting, Logged
    <2> QED BY <2>3, <2>4
<1>19. ASSUME NEW h \in Harnesses, NEW cat \in Catalogs, Redeploy(h, cat)
      PROVE  SoloInv(solo)'
    <2>1. UNCHANGED <<snap, calls, terminals, drive>>
        BY <1>19 DEF Redeploy, store
    <2>2. Holds(solo)'
        BY <2>1, <1>0 DEF Holds
    <2> QED BY <2>1, <2>2, <1>i, SoloKept DEF EventsAgree, NobodyLeftWaiting
<1>20. ASSUME NEW h \in Harnesses, NEW o \in 1 .. MaxCalls, RefuseCall(h, o)
      PROVE  SoloInv(solo)'
    <2>1. <<snap.step, o>> \in Fingerprint /\ snap.status \in Working
        BY <1>20, <1>0, ProcessedStatus DEF RefuseCall
    <2>m. Answer(<<snap.step, o>>, TRUE) \in Message
        BY <2>1, AnswerType
    <2>2. /\ snap'.status = "processing_reply"
          /\ Goto(h, AtLoop) /\ UNCHANGED terminals
        BY <1>20, <2>m, <1>0, StatusFacts, CommitExtend DEF RefuseCall
    <2>3. Holds(solo)'
        BY <2>2, <1>0, <1>1, <1>r DEF Goto, Holds, Suspended
    <2> QED
        BY <2>1, <2>2, <2>3, <1>i, SoloKept
           DEF EventsAgree, NobodyLeftWaiting, Terminal, Working
<1>21. ASSUME NEW h \in Harnesses, NEW o \in 1 .. MaxCalls, MarkEffectUnknown(h, o)
      PROVE  SoloInv(solo)'
    <2>1. <<snap.step, o>> \in Fingerprint /\ snap.status \in Working
        BY <1>21, <1>0, ProcessedStatus DEF MarkEffectUnknown
    <2>2. /\ snap'.status = "effect_unknown"
          /\ Goto(h, NoDrive) /\ UNCHANGED terminals
        BY <1>21, <1>0, StatusFacts, CommitStatus DEF MarkEffectUnknown, Leave
    <2>3. Holds(solo)'
        BY <2>2, <1>0, <1>1, <1>r DEF Goto, Holds, Suspended
    <2> QED
        BY <2>1, <2>2, <2>3, <1>i, SoloKept
           DEF EventsAgree, NobodyLeftWaiting, Terminal, Working
<1>22. ASSUME NEW h \in Harnesses, NEW o \in 1 .. MaxCalls, RequestApproval(h, o)
      PROVE  SoloInv(solo)'
    <2>1. <<snap.step, o>> \in Fingerprint /\ snap.status \in Working
        BY <1>22, <1>0, ProcessedStatus DEF RequestApproval
    <2>2. /\ snap'.status = "awaiting_approval"
          /\ Goto(h, NoDrive) /\ UNCHANGED terminals
        BY <1>22, <1>0, StatusFacts, CommitStatus DEF RequestApproval, Leave
    <2>3. Holds(solo)'
        BY <2>2, <1>0, <1>1, <1>r DEF Goto, Holds, Suspended
    <2> QED
        BY <2>1, <2>2, <2>3, <1>i, SoloKept
           DEF EventsAgree, NobodyLeftWaiting, Terminal, Working
<1>23. ASSUME NEW h \in Harnesses, CommitResult(h)
      PROVE  SoloInv(solo)'
    <2> DEFINE failed == ~drive[h].returned
               m == Answer(HeldCall(h), failed)
    <2>1. HeldCall(h) \in Fingerprint /\ drive[h].held = snap
          /\ snap.status = "processing_reply"
        BY <1>23, <1>0, ExecutedStatus DEF CommitResult
    <2>2. failed \in BOOLEAN
        BY Zenon
    <2>3. /\ Commit(Extend(snap, snap.status, m))
          /\ Goto(h, AtLoop) /\ UNCHANGED terminals
        BY <1>23, <2>1 DEF CommitResult
    <2> HIDE DEF failed
    <2>4. m \in Message
        BY <2>1, <2>2, AnswerType
    <2> HIDE DEF m
    <2>5. snap'.status = "processing_reply"
        BY <2>1, <2>3, <2>4, <1>0, CommitExtendSame
    <2>6. Holds(solo)'
        BY <2>3, <1>0, <1>1, <1>r DEF Goto, Holds, Suspended
    <2> QED
        BY <2>1, <2>3, <2>5, <2>6, <1>i, SoloKept
           DEF EventsAgree, NobodyLeftWaiting, Terminal
<1>24. ASSUME NEW h \in Harnesses, PauseUnknown(h)
      PROVE  SoloInv(solo)'
    <2>1. drive[h].held = snap /\ snap.status = "processing_reply"
        BY <1>24, <1>0, ExecutedStatus DEF PauseUnknown
    <2>2. /\ snap'.status \in {"paused_recovery", "effect_unknown"}
          /\ Goto(h, NoDrive) /\ UNCHANGED terminals
        BY <1>24, <2>1, <1>0, StatusFacts, CommitStatus DEF PauseUnknown, Leave
    <2>3. Holds(solo)'
        BY <2>2, <1>0, <1>1, <1>r DEF Goto, Holds, Suspended
    <2> QED
        BY <2>1, <2>2, <2>3, <1>i, SoloKept DEF EventsAgree, NobodyLeftWaiting, Terminal
<1>25. ASSUME NEW h \in Harnesses, CancelHandler(h)
      PROVE  SoloInv(solo)'
    <2> DEFINE d == [NoDrive EXCEPT !.at = "cancelling"]
    <2>1. Fresh(drive[h].held) /\ UNCHANGED terminals
        BY <1>25, <1>0, <1>1 DEF CancelHandler, Holds, Suspended, Fresh
    <2>2. drive[h].held = snap /\ snap.status = "processing_reply"
        BY <1>25, <2>1, <1>0, ExecutedStatus DEF CancelHandler
    <2>3. snap'.status = "effect_unknown" /\ Goto(h, d)
        BY <1>25, <2>1, <2>2, <1>0, StatusFacts, CommitStatus DEF CancelHandler
    <2>4. d.at = "cancelling"
        BY DEF NoDrive
    <2> HIDE DEF d
    <2>5. Holds(solo)'
        BY <2>3, <2>4, <1>0, <1>1 DEF Goto, Holds, Suspended
    <2> QED
        BY <2>1, <2>2, <2>3, <2>5, <1>i, SoloKept
           DEF EventsAgree, NobodyLeftWaiting, Terminal
<1>26. ASSUME NEW fp \in Fingerprint,
              NEW answer \in BOOLEAN, ResolveApproval(fp, answer)
      PROVE  SoloInv(solo)'
    <2>1. calls[fp].status = "awaiting_approval"
        BY <1>26, <1>p DEF ResolveApproval, PaidFor
    <2>2. snap.status = "awaiting_approval"
        BY <2>1 DEF SoloInv, WaitsTogether
    <2>3. snap'.status = "awaiting_resume" /\ UNCHANGED <<terminals, drive>>
        BY <1>26, <1>0, StatusFacts, CommitStatus DEF ResolveApproval
    <2>4. Holds(solo)'
        BY <2>2, <2>3, <1>w, <1>1 DEF Holds
    <2> QED BY <2>2, <2>3, <2>4, <1>i, SoloKept DEF EventsAgree, NobodyLeftWaiting, Terminal
<1>27. ASSUME NEW fp \in Fingerprint, NEW failed \in BOOLEAN, SettleEffect(fp, failed)
      PROVE  SoloInv(solo)'
    <2> DEFINE status == IF snap.status = "cancelled" THEN "cancelled" ELSE "awaiting_resume"
    <2>1. snap.status \in {"effect_unknown", "cancelled"}
          /\ calls[fp].status = "effect_unknown"
        BY <1>27 DEF SettleEffect, Reconcilable
    <2>2. Answer(fp, failed) \in Message
        BY AnswerType
    <2>3. /\ Commit(Extend(snap, status, Answer(fp, failed))) /\ SetCall(fp, "result")
          /\ UNCHANGED <<terminals, drive>>
        BY <1>27 DEF SettleEffect
    <2>4. status \in RunStatus
        BY StatusFacts
    <2> HIDE DEF status
    <2>5. snap'.status = status
        BY <2>2, <2>3, <2>4, <1>0, CommitExtend
    <2>6. \A g \in Fingerprint : calls'[g].status = "awaiting_approval"
             => calls[g].status = "awaiting_approval"
        BY <2>3, <1>0, SetCallEffect
    <2>7. Holds(solo)'
        BY <2>1, <2>3, <2>5, <1>w, <1>1 DEF Holds, status
    <2> QED
        BY <2>1, <2>3, <2>5, <2>6, <2>7, <1>i, SoloKept
           DEF EventsAgree, NobodyLeftWaiting, Terminal, status
<1>28. ASSUME NEW fp \in Fingerprint, RetryEffect(fp)
      PROVE  SoloInv(solo)'
    <2>1. snap.status = "effect_unknown"
        BY <1>28 DEF RetryEffect, Reconcilable
    <2>2. snap'.status = "awaiting_resume" /\ UNCHANGED <<terminals, drive>>
        BY <1>28, <1>0, StatusFacts, CommitStatus DEF RetryEffect
    <2>3. Holds(solo)'
        BY <2>1, <2>2, <1>w, <1>1 DEF Holds
    <2> QED BY <2>1, <2>2, <2>3, <1>i, SoloKept DEF EventsAgree, NobodyLeftWaiting, Terminal
<1>29. ASSUME NEW h \in Harnesses, NEW reply \in Replies, AcceptReply(h, reply)
      PROVE  SoloInv(solo)'
    <2>1. drive[h].held = snap /\ snap.status = "ready_model"
        BY <1>29, <1>0, <1>1, <1>w DEF AcceptReply, Holds, Suspended
    <2>2. /\ snap'.status \in {"pending_final", "processing_reply"}
          /\ Goto(h, AtLoop) /\ UNCHANGED terminals
        BY <1>29, <2>1 DEF AcceptReply, Commit, Extend, Snapshot
    <2>3. Holds(solo)'
        BY <2>2, <1>0, <1>1, <1>r DEF Goto, Holds, Suspended
    <2> QED BY <2>1, <2>2, <2>3, <1>i, SoloKept DEF EventsAgree, NobodyLeftWaiting, Terminal
<1>30. CASE UNCHANGED vars
    <2>1. UNCHANGED <<snap, calls, terminals, drive>>
        BY <1>30 DEF vars
    <2>2. Holds(solo)'
        BY <2>1, <1>0 DEF Holds
    <2> QED BY <2>1, <2>2, <1>i, SoloKept DEF EventsAgree, NobodyLeftWaiting
<1> QED
    BY <1>2, <1>3, <1>4, <1>5, <1>6, <1>7, <1>8, <1>9, <1>10, <1>11, <1>12,
       <1>13, <1>14, <1>15, <1>16, <1>17, <1>18, <1>19, <1>20, <1>21, <1>22,
       <1>23, <1>24, <1>25, <1>26, <1>27, <1>28, <1>29, <1>30
    DEF Next, Progress, Fault, Operator

\* A run nobody has started has no events.
LEMMA SoloInit ==
    ASSUME NEW solo, Harnesses = {solo}
    PROVE  Init => SoloInv(solo)
<1> SUFFICES ASSUME Init PROVE SoloInv(solo)
    OBVIOUS
<1>1. /\ snap.status = "absent" /\ terminals = <<>> /\ drive[solo].at = "idle"
      /\ \A fp \in Fingerprint : calls[fp].status = "absent"
    BY DEF Init, NoRun, NoCall, NoDrive
<1>2. Holds(solo) /\ WaitsTogether /\ TerminalEventMatches
    BY <1>1 DEF Holds, Suspended, WaitsTogether, TerminalEventMatches
<1> QED BY <1>2, HistoryInit DEF SoloInv

\* A run driven by one Harness logs one terminal event, the one of its status,
\* once it is terminal and none before (_persist writes snapshot and event in
\* one transaction, and no path ends a run twice).
THEOREM EventLogAgrees ==
    ASSUME NEW solo, Harnesses = {solo}
    PROVE  Spec => []TerminalEventMatches
<1>1. Init => SoloInv(solo)
    BY SoloInit
<1>2. SoloInv(solo) /\ [Next]_vars => SoloInv(solo)'
    BY SoloStep
<1>3. SoloInv(solo) => TerminalEventMatches
    BY DEF SoloInv
<1> QED BY <1>1, <1>2, <1>3, PTL DEF Spec
=============================================================================
