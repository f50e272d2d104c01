---------------------------- MODULE CallContract ----------------------------
(***************************************************************************)
(* What the runtime promises about tool calls, without drives, commits or  *)
(* recovery.  A call is proposed by a model, may need a decision, runs when *)
(* it is allowed to, may be in doubt afterwards, and is answered once.  A   *)
(* side effect runs once for each time somebody allowed it; only one call   *)
(* is in progress at a time.                                                *)
(***************************************************************************)
EXTENDS Integers

CONSTANT Calls

Kinds  == {"read_only", "idempotent", "side_effecting"}
Phases == {"unborn", "proposed", "asked", "allowed", "refused", "running",
           "doubtful", "answered"}

VARIABLES phase, kind

Quiet(p) == p \in {"unborn", "proposed", "answered"}

\* No other call is in progress.
Alone(c) == \A d \in Calls \ {c} : Quiet(phase[d])

Init ==
    /\ phase = [c \in Calls |-> "unborn"]
    /\ kind \in [Calls -> Kinds]

\* A reply proposes calls, once all earlier calls are answered.
Propose(new) ==
    /\ \A c \in Calls : phase[c] \in {"unborn", "answered"}
    /\ \A c \in new : phase[c] = "unborn"
    /\ phase' = [c \in Calls |-> IF c \in new THEN "proposed" ELSE phase[c]]
    /\ kind' \in [Calls -> Kinds]
    /\ \A c \in Calls \ new : kind'[c] = kind[c]

Become(c, p) == phase' = [phase EXCEPT ![c] = p] /\ UNCHANGED kind

Ask(c) == Alone(c) /\ kind[c] # "read_only" /\ phase[c] = "proposed" /\ Become(c, "asked")

Decide(c) == phase[c] = "asked" /\ (Become(c, "allowed") \/ Become(c, "refused"))

Run(c) ==
    /\ Alone(c)
    /\ phase[c] = "allowed" \/ (kind[c] = "read_only" /\ phase[c] = "proposed")
    /\ Become(c, "running")

\* The outcome of a call that may have had an effect is not known, or the tool
\* is no longer the one the call was made for.
Doubt(c) ==
    /\ Alone(c)
    /\ phase[c] \in {"proposed", "allowed", "refused", "running"}
    /\ Become(c, "doubtful")

\* Somebody takes the risk of running it again.
Reallow(c) == phase[c] = "doubtful" /\ Become(c, "allowed")

Reply(c) ==
    /\ Alone(c)
    /\ phase[c] \notin {"unborn", "asked", "answered"}
    /\ Become(c, "answered")

Next ==
    \/ \E new \in SUBSET Calls : Propose(new)
    \/ \E c \in Calls :
          Ask(c) \/ Decide(c) \/ Run(c) \/ Doubt(c) \/ Reallow(c) \/ Reply(c)

Spec == Init /\ [][Next]_<<phase, kind>>
=============================================================================
