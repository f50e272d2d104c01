----------------------------- MODULE McpProcess -----------------------------
(***************************************************************************)
(* One call of an MCP tool: _MCPClient.call and the child process it       *)
(* starts, talks to over pipes and reaps (sasori_plugins/mcp_stdio.py).    *)
(* The child is trusted with nothing: it may answer, answer wrongly, stay  *)
(* silent, flood stderr, exit, and ignore its closed stdin and SIGTERM.    *)
(***************************************************************************)
EXTENDS Naturals, Sequences

CONSTANTS
    Requests,   \* initialize, tools/list, tools/call
    MaxLines    \* bound: lines the child writes

VARIABLES
    client,     \* "spawn", "talking", "closing", "reaping", "terminated",
                \* "killed" or "over"
    sent,       \* requests written to the child
    outcome,    \* "none", "text", "failed" or "cancelled"
    stdin,      \* the child's stdin is open
    notified,   \* notifications/cancelled was written
    child,      \* "none", "up" or "dead"
    code,       \* its exit status, 0 or not
    served,     \* requests the child has dealt with
    ran,        \* times it ran the tool
    out,        \* lines in the stdout pipe, "good" or "bad"
    flooded     \* stderr went over its limit

clientVars == <<client, sent, outcome, stdin, notified>>
childVars  == <<child, code, served, ran, out, flooded>>
vars == <<client, sent, outcome, stdin, notified, child, code, served, ran, out, flooded>>

Init ==
    /\ client = "spawn" /\ sent = 0 /\ outcome = "none"
    /\ stdin = FALSE /\ notified = FALSE
    /\ child = "none" /\ code = 0 /\ served = 0 /\ ran = 0
    /\ out = <<>> /\ flooded = FALSE
-----------------------------------------------------------------------------
\* The client.

Spawn ==
    /\ client = "spawn" /\ child = "none"
    /\ child' = "up" /\ stdin' = TRUE
    /\ client' = "talking" /\ sent' = 1
    /\ UNCHANGED <<outcome, notified, code, served, ran, out, flooded>>

\* The process cannot be started: there is nothing to reap.
SpawnFails ==
    /\ client = "spawn" /\ client' = "over" /\ outcome' = "failed"
    /\ UNCHANGED <<sent, stdin, notified, childVars>>

\* The right answer to the last request: the next one, or after tools/call the
\* end of the conversation, for which stdin is closed.
Answered ==
    /\ client = "talking" /\ ~flooded
    /\ out # <<>> /\ Head(out) = "good" /\ out' = Tail(out)
    /\ IF sent < Requests
       THEN sent' = sent + 1 /\ UNCHANGED <<client, stdin>>
       ELSE client' = "closing" /\ stdin' = FALSE /\ UNCHANGED sent
    /\ UNCHANGED <<outcome, notified, child, code, served, ran, flooded>>

\* The child has exited with nothing more to say.
Clean_ExitOnly == child = "dead" /\ code = 0 /\ ~flooded
Clean == child = "dead" /\ code = 0 /\ ~flooded /\ out = <<>>

Return ==
    /\ client = "closing" /\ Clean
    /\ outcome' = "text" /\ client' = "reaping"
    /\ UNCHANGED <<sent, stdin, notified, childVars>>

\* finally: _reap closes stdin.
Fail(how) ==
    /\ outcome' = how /\ client' = "reaping" /\ stdin' = FALSE
    /\ UNCHANGED <<sent, childVars>>

\* A wrong line, the end of the output, too much stderr, or the deadline.
Broken ==
    /\ \/ client = "talking" /\ (flooded \/ (out # <<>> /\ Head(out) = "bad")
                                 \/ (child = "dead" /\ out = <<>>))
       \/ client = "closing" /\ child = "dead" /\ ~Clean
    /\ Fail("failed") /\ UNCHANGED notified
Deadline ==
    /\ client \in {"talking", "closing"}
    /\ Fail("failed") /\ UNCHANGED notified

\* The task is cancelled: once tools/call was sent the child is told so.
Cancel ==
    /\ client \in {"talking", "closing"}
    /\ Fail("cancelled")
    /\ notified' = (sent = Requests /\ stdin)

\* _reap, shielded from further cancellation: half a second to exit, half a
\* second after terminate(), then kill().
Reaped ==
    /\ client \in {"reaping", "terminated", "killed"} /\ child = "dead"
    /\ client' = "over"
    /\ UNCHANGED <<sent, outcome, stdin, notified, childVars>>

Terminate ==
    /\ client = "reaping" /\ child = "up" /\ client' = "terminated"
    /\ UNCHANGED <<sent, outcome, stdin, notified, childVars>>

Kill_Once ==
    /\ client = "terminated" /\ child = "up" /\ client' = "killed"
    /\ UNCHANGED <<sent, outcome, stdin, notified, childVars>>
Kill ==
    /\ client = "terminated" /\ child = "up" /\ client' = "killed"
    /\ child' = "dead" /\ code' = 1
    /\ UNCHANGED <<sent, outcome, stdin, notified, served, ran, out, flooded>>
-----------------------------------------------------------------------------
\* The child.

Does == child = "up" /\ UNCHANGED clientVars

Write(kind) == Len(out) < MaxLines /\ out' = Append(out, kind)

\* It deals with the next request; the third one runs the tool.
Serve ==
    /\ Does /\ served < sent
    /\ served' = served + 1
    /\ ran' = IF served' = Requests THEN ran + 1 ELSE ran
    /\ \E kind \in {"good", "bad"} : Write(kind)
    /\ UNCHANGED <<child, code, flooded>>

\* It writes a line nobody has asked for.  (One that guesses the right answer
\* of a request before it is sent cannot be told from one that answers it.)
Chatter ==
    /\ Does /\ Write("bad")
    /\ UNCHANGED <<child, code, served, ran, flooded>>

Flood ==
    /\ Does /\ ~flooded /\ flooded' = TRUE
    /\ UNCHANGED <<child, code, served, ran, out>>

Exit ==
    /\ Does /\ child' = "dead" /\ code' \in {0, 1}
    /\ UNCHANGED <<served, ran, out, flooded>>

Next ==
    \/ Spawn \/ SpawnFails \/ Answered \/ Return \/ Broken \/ Deadline \/ Cancel
    \/ Reaped \/ Terminate \/ Kill
    \/ Serve \/ Chatter \/ Flood \/ Exit

\* The client's timers fire and its loop runs; the child owes nothing.
Fairness ==
    WF_vars(Deadline) /\ WF_vars(Reaped) /\ WF_vars(Terminate) /\ WF_vars(Kill)

Spec == Init /\ [][Next]_vars /\ Fairness
-----------------------------------------------------------------------------
\* Properties.

\* A text is returned only when the tool ran, once, and the child has ended
\* well with nothing more in its pipes.
TextIsTheAnswer ==
    outcome = "text" => /\ ran = 1 /\ sent = Requests /\ served = Requests
                        /\ child = "dead" /\ code = 0 /\ out = <<>>

\* Whatever the child does and however the call ends, the child is gone and
\* its call over in the end.
EveryChildIsReaped == child = "up" ~> (client = "over" /\ child = "dead")
=============================================================================
