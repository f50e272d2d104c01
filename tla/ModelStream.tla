---------------------------- MODULE ModelStream -----------------------------
(***************************************************************************)
(* The collector of a streamed model reply: _collect_model_stream of       *)
(* sasori-core, between an adapter that yields whatever it likes and the   *)
(* loop that waits for one reply.                                          *)
(***************************************************************************)
EXTENDS Naturals, Sequences

CONSTANTS
    Replies,      \* the replies a "done" event may carry
    MaxEvents,    \* _MAX_MODEL_STREAM_EVENTS; the byte bound acts alike
    None

VARIABLES
    yielded,      \* what the adapter has yielded
    started, terminal,
    observed,     \* what the stream sink was shown
    outcome       \* "open", "reply", "protocol", "failed" or "aborted"

vars == <<yielded, started, terminal, observed, outcome>>

Terminals == [type : {"done"}, reply : Replies]
             \cup [type : {"error", "aborted"}, reply : {None}]
StreamEvents == [type : {"start", "delta", "other"}, reply : {None}] \cup Terminals

Init ==
    /\ yielded = <<>> /\ observed = <<>>
    /\ started = FALSE /\ terminal = None /\ outcome = "open"

\* The event is out of place: the collector raises and the sink is not shown it.
Refused_RestartAllowed(e) ==
    \/ Len(yielded) >= MaxEvents
    \/ terminal # None
    \/ ~started /\ e.type # "start"
    \/ e.type = "other"
Refused(e) ==
    \/ Len(yielded) >= MaxEvents
    \/ terminal # None
    \/ ~started /\ e.type # "start"
    \/ started /\ e.type = "start"
    \/ e.type = "other"

Yield(e) ==
    /\ outcome = "open"
    /\ yielded' = Append(yielded, e)
    /\ IF Refused(e)
       THEN outcome' = "protocol" /\ UNCHANGED <<started, terminal, observed>>
       ELSE /\ started' = TRUE
            /\ terminal' = IF e \in Terminals THEN e ELSE None
            /\ observed' = Append(observed, e)
            /\ UNCHANGED outcome

\* The stream ends.
End ==
    /\ outcome = "open"
    /\ outcome' = IF terminal = None THEN "protocol"
                  ELSE CASE terminal.type = "done" -> "reply"
                         [] terminal.type = "error" -> "failed"
                         [] OTHER -> "aborted"
    /\ UNCHANGED <<yielded, started, terminal, observed>>

Next == (\E e \in StreamEvents : Yield(e)) \/ End

Spec == Init /\ [][Next]_vars
-----------------------------------------------------------------------------
\* The reference: one start, any number of deltas, one terminal, and no more.
WellFormed(s) ==
    /\ Len(s) \in 2 .. MaxEvents
    /\ s[1].type = "start" /\ s[Len(s)] \in Terminals
    /\ \A i \in 2 .. Len(s) - 1 : s[i].type = "delta"

\* A reply is accepted exactly from a well-formed stream, it is the one its
\* last event carried, and the sink was shown that stream and nothing else.
ReplyIsTheStreams ==
    outcome # "open" =>
        IF WellFormed(yielded)
        THEN LET last == yielded[Len(yielded)] IN
             /\ observed = yielded
             /\ outcome = CASE last.type = "done" -> "reply"
                            [] last.type = "error" -> "failed"
                            [] OTHER -> "aborted"
             /\ outcome = "reply" => terminal.reply = last.reply
        ELSE outcome = "protocol"
=============================================================================
