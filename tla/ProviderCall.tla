---------------------------- MODULE ProviderCall ----------------------------
(***************************************************************************)
(* One request to a model provider: JSONTransport (_provider_common.py).   *)
(* The caller waits on the event loop; a worker thread connects, sends and *)
(* reads with blocking calls, and can only be stopped by closing the       *)
(* socket under it, which it registers with the _RequestControl.  The      *)
(* provider streams a message, or another sequence of events than it       *)
(* should, and the connection may end anywhere.                            *)
(***************************************************************************)
EXTENDS ProviderReply

CONSTANTS
    Scripts   \* what the provider may send: its api ("anthropic", "openai" or
              \* "json"), the events, and the message they are meant to carry

VARIABLES
    caller,     \* "waiting", "stopping", "gone" or "answered"
    worker,     \* where the thread is
    tls,        \* an https endpoint
    stop,       \* _RequestControl.stop
    expired,    \* the deadline has passed
    sock,       \* the socket in use: "none", "raw" or "tls"
    registered, \* _RequestControl._interrupt_socket
    aborted,    \* the socket in use was shut down and closed
    response,   \* framing and script of the response, and how much of it is
                \* sent
    received,   \* the events read
    answer

control == <<stop, registered, aborted>>
vars == <<caller, worker, tls, stop, expired, sock, registered, aborted,
          response, received, answer>>

NoResponse == [framed |-> FALSE, script |-> None, sent |-> 0]
Blocking == {"handshake", "sending", "reading"}

Init ==
    /\ caller = "waiting" /\ worker = "start" /\ tls \in BOOLEAN
    /\ stop = FALSE /\ expired = FALSE
    /\ sock = "none" /\ registered = "none" /\ aborted = FALSE
    /\ response = NoResponse /\ received = <<>> /\ answer = Answer("none", None)

\* The worker is over: finish() forgets the socket and the thread ends.
Finish(verdict, m) ==
    /\ worker' = "ended"
    /\ registered' = "none"
    /\ answer' = Answer(verdict, m)
    /\ UNCHANGED <<caller, tls, stop, expired, sock, aborted, response, received>>

\* _RequestControl.check raises.
Checked == ~stop /\ ~expired
CheckFails ==
    \/ stop /\ Finish("stopped", None)
    \/ ~stop /\ expired /\ Finish("timeout", None)

GoOn(to) ==
    /\ worker' = to
    /\ UNCHANGED <<caller, tls, control, expired, sock, response, received, answer>>

\* _abort_socket(s): a socket that TLS has taken over has no descriptor any more.
AbortOf(s) == aborted \/ (s # "none" /\ s = sock)
-----------------------------------------------------------------------------
\* The worker connects.

\* http.client connects, which no control reaches; a transport that fails or
\* times out by itself is "connection" here and below.
Connect ==
    /\ worker = "start"
    /\ \/ CheckFails
       \/ Checked /\ Finish("connection", None)
       \/ /\ Checked
          /\ worker' = "attach" /\ sock' = "raw"
          /\ UNCHANGED <<caller, tls, control, expired, response, received, answer>>

\* attach_socket under its lock, and what it saw of stop.
Attach ==
    /\ worker = "attach"
    /\ registered' = sock
    /\ worker' = IF stop THEN "abort" ELSE "attached"
    /\ UNCHANGED <<caller, tls, stop, expired, sock, aborted, response, received, answer>>

AbortOwn ==
    /\ worker = "abort"
    /\ aborted' = AbortOf(sock)
    /\ worker' = "attached"
    /\ UNCHANGED <<caller, tls, stop, expired, sock, registered, response, received, answer>>

\* check, and then TLS, or the request.
Attached ==
    /\ worker = "attached"
    /\ \/ CheckFails
       \/ Checked /\ GoOn(IF ~tls THEN "sending" ELSE IF sock = "raw" THEN "wrap" ELSE "handshake")

\* wrap_socket takes the descriptor from the raw socket.
Wrap_Unregistered ==
    /\ worker = "wrap"
    /\ sock' = "tls"
    /\ worker' = "attached"
    /\ UNCHANGED <<caller, tls, control, expired, response, received, answer>>
Wrap ==
    /\ worker = "wrap"
    /\ sock' = "tls"
    /\ worker' = "attach"
    /\ UNCHANGED <<caller, tls, control, expired, response, received, answer>>

Handshake ==
    /\ worker = "handshake"
    /\ \/ CheckFails
       \/ Finish("connection", None)
       \/ Checked /\ ~aborted /\ GoOn("sending")

\* The request is sent and the head of the response arrives.
Respond ==
    /\ worker = "sending"
    /\ \/ CheckFails
       \/ Finish("connection", None)
       \/ Finish("http", None)
       \/ /\ Checked /\ ~aborted
          /\ \E s \in Scripts, framed \in BOOLEAN : \E n \in 0 .. Len(s.events) :
                response' = [framed |-> framed, script |-> s, sent |-> n]
          /\ worker' = "reading"
          /\ UNCHANGED <<caller, tls, control, expired, sock, received, answer>>
-----------------------------------------------------------------------------
\* _read_sse and _read_limited.

Script == response.script.events
Terminals == CASE response.script.api = "anthropic" -> AnthropicTerminals
               [] response.script.api = "openai" -> OpenAITerminals
               [] OTHER -> {"body"}
Terminal == received # <<>> /\ received[Len(received)].type \in Terminals

\* An unframed stream is read to its terminal event, a framed one to its length.
ReadOver == Len(received) = response.sent \/ (Terminal /\ ~response.framed)

Read ==
    /\ worker = "reading" /\ ~ReadOver /\ ~Terminal
    /\ Checked /\ ~aborted
    /\ received' = Append(received, Script[Len(received) + 1])
    /\ UNCHANGED <<caller, worker, tls, control, expired, sock, response, answer>>

Reply ==
    CASE response.script.api = "anthropic" -> AnthropicReply(received)
      [] response.script.api = "openai" -> OpenAIReply(received)
      [] OTHER -> Answer(Verdict(received[1].x.blocks, received[1].x.stop), received[1].x)

\* The end of the body: after a terminal event the rest of a framed body is
\* read and dropped.
EndOfBody ==
    /\ worker = "reading" /\ (ReadOver \/ Terminal) /\ ~aborted
    /\ IF response.framed /\ response.sent < Len(Script) THEN Finish("connection", None)
       ELSE IF Terminal THEN Finish(Reply.verdict, Reply.message)
       ELSE \/ Finish("protocol", None)
            \/ response.script.api # "json" /\ Finish("incomplete", None)

\* A read is interrupted: by the abort of the socket, a reset, or the checks.
ReadFails ==
    /\ worker = "reading"
    /\ CheckFails \/ Finish("connection", None)
-----------------------------------------------------------------------------
\* The caller, and time.

Expire ==
    /\ ~expired /\ expired' = TRUE
    /\ UNCHANGED <<caller, worker, tls, control, sock, response, received, answer>>

\* The result reaches the caller.
Return ==
    /\ caller = "waiting" /\ worker = "ended"
    /\ caller' = "answered"
    /\ UNCHANGED <<worker, tls, control, expired, sock, response, received, answer>>

\* wait_for times out, or the drive is cancelled: control.cancel() sets stop
\* and then takes the socket.
Stop ==
    /\ caller = "waiting"
    /\ caller' = "stopping" /\ stop' = TRUE
    /\ UNCHANGED <<worker, tls, expired, sock, registered, aborted, response, received, answer>>

Cancel ==
    /\ caller = "stopping" /\ caller' = "gone"
    /\ aborted' = AbortOf(registered) /\ registered' = "none"
    /\ UNCHANGED <<worker, tls, stop, expired, sock, response, received, answer>>

Next ==
    \/ Connect \/ Attach \/ AbortOwn \/ Attached \/ Wrap \/ Handshake \/ Respond
    \/ Read \/ EndOfBody \/ ReadFails
    \/ Expire \/ Return \/ Stop \/ Cancel

Spec == Init /\ [][Next]_vars
-----------------------------------------------------------------------------
\* Properties.

\* The events, pings aside, that carry the message m, complete to the last.
Carry(events, m) ==
    CASE response.script.api = "anthropic" ->
            NoPings(events) = AnthropicStream(m)
      [] response.script.api = "openai" -> events = OpenAIStream(m)
      [] OTHER -> events = <<E("body", 0, m)>>

\* A reply is the message the provider has sent to the end, with a normal stop
\* and never a part of one; and a whole message with a normal stop that was
\* read to its end is not refused.
ReplyIsWhole ==
    caller = "answered" =>
        /\ answer.verdict = "reply" =>
              /\ Carry(received, answer.message)
              /\ answer.message.stop \in Normal
        /\ /\ Terminal /\ response.sent = Len(Script) /\ response.script.meant # None
           /\ answer.verdict \notin {"timeout", "connection", "stopped"}
           => IF response.script.meant.stop \in Normal
              THEN answer = Answer("reply", response.script.meant)
              ELSE answer.verdict = "incomplete"

\* Once a timeout or a cancellation has been carried out the thread is nowhere
\* blocked on a socket that is still open.
GivenUpIsAborted ==
    caller = "gone" /\ worker \in Blocking => aborted
=============================================================================
