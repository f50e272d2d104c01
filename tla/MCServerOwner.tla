--------------------------- MODULE MCServerOwner ---------------------------
(* Instances of ServerOwner for TLC: which requests meet.  With three        *)
(* connections the gate, the loop and a permit are contended at once.         *)
EXTENDS ServerOwner

\* A drive that holds the gate against a decision while a workflow is saved,
\* and a drive that is watched by a stream.
Meetings == {<<"drive", "decision", "put">>, <<"drive", "stream">>}
OneRead == {<<"read">>}
=============================================================================
