------------------------------ MODULE MCWriter ------------------------------
(***************************************************************************)
(* Instances of WriterTask: what is sent and received in each scenario.    *)
(***************************************************************************)
EXTENDS WriterTask

Ask(kind, bytes) == [kind |-> kind, bytes |-> bytes]
Tell == Ask("tell", 0)
Inline == Ask("inline", 0)
Small == Ask("stream", 1)
Large == Ask("stream", 2)
Refused == Ask("nack", 0)
Direct == Ask("direct", 0)

Quiet == [imm |-> <<>>, cmd |-> <<>>, stream |-> <<>>, lease |-> <<>>, inbound |-> <<>>,
          gated |-> FALSE, wedge |-> FALSE, shutdown |-> FALSE, eof |-> FALSE, stalls |-> 0]

(* The lanes together, each with its kinds of commands, behind a narrow transport. *)
Batches == [Quiet EXCEPT !.cmd = <<"inline", "direct", "direct", "direct">>, !.wedge = TRUE]
Buffers == [Quiet EXCEPT !.cmd = <<"single", "inline", "own">>, !.wedge = TRUE]
Priority == [Quiet EXCEPT !.imm = <<"own", "single">>, !.gated = TRUE, !.wedge = TRUE, !.stalls = 2]
Overtaken == [Quiet EXCEPT !.imm = <<"single">>, !.cmd = <<"direct">>]
(* Wake-ups that come late, while the first frame is stalled. *)
StalePermit == [Quiet EXCEPT !.cmd = <<"single", "single", "single">>, !.inbound = <<Tell>>]
Streams == [Quiet EXCEPT !.stream = <<0, 1>>, !.lease = <<2>>]
(* Answers of every kind. *)
Backlog == [Quiet EXCEPT !.inbound = <<Inline, Inline, Inline, Inline, Refused, Refused, Tell>>]
Streamed == [Quiet EXCEPT !.inbound = <<Small, Small, Large, Inline, Direct>>]
Mixed == [Quiet EXCEPT !.inbound = <<Large, Inline>>, !.lease = <<2>>]
(* The end of a connection. *)
Shutdown == [Quiet EXCEPT !.inbound = <<Small, Inline>>, !.shutdown = TRUE, !.wedge = TRUE]
Closed == [Quiet EXCEPT !.inbound = <<Inline, Large>>, !.eof = TRUE, !.stalls = 4, !.wedge = TRUE]
(* Where the code and its comments disagree. *)
NackTurn == {[Quiet EXCEPT !.cmd = <<"own">>, !.inbound = <<Inline, Refused>>]}
PassScenarios == {StalePermit, Batches, Buffers, Priority, Overtaken, Streams, Backlog, Streamed, Mixed, Shutdown, Closed}
=============================================================================
