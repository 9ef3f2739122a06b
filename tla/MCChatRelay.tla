---------------------------- MODULE MCChatRelay ----------------------------
(* Small instances of ChatRelay for TLC. *)
EXTENDS ChatRelay, TLC

CONSTANTS r1, r2

Text == [kind |-> "content"]
Report(n) == [kind |-> "usage", total |-> n]

\* As vLLM answers with include_usage: one report, then [DONE].
Final == <<Text, Report(2), Text>>
\* A report with every piece of content, which some upstreams send.
Running == <<Text, Report(1), Text, Report(2)>>
\* No report at all: an upstream that ignores stream_options.
Silent == <<Text, Text>>

AllBodies == {Final, Running, Silent}
FinalOnly == {Final}

Symmetry == Permutations(Requests)

=============================================================================
