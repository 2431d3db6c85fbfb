---------------------------- MODULE MCStatistics ----------------------------
(* Small commands for Statistics: two latencies, and one failure of each class. *)
EXTENDS Statistics

MCCompletions == {[bytes |-> 1, latency |-> 2], [bytes |-> 3, latency |-> 1]}

\* Queue full, an invalid opcode, and an error of the medium.
MCFailures ==
  {[sct |-> 0, sc |-> 7], [sct |-> 0, sc |-> 1], [sct |-> 2, sc |-> 129]}
=============================================================================
