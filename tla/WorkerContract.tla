--------------------------- MODULE WorkerContract ---------------------------
(***************************************************************************)
(* What the rest of the program may assume of a worker thread: it submits  *)
(* commands only while it runs and has a qpair, it gives up a qpair only   *)
(* with every command settled, and it ends only when it is asked to, but   *)
(* then possibly with commands still in flight.                            *)
(***************************************************************************)
VARIABLES
  phase,  \* "new", "running" or "exited"
  asked,  \* should_stop
  busy,   \* some command is in flight
  qpair   \* ctx->qpair is not null

contractVars == <<phase, asked, busy, qpair>>

Init == phase = "new" /\ asked = FALSE /\ busy = FALSE /\ qpair = TRUE

Begin == phase = "new" /\ phase' = "running" /\ UNCHANGED <<asked, busy, qpair>>

Ask == ~asked /\ asked' = TRUE /\ UNCHANGED <<phase, busy, qpair>>

Submit ==
  /\ phase = "running" /\ qpair
  /\ ~busy /\ busy' = TRUE
  /\ UNCHANGED <<phase, asked, qpair>>

Settle == busy /\ busy' = FALSE /\ UNCHANGED <<phase, asked, qpair>>

Lose ==
  /\ phase = "running" /\ qpair
  /\ qpair' = FALSE /\ busy' = FALSE
  /\ UNCHANGED <<phase, asked>>

Reconnect ==
  /\ phase = "running" /\ ~qpair /\ ~busy
  /\ qpair' = TRUE
  /\ UNCHANGED <<phase, asked, busy>>

Exit ==
  /\ phase = "running" /\ asked
  /\ phase' = "exited"
  /\ qpair' = FALSE
  /\ UNCHANGED <<asked, busy>>

Next == Begin \/ Ask \/ Submit \/ Settle \/ Lose \/ Reconnect \/ Exit

Spec == Init /\ [][Next]_contractVars
=============================================================================
