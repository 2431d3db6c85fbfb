----------------------------- MODULE AtomicLba -----------------------------
(***************************************************************************)
(* What LbaManager promises its callers: each call takes effect at one     *)
(* instant, between its invocation and its return, on one range and one    *)
(* cursor; the range changes only while no other call is in progress.      *)
(***************************************************************************)
EXTENDS LbaCursor

CONSTANTS
  Threads,
  Blocks,   \* the sizes of the requests
  Ranges    \* the <<start, end>> pairs given to the constructor and set_dst_range()

VARIABLES
  start, end, current,
  pending,  \* the call each thread is inside of
  lap       \* the grants since the cursor last was at the start

atomicVars == <<start, end, current, pending, lap>>

NoCall == [kind |-> "none", n |-> 0]

Calls == {[kind |-> "reset", n |-> 0]}
           \cup [kind : {"reserve", "advance"}, n : Blocks]

Init ==
  /\ \E r \in Ranges :
       start = r[1] /\ end = EffectiveEnd(r[2]) /\ current = r[1]
  /\ pending = [t \in Threads |-> NoCall]
  /\ lap = <<>>

Invoke(t, c) ==
  /\ \A u \in Threads : pending[u].kind # "setRange"
  /\ pending[t] = NoCall
  /\ pending' = [pending EXCEPT ![t] = c]
  /\ UNCHANGED <<start, end, current, lap>>

Return(t) == pending' = [pending EXCEPT ![t] = NoCall]

Reserve(t) ==
  /\ pending[t].kind = "reserve"
  /\ LET n == pending[t].n IN
       /\ lap' = LapAfterGrant(lap, start, end, current, n)
       /\ current' = Advanced(start, end, current, n)
  /\ Return(t)
  /\ UNCHANGED <<start, end>>

Advance(t) ==
  /\ pending[t].kind = "advance"
  /\ current' = Stepped(start, end, current, pending[t].n)
  /\ lap' = LapAfterStep(lap, start, end, current, pending[t].n)
  /\ Return(t)
  /\ UNCHANGED <<start, end>>

Reset(t) ==
  /\ pending[t].kind = "reset"
  /\ current' = start
  /\ lap' = <<>>
  /\ Return(t)
  /\ UNCHANGED <<start, end>>

\* set_dst_range() takes effect with its invocation.
SetRange(t, r) ==
  /\ \A u \in Threads : pending[u] = NoCall
  /\ start' = r[1]
  /\ end' = EffectiveEnd(r[2])
  /\ current' = r[1]
  /\ lap' = <<>>
  /\ pending' = [pending EXCEPT ![t] = [kind |-> "setRange", n |-> 0]]

EndSetRange(t) ==
  /\ pending[t].kind = "setRange"
  /\ Return(t)
  /\ UNCHANGED <<start, end, current, lap>>

Next ==
  \E t \in Threads :
    \/ \E c \in Calls : Invoke(t, c)
    \/ Reserve(t) \/ Advance(t) \/ Reset(t) \/ EndSetRange(t)
    \/ \E r \in Ranges : SetRange(t, r)

Spec == Init /\ [][Next]_atomicVars
=============================================================================
