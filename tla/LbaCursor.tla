----------------------------- MODULE LbaCursor -----------------------------
(***************************************************************************)
(* The arithmetic of the destination cursor of src/lba_manager.cpp, as     *)
(* functions of the bounds, the cursor and the size of a request.          *)
(***************************************************************************)
EXTENDS Integers, Sequences

CONSTANTS
  NamespaceSize,  \* namespace_size_, in blocks
  Wrap            \* number of values of a uint64_t

ASSUME LbaCursorAssumption ==
  /\ NamespaceSize \in Nat \ {0}
  /\ Wrap \in Nat
  /\ NamespaceSize < Wrap

Lbas == 0 .. Wrap - 1

\* Unsigned addition and subtraction.
Add(a, b) == IF a + b >= Wrap THEN a + b - Wrap ELSE a + b
Sub(a, b) == IF a < b THEN a - b + Wrap ELSE a - b

\* A faulty variant of EffectiveEnd: no cap.
EffectiveEndUncapped(e) == IF e = 0 THEN NamespaceSize ELSE e

\* The end bound that the constructor and set_dst_range() store.
EffectiveEnd(e) == IF e = 0 \/ e > NamespaceSize THEN NamespaceSize ELSE e

\* A faulty variant of Overruns: off by one.
OverrunsLate(end, cur, n) == Add(cur, n) > end + 1

Overruns(end, cur, n) == Add(cur, n) > end

\* The result of get_and_advance_dst_lba().
Granted(start, end, cur, n) == IF Overruns(end, cur, n) THEN start ELSE cur

\* The cursor value it installs.
Advanced(start, end, cur, n) ==
  LET next == IF ~Overruns(end, cur, n) THEN Add(cur, n)
              ELSE IF n > Sub(end, start) THEN start
              ELSE Add(start, n)
  IN IF next >= end THEN start ELSE next

\* The cursor value advance_dst_lba() installs.
Stepped(start, end, cur, n) ==
  IF Add(cur, n) >= end THEN start ELSE Add(cur, n)

\* A lap is the sequence of grants made since the cursor last left the start
\* of the range.  A grant begins a new lap if it wraps or is made at the start.
LapAfterGrant(lap, start, end, cur, n) ==
  Append(IF Overruns(end, cur, n) \/ cur = start THEN <<>> ELSE lap,
         [lba |-> Granted(start, end, cur, n), blocks |-> n])

\* advance_dst_lba() moves the cursor without a grant.
LapAfterStep(lap, start, end, cur, n) ==
  IF start \in {cur, Stepped(start, end, cur, n)} THEN <<>> ELSE lap
=============================================================================
