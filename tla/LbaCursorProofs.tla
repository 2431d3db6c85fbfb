-------------------------- MODULE LbaCursorProofs --------------------------
(***************************************************************************)
(* What the cursor's arithmetic guarantees for every namespace, range and  *)
(* request that do not exceed 64 bits together: lemmas for the proofs      *)
(* about the modules that use it.                                          *)
(***************************************************************************)
EXTENDS LbaCursor, TLAPS

\* The effective end of a range is in the namespace.
LEMMA EndInNamespace ==
  ASSUME NEW e \in Lbas
  PROVE  EffectiveEnd(e) \in 0 .. NamespaceSize
BY LbaCursorAssumption DEF EffectiveEnd, Lbas

\* Sums modulo the width, and the exact ones.
LEMMA AddFacts ==
  ASSUME NEW a \in Lbas, NEW b \in Lbas
  PROVE  /\ Add(a, b) \in Lbas
         /\ a + b < Wrap => Add(a, b) = a + b
         /\ a + b >= Wrap => Add(a, b) = a + b - Wrap
BY LbaCursorAssumption DEF Add, Lbas

\* Whatever the bounds, a grant and the new cursor are block addresses.
LEMMA CursorTypes ==
  ASSUME NEW start \in Lbas, NEW end \in 0 .. NamespaceSize, NEW cur \in Lbas, NEW n \in Lbas
  PROVE  /\ Granted(start, end, cur, n) \in Lbas
         /\ Advanced(start, end, cur, n) \in Lbas
         /\ Stepped(start, end, cur, n) \in Lbas
BY AddFacts DEF Granted, Advanced, Stepped

\* A grant is the start of the range or the cursor.
LEMMA GrantedFrom ==
  ASSUME NEW start, NEW end, NEW cur, NEW n
  PROVE  Granted(start, end, cur, n) \in {start, cur}
BY DEF Granted

\* In a range that is not empty the cursor stays inside.
LEMMA CursorStaysInside ==
  ASSUME NEW start \in Lbas, NEW end \in 0 .. NamespaceSize, NEW n \in Lbas,
         start < end, n + NamespaceSize < Wrap,
         NEW cur \in start .. end - 1
  PROVE  /\ Advanced(start, end, cur, n) \in start .. end - 1
         /\ Stepped(start, end, cur, n) \in start .. end - 1
<1>1. Add(cur, n) = cur + n /\ Add(start, n) = start + n
  BY LbaCursorAssumption DEF Add, Lbas
<1>2. n \in Nat /\ start \in Nat /\ end \in Nat /\ cur \in Nat
  BY LbaCursorAssumption DEF Lbas
<1> QED BY <1>1, <1>2 DEF Advanced, Stepped, Overruns, Sub

\* A request that fits is granted inside the range, and the cursor moves past
\* it or back to the start.
LEMMA GrantInside ==
  ASSUME NEW start \in Lbas, NEW end \in 0 .. NamespaceSize, NEW n \in Lbas,
         start < end, n + NamespaceSize < Wrap, start + n <= end,
         NEW cur \in start .. end - 1
  PROVE  /\ start <= Granted(start, end, cur, n)
         /\ Granted(start, end, cur, n) + n <= end
         /\ \/ Advanced(start, end, cur, n) = start
            \/ Granted(start, end, cur, n) + n <= Advanced(start, end, cur, n)
<1>1. Add(cur, n) = cur + n /\ Add(start, n) = start + n
  BY LbaCursorAssumption DEF Add, Lbas
<1>2. n \in Nat /\ start \in Nat /\ end \in Nat /\ cur \in Nat
  BY LbaCursorAssumption DEF Lbas
<1> QED BY <1>1, <1>2 DEF Advanced, Granted, Overruns, Sub

\* Unless a grant is made at the start, it is made at the cursor and the cursor
\* moves forward, or back to the start.
LEMMA GrantForward ==
  ASSUME NEW start \in Lbas, NEW end \in 0 .. NamespaceSize, NEW n \in Lbas,
         start < end, n + NamespaceSize < Wrap,
         NEW cur \in start .. end - 1,
         Granted(start, end, cur, n) # start
  PROVE  /\ Granted(start, end, cur, n) = cur
         /\ \/ Advanced(start, end, cur, n) = start
            \/ cur <= Advanced(start, end, cur, n)
<1>1. Add(cur, n) = cur + n
  BY LbaCursorAssumption DEF Add, Lbas
<1>2. n \in Nat /\ start \in Nat /\ end \in Nat /\ cur \in Nat
  BY LbaCursorAssumption DEF Lbas
<1> QED BY <1>1, <1>2 DEF Advanced, Granted, Overruns
=============================================================================
