----------------------------- MODULE LbaProofs -----------------------------
(***************************************************************************)
(* The destination cursor, for any number of threads, any namespace, range *)
(* and sizes of requests: theorems about module LbaManager.                *)
(***************************************************************************)
EXTENDS LbaManager, LbaCursorProofs, SequenceTheorems

\* What a thread has read is what the cells hold, and its place in the call
\* fits the call.
LocalsInv ==
  \A t \in Threads :
    /\ pc[t] = "idle" <=> pending[t].kind = "none"
    /\ Setting(t) <=> pending[t].kind = "setRange"
    /\ pc[t] = "store" => pending[t].kind = "reset"
    /\ pc[t] \in {"loadEnd", "loadCurrent", "exchange"} => pending[t].kind \in {"reserve", "advance"}
    /\ pending[t].kind \in {"reserve", "advance"} => pending[t].n \in Blocks
    /\ pending[t].kind \notin {"reserve", "advance"} => pending[t].n = 0
    /\ pc[t] \in {"loadEnd", "loadCurrent", "exchange", "store"} => seen[t].start = start
    /\ pc[t] \in {"loadCurrent", "exchange"} => seen[t].end = end

\* set_dst_range() runs alone.
QuietInv ==
  \A t \in Threads : Setting(t) =>
    /\ lap = <<>> /\ target[t] \in Ranges /\ end = EffectiveEnd(target[t][2])
    /\ pc[t] = "storeCurrent" => start = target[t][1]
    /\ \A u \in Threads \ {t} : pc[u] = "idle"

\* The cursor is inside the range.
CursorInv ==
  (\A t \in Threads : ~Setting(t)) => (start < end => current \in start .. end - 1)

\* The grants of a lap lie one behind the other, and the cursor behind the
\* last, unless it is back at the start.
LapInv ==
  /\ \A i \in 1 .. Len(lap) : Fits(lap[i]) =>
       /\ start <= lap[i].lba /\ lap[i].lba + lap[i].blocks <= end
       /\ current = start \/ lap[i].lba + lap[i].blocks <= current
  /\ \A i, j \in 1 .. Len(lap) : i < j /\ Fits(lap[i]) /\ Fits(lap[j]) =>
       lap[i].lba + lap[i].blocks <= lap[j].lba

IInv == TypeOK /\ LocalsInv /\ QuietInv /\ CursorInv /\ LapInv

-----------------------------------------------------------------------------
\* The ranges of the constants, and of the end that the constructor computes.
LEMMA Numbers ==
  /\ NamespaceSize \in Nat \ {0} /\ Wrap \in Nat /\ 0 .. NamespaceSize \subseteq Lbas
  /\ \A n \in Blocks : n \in Nat \ {0} /\ n \in Lbas /\ n + NamespaceSize < Wrap
  /\ \A r \in Ranges : /\ r[1] \in Lbas /\ r[2] \in Lbas
                       /\ EffectiveEnd(r[2]) \in 0 .. NamespaceSize
BY LbaManagerAssumption, LbaCursorAssumption, EndInNamespace DEF Lbas

\* A thread outside of a call has locals of their type.
LEMMA NoLocalsType == NoLocals \in [start : Lbas, end : 0 .. NamespaceSize, current : Lbas]
BY LbaCursorAssumption DEF NoLocals, Lbas

\* While a thread is inside another call, nobody is inside set_dst_range().
LEMMA OthersNotSetting ==
  ASSUME IInv, NEW t \in Threads, pc[t] \notin {"idle", "storeStart", "storeCurrent"}
  PROVE  \A u \in Threads : ~Setting(u)
BY DEF IInv, QuietInv, Setting

\* A step inside such a call that leaves the cells alone.
LEMMA StepInside ==
  ASSUME IInv, NEW t \in Threads, pc[t] \notin {"idle", "storeStart", "storeCurrent"},
         NEW label \in {"loadEnd", "loadCurrent", "exchange", "store"},
         Goto(t, label), UNCHANGED <<cells, pending, target, lap>>,
         LocalsInv', TypeOK'
  PROVE  IInv'
<1>1. \A u \in Threads : ~Setting(u)
  BY OthersNotSetting
<1>2. \A u \in Threads : ~Setting(u)'
  BY <1>1 DEF IInv, TypeOK, Setting, Goto
<1>3. QuietInv' /\ CursorInv' /\ LapInv'
  BY <1>1, <1>2 DEF IInv, QuietInv, CursorInv, LapInv, Fits, cells
<1> QED BY <1>3 DEF IInv

\* The invariant holds after the constructor.
LEMMA InitEstablishes ==
  ASSUME Init
  PROVE  IInv
<1>1. TypeOK
  <2>1. start \in Lbas /\ end \in 0 .. NamespaceSize /\ current \in Lbas
    BY Numbers DEF Init
  <2> QED BY <2>1, NoLocalsType DEF Init, TypeOK, NoCall, Kinds
<1>2. LocalsInv /\ QuietInv /\ LapInv
  BY DEF Init, LocalsInv, QuietInv, LapInv, Setting, NoCall
<1>3. CursorInv
  BY <1>1 DEF Init, CursorInv, TypeOK, Lbas
<1> QED BY <1>1, <1>2, <1>3 DEF IInv

\* The start of a call preserves the invariant.
LEMMA InvokeKeeps ==
  ASSUME IInv, NEW t \in Threads, NEW c \in Calls, Invoke(t, c)
  PROVE  IInv'
<1>1. /\ c.kind \in {"reset", "reserve", "advance"} /\ c.n \in Blocks \cup {0}
      /\ c.kind = "reset" => c.n = 0
      /\ c.kind # "reset" => c.n \in Blocks
      /\ c \in [kind : Kinds, n : Blocks \cup {0}]
  BY DEF Calls, Kinds
<1>2. TypeOK'
  BY <1>1 DEF IInv, TypeOK, Invoke, Goto, cells
<1>3. \A u \in Threads : ~Setting(u)
  BY DEF IInv, LocalsInv, Invoke
<1>4. /\ pc'[t] = "loadStart" /\ pending'[t] = c
      /\ \A u \in Threads \ {t} : pc'[u] = pc[u] /\ pending'[u] = pending[u]
  BY DEF IInv, TypeOK, Invoke, Goto
<1>5. LocalsInv'
  BY <1>1, <1>4 DEF IInv, LocalsInv, Setting, Invoke, cells
<1>6. \A u \in Threads : ~Setting(u)'
  BY <1>3, <1>4 DEF Setting
<1>7. QuietInv' /\ CursorInv' /\ LapInv'
  BY <1>3, <1>6 DEF IInv, QuietInv, CursorInv, LapInv, Fits, Invoke, cells
<1> QED BY <1>2, <1>5, <1>7 DEF IInv

\* Loading the start of the range preserves the invariant.
LEMMA LoadStartKeeps ==
  ASSUME IInv, NEW t \in Threads, LoadStart(t)
  PROVE  IInv'
<1> DEFINE label == IF pending[t].kind = "reset" THEN "store" ELSE "loadEnd"
<1>1. label \in {"loadEnd", "store"} /\ pc[t] = "loadStart" /\ Goto(t, label)
  BY DEF LoadStart
<1>2. TypeOK'
  <2>1. seen' \in [Threads -> [start : Lbas, end : 0 .. NamespaceSize, current : Lbas]]
    BY DEF IInv, TypeOK, LoadStart
  <2>2. pc' \in [Threads -> {"idle", "loadStart", "loadEnd", "loadCurrent",
                           "exchange", "store", "storeStart", "storeCurrent"}]
    BY <1>1 DEF IInv, TypeOK, Goto
  <2> QED BY <2>1, <2>2 DEF IInv, TypeOK, LoadStart, cells
<1>3. /\ pc'[t] = label /\ seen'[t].start = start
      /\ \A u \in Threads \ {t} : pc'[u] = pc[u] /\ seen'[u] = seen[u]
  BY <1>1 DEF IInv, TypeOK, LoadStart, Goto
<1>4. pending[t].kind \in {"reset", "reserve", "advance"}
  BY <1>1 DEF IInv, TypeOK, LocalsInv, Setting, Kinds
<1>5. LocalsInv'
  BY <1>1, <1>3, <1>4 DEF IInv, LocalsInv, Setting, LoadStart, cells
<1> QED BY <1>1, <1>2, <1>5, StepInside DEF LoadStart

\* Loading the end of the range preserves the invariant.
LEMMA LoadEndKeeps ==
  ASSUME IInv, NEW t \in Threads, LoadEnd(t)
  PROVE  IInv'
<1>1. TypeOK'
  BY DEF IInv, TypeOK, LoadEnd, Goto, cells
<1>2. /\ pc'[t] = "loadCurrent" /\ seen'[t].end = end /\ seen'[t].start = seen[t].start
      /\ \A u \in Threads \ {t} : pc'[u] = pc[u] /\ seen'[u] = seen[u]
  BY DEF IInv, TypeOK, LoadEnd, Goto
<1>3. LocalsInv'
  BY <1>2 DEF IInv, LocalsInv, Setting, LoadEnd, cells
<1> QED BY <1>1, <1>3, StepInside DEF LoadEnd

\* Loading the cursor preserves the invariant.
LEMMA LoadCurrentKeeps ==
  ASSUME IInv, NEW t \in Threads, LoadCurrent(t)
  PROVE  IInv'
<1>1. TypeOK'
  BY DEF IInv, TypeOK, LoadCurrent, Goto, cells
<1>2. /\ pc'[t] = "exchange" /\ seen'[t].end = seen[t].end /\ seen'[t].start = seen[t].start
      /\ \A u \in Threads \ {t} : pc'[u] = pc[u] /\ seen'[u] = seen[u]
  BY DEF IInv, TypeOK, LoadCurrent, Goto
<1>3. LocalsInv'
  BY <1>2 DEF IInv, LocalsInv, Setting, LoadCurrent, cells
<1> QED BY <1>1, <1>3, StepInside DEF LoadCurrent

\* A failed exchange preserves the invariant.
LEMMA ExchangeFailsKeeps ==
  ASSUME IInv, NEW t \in Threads, ExchangeFails(t)
  PROVE  IInv'
<1>1. TypeOK'
  BY DEF IInv, TypeOK, ExchangeFails, Goto, cells
<1>2. /\ pc'[t] = "loadCurrent"
      /\ \A u \in Threads \ {t} : pc'[u] = pc[u]
  BY DEF IInv, TypeOK, ExchangeFails, Goto
<1>3. LocalsInv'
  BY <1>2 DEF IInv, LocalsInv, Setting, ExchangeFails, cells
<1> QED BY <1>1, <1>3, StepInside DEF ExchangeFails

\* A call that returns, with a new cursor and lap that keep the invariant.
LEMMA ReturnKeeps ==
  ASSUME IInv, NEW t \in Threads, pc[t] \notin {"idle", "storeStart", "storeCurrent"},
         Return(t), UNCHANGED <<start, end, target>>,
         current' \in Lbas, lap' \in Seq([lba : Lbas, blocks : Blocks]),
         start < end => current' \in start .. end - 1, LapInv'
  PROVE  IInv'
<1>1. \A u \in Threads : ~Setting(u)
  BY OthersNotSetting
<1>2. NoCall \in [kind : Kinds, n : Blocks \cup {0}] /\ NoCall.kind = "none" /\ NoCall.n = 0
  BY DEF NoCall, Kinds
<1>3. TypeOK'
  BY <1>2, NoLocalsType DEF IInv, TypeOK, Return, Goto
<1>4. /\ pc'[t] = "idle" /\ pending'[t] = NoCall
      /\ \A u \in Threads \ {t} : /\ pc'[u] = pc[u] /\ pending'[u] = pending[u]
                                 /\ seen'[u] = seen[u]
  BY DEF IInv, TypeOK, Return, Goto
<1>5. LocalsInv'
  BY <1>2, <1>4 DEF IInv, LocalsInv, Setting
<1>6. \A u \in Threads : ~Setting(u)'
  BY <1>1, <1>4 DEF Setting
<1>7. QuietInv' /\ CursorInv'
  BY <1>6 DEF QuietInv, CursorInv
<1> QED BY <1>3, <1>5, <1>7 DEF IInv

\* The store of reset_dst_lba() preserves the invariant.
LEMMA StoreResetKeeps ==
  ASSUME IInv, NEW t \in Threads, StoreReset(t)
  PROVE  IInv'
<1>1. pc[t] = "store" /\ current' = start /\ lap' = <<>> /\ start \in Lbas /\ end \in 0 .. NamespaceSize
  BY DEF IInv, TypeOK, LocalsInv, StoreReset
<1>2. LapInv'
  BY <1>1 DEF LapInv
<1>3. start < end => current' \in start .. end - 1
  BY <1>1 DEF Lbas
<1> QED BY <1>1, <1>2, <1>3, ReturnKeeps DEF StoreReset

\* A grant that begins at the cursor lies behind the grants of the lap, which it extends.
LEMMA GrantKeepsLap ==
  ASSUME IInv, NEW n \in Blocks, start < end => current \in start .. end - 1,
         UNCHANGED <<start, end>>,
         current' = Advanced(start, end, current, n),
         lap' = LapAfterGrant(lap, start, end, current, n)
  PROVE  LapInv' /\ lap' \in Seq([lba : Lbas, blocks : Blocks])
<1> DEFINE lba == Granted(start, end, current, n)
           g == [lba |-> lba, blocks |-> n]
           new == Overruns(end, current, n) \/ current = start
           old == IF new THEN <<>> ELSE lap
           G == [lba : Lbas, blocks : Blocks]
<1>1. /\ start \in Lbas /\ end \in 0 .. NamespaceSize /\ current \in Lbas
      /\ start \in Nat /\ end \in Nat /\ current \in Nat /\ lap \in Seq(G)
      /\ n \in Nat \ {0} /\ n \in Lbas /\ n + NamespaceSize < Wrap
  BY Numbers DEF IInv, TypeOK, Lbas
<1>2. lba \in Lbas /\ lba \in Nat /\ Advanced(start, end, current, n) \in Lbas /\ current' \in Nat
  BY <1>1, CursorTypes DEF Lbas
<1>3. ~new => lba = current /\ current # start
  BY DEF Granted
<1>4. start < end /\ n <= end - start =>
        start <= lba /\ lba + n <= end /\ (current' = start \/ lba + n <= current')
  BY <1>1, GrantInside
<1>5. ~new /\ start < end => current' = start \/ current <= current'
  BY <1>1, <1>3, GrantForward
<1>6. lap' = Append(old, g)
  BY DEF LapAfterGrant
<1>7. g \in G /\ g.lba = lba /\ g.blocks = n
  BY <1>2
<1> HIDE DEF lba, g
<1>8. old \in Seq(G) /\ Len(old) \in Nat
  BY <1>1
<1>9. \A i \in 1 .. Len(old) : ~new /\ i \in 1 .. Len(lap) /\ old[i] = lap[i] /\ lap[i] \in G
  <2>1. CASE new
    <3>1. old = <<>> /\ Len(old) = 0
      BY <2>1
    <3> QED BY <3>1
  <2>2. CASE ~new
    <3>1. old = lap
      BY <2>2
    <3>2. \A i \in 1 .. Len(lap) : lap[i] \in G
      BY <1>1, ElementOfSeq
    <3> HIDE DEF old, new, G
    <3> QED BY <2>2, <3>1, <3>2
  <2> QED BY <2>1, <2>2
<1> HIDE DEF old, new
<1>10. /\ Len(lap') = Len(old) + 1 /\ lap'[Len(old) + 1] = g /\ lap' \in Seq(G)
       /\ \A i \in 1 .. Len(old) : lap'[i] = old[i]
  BY <1>6, <1>7, <1>8
<1> HIDE DEF G
<1>11. \A i \in 1 .. Len(old) : /\ ~new /\ i \in 1 .. Len(lap) /\ lap'[i] = lap[i]
                               /\ lap[i].lba \in Nat /\ lap[i].blocks \in Nat
  <2>1. \A e \in G : e.lba \in Nat /\ e.blocks \in Nat
    BY Numbers DEF G, Lbas
  <2> QED BY <2>1, <1>9, <1>10
<1>12. Fits(g) = (start < end /\ n <= end - start)
  BY <1>7 DEF Fits
<1>13. ASSUME NEW i \in 1 .. Len(lap'), Fits(lap[i])'
       PROVE  /\ start <= lap'[i].lba /\ lap'[i].lba + lap'[i].blocks <= end
              /\ current' = start \/ lap'[i].lba + lap'[i].blocks <= current'
  <2>1. CASE i \in 1 .. Len(old)
    <3>1. Fits(lap[i]) /\ start < end
      BY <1>11, <1>13, <2>1 DEF Fits
    <3>2. /\ start <= lap[i].lba /\ lap[i].lba + lap[i].blocks <= end
          /\ current = start \/ lap[i].lba + lap[i].blocks <= current
      BY <3>1, <1>11, <2>1 DEF IInv, LapInv
    <3> QED BY <3>1, <3>2, <1>1, <1>2, <1>3, <1>5, <1>11, <2>1, SMTT(30)
  <2>2. CASE i = Len(old) + 1
    BY <2>2, <1>4, <1>7, <1>10, <1>12, <1>13 DEF Fits
  <2> QED BY <2>1, <2>2, <1>8, <1>10
<1>14. ASSUME NEW i \in 1 .. Len(lap'), NEW j \in 1 .. Len(lap'), i < j,
              Fits(lap[i])', Fits(lap[j])'
       PROVE  lap'[i].lba + lap'[i].blocks <= lap'[j].lba
  <2>1. i \in 1 .. Len(old)
    BY <1>8, <1>10, <1>14
  <2>2. Fits(lap[i]) /\ i \in 1 .. Len(lap)
    BY <1>11, <1>14, <2>1 DEF Fits
  <2>3. CASE j \in 1 .. Len(old)
    <3>1. Fits(lap[j]) /\ j \in 1 .. Len(lap)
      BY <1>11, <1>14, <2>3 DEF Fits
    <3>2. lap[i].lba + lap[i].blocks <= lap[j].lba
      BY <3>1, <2>2, <1>14 DEF IInv, LapInv
    <3> QED BY <3>2, <2>1, <2>3, <1>11
  <2>4. CASE j = Len(old) + 1
    <3>1. lap[i].lba + lap[i].blocks <= current
      BY <2>1, <2>2, <1>3, <1>11 DEF IInv, LapInv
    <3> QED BY <3>1, <2>1, <2>4, <1>3, <1>7, <1>10, <1>11
  <2> QED BY <2>3, <2>4, <1>8, <1>10
<1>15. LapInv'
  BY <1>13, <1>14 DEF LapInv
<1> QED BY <1>10, <1>15 DEF G

\* advance_dst_lba() moves the cursor behind the grants of the lap, or ends the lap.
LEMMA StepKeepsLap ==
  ASSUME IInv, NEW n \in Blocks, start < end => current \in start .. end - 1,
         UNCHANGED <<start, end>>,
         current' = Stepped(start, end, current, n),
         lap' = LapAfterStep(lap, start, end, current, n)
  PROVE  LapInv' /\ lap' \in Seq([lba : Lbas, blocks : Blocks])
<1>1. /\ start \in Nat /\ end \in 0 .. NamespaceSize /\ current \in Lbas /\ n \in Lbas
      /\ current \in Nat /\ n \in Nat /\ n + NamespaceSize < Wrap
      /\ lap \in Seq([lba : Lbas, blocks : Blocks])
  BY Numbers DEF IInv, TypeOK, Lbas
<1>2. CASE lap' = <<>>
  BY <1>2 DEF LapInv
<1>3. CASE lap' # <<>>
  <2>1. lap' = lap /\ current # start /\ current' = Add(current, n)
    BY <1>3 DEF LapAfterStep, Stepped
  <2>2. start < end => current' = current + n
    BY <2>1, <1>1, Numbers, AddFacts
  <2>3. \A i \in 1 .. Len(lap) : lap[i].lba \in Nat /\ lap[i].blocks \in Nat
    <3>1. \A e \in [lba : Lbas, blocks : Blocks] : e.lba \in Nat /\ e.blocks \in Nat
      BY Numbers DEF Lbas
    <3>2. \A i \in 1 .. Len(lap) : lap[i] \in [lba : Lbas, blocks : Blocks]
      BY <1>1, ElementOfSeq
    <3> QED BY <3>1, <3>2
  <2>4. \A i \in 1 .. Len(lap) : Fits(lap[i]) => start < end /\ lap[i].lba + lap[i].blocks <= current
    BY <2>1 DEF Fits, IInv, LapInv
  <2>5. \A i \in 1 .. Len(lap) : Fits(lap[i]) => lap[i].lba + lap[i].blocks <= current'
    BY <2>2, <2>3, <2>4, <1>1
  <2> QED BY <2>1, <2>5, <1>1 DEF IInv, LapInv, Fits
<1> QED BY <1>2, <1>3

\* What an exchange that succeeds stores.
LEMMA CommitValues ==
  ASSUME IInv, NEW t \in Threads, ExchangeSucceeds(t)
  PROVE  /\ pending[t].kind \in {"reserve", "advance"} /\ pending[t].n \in Blocks
         /\ pending[t].kind = "reserve" =>
              /\ current' = Advanced(start, end, current, pending[t].n)
              /\ lap' = LapAfterGrant(lap, start, end, current, pending[t].n)
         /\ pending[t].kind = "advance" =>
              /\ current' = Stepped(start, end, current, pending[t].n)
              /\ lap' = LapAfterStep(lap, start, end, current, pending[t].n)
<1>1. /\ pending[t].kind \in {"reserve", "advance"} /\ pending[t].n \in Blocks
      /\ seen[t].start = start /\ seen[t].end = end /\ seen[t].current = current
  BY DEF IInv, LocalsInv, ExchangeSucceeds
<1> QED BY <1>1 DEF ExchangeSucceeds, Commit, NextCursor

\* A successful exchange preserves the invariant, its copy of the cursor being current.
LEMMA ExchangeSucceedsKeeps ==
  ASSUME IInv, NEW t \in Threads, ExchangeSucceeds(t)
  PROVE  IInv'
<1> DEFINE n == pending[t].n
<1>1. /\ pc[t] = "exchange" /\ Return(t) /\ UNCHANGED <<start, end, target>>
  BY DEF ExchangeSucceeds, Commit
<1>2. \A u \in Threads : ~Setting(u)
  BY <1>1, OthersNotSetting
<1>3. start < end => current \in start .. end - 1
  BY <1>2 DEF IInv, CursorInv
<1>4. start \in Lbas /\ end \in 0 .. NamespaceSize /\ current \in Lbas
  BY DEF IInv, TypeOK
<1>5. n \in Blocks /\ n \in Lbas /\ n + NamespaceSize < Wrap
  BY CommitValues, Numbers
<1>6. CASE pending[t].kind = "reserve"
  <2>1. current' = Advanced(start, end, current, n) /\ lap' = LapAfterGrant(lap, start, end, current, n)
    BY <1>6, CommitValues
  <2>2. LapInv' /\ lap' \in Seq([lba : Lbas, blocks : Blocks])
    BY <1>1, <1>3, <1>5, <2>1, GrantKeepsLap
  <2>3. current' \in Lbas /\ (start < end => current' \in start .. end - 1)
    BY <1>3, <1>4, <1>5, <2>1, CursorTypes, CursorStaysInside
  <2> QED BY <1>1, <2>2, <2>3, ReturnKeeps
<1>7. CASE pending[t].kind = "advance"
  <2>1. current' = Stepped(start, end, current, n) /\ lap' = LapAfterStep(lap, start, end, current, n)
    BY <1>7, CommitValues
  <2>2. LapInv' /\ lap' \in Seq([lba : Lbas, blocks : Blocks])
    BY <1>1, <1>3, <1>5, <2>1, StepKeepsLap
  <2>3. current' \in Lbas /\ (start < end => current' \in start .. end - 1)
    BY <1>3, <1>4, <1>5, <2>1, CursorTypes, CursorStaysInside
  <2> QED BY <1>1, <2>2, <2>3, ReturnKeeps
<1> QED BY <1>6, <1>7, CommitValues

\* The first store of set_dst_range() preserves the invariant.
LEMMA StoreEndKeeps ==
  ASSUME IInv, NEW t \in Threads, NEW r \in Ranges, StoreEnd(t, r)
  PROVE  IInv'
<1>1. [kind |-> "setRange", n |-> 0] \in [kind : Kinds, n : Blocks \cup {0}]
  BY DEF Kinds
<1>2. TypeOK'
  BY <1>1, Numbers DEF IInv, TypeOK, StoreEnd, Goto
<1>3. /\ pc'[t] = "storeStart" /\ target'[t] = r /\ end' = EffectiveEnd(r[2]) /\ lap' = <<>>
      /\ pending'[t].kind = "setRange" /\ pending'[t].n = 0
      /\ \A u \in Threads \ {t} : pc'[u] = "idle" /\ pending'[u] = pending[u] /\ pc[u] = "idle"
  BY DEF IInv, TypeOK, StoreEnd, Goto
<1>4. LocalsInv'
  BY <1>3 DEF IInv, LocalsInv, Setting
<1>5. QuietInv' /\ CursorInv' /\ LapInv'
  BY <1>3 DEF QuietInv, CursorInv, LapInv, Setting
<1> QED BY <1>2, <1>4, <1>5 DEF IInv

\* The second store of set_dst_range() preserves the invariant.
LEMMA StoreStartKeeps ==
  ASSUME IInv, NEW t \in Threads, StoreStart(t)
  PROVE  IInv'
<1>1. target[t] \in Ranges /\ lap = <<>> /\ \A u \in Threads \ {t} : pc[u] = "idle"
  BY DEF IInv, QuietInv, Setting, StoreStart
<1>2. TypeOK'
  BY <1>1, Numbers DEF IInv, TypeOK, StoreStart, Goto
<1>3. /\ pc[t] = "storeStart" /\ pc'[t] = "storeCurrent" /\ start' = target'[t][1]
      /\ \A u \in Threads \ {t} : pc'[u] = "idle"
  BY <1>1 DEF IInv, TypeOK, StoreStart, Goto
<1>4. LocalsInv'
  BY <1>1, <1>3 DEF IInv, LocalsInv, Setting, StoreStart
<1>5. QuietInv' /\ CursorInv' /\ LapInv'
  BY <1>1, <1>3 DEF IInv, QuietInv, CursorInv, LapInv, Setting, StoreStart
<1> QED BY <1>2, <1>4, <1>5 DEF IInv

\* The last store of set_dst_range() preserves the invariant.
LEMMA StoreCurrentKeeps ==
  ASSUME IInv, NEW t \in Threads, StoreCurrent(t)
  PROVE  IInv'
<1>1. /\ target[t] \in Ranges /\ lap = <<>> /\ start = target[t][1]
      /\ \A u \in Threads \ {t} : pc[u] = "idle"
  BY DEF IInv, QuietInv, Setting, StoreCurrent
<1>2. NoCall \in [kind : Kinds, n : Blocks \cup {0}] /\ NoCall.kind = "none" /\ NoCall.n = 0
  BY DEF NoCall, Kinds
<1>3. TypeOK'
  BY <1>1, <1>2, NoLocalsType, Numbers DEF IInv, TypeOK, StoreCurrent, Return, Goto
<1>4. /\ pc'[t] = "idle" /\ current' = start /\ pending'[t] = NoCall /\ UNCHANGED <<start, end, lap>>
      /\ \A u \in Threads \ {t} : pc'[u] = "idle" /\ pending'[u] = pending[u]
  BY <1>1 DEF IInv, TypeOK, StoreCurrent, Return, Goto
<1>5. LocalsInv'
  BY <1>1, <1>2, <1>4 DEF IInv, LocalsInv, Setting
<1>6. \A u \in Threads : ~Setting(u)'
  BY <1>4 DEF Setting
<1>7. start \in Lbas /\ end \in 0 .. NamespaceSize
  BY DEF IInv, TypeOK
<1>8. CursorInv' /\ LapInv'
  BY <1>1, <1>4, <1>7 DEF CursorInv, LapInv, Lbas
<1> QED BY <1>3, <1>5, <1>6, <1>8 DEF IInv, QuietInv

\* The invariant is inductive.
LEMMA NextKeeps ==
  ASSUME IInv, [Next]_vars
  PROVE  IInv'
<1>1. CASE UNCHANGED vars
  BY <1>1 DEF IInv, TypeOK, LocalsInv, QuietInv, CursorInv, LapInv, Setting, Fits, vars, cells
<1>2. CASE Next
  <2> PICK t \in Threads :
        \/ \E c \in Calls : Invoke(t, c)
        \/ \E r \in Ranges : StoreEnd(t, r)
        \/ InCall(t)
    BY <1>2 DEF Next
  <2> QED
    BY InvokeKeeps, StoreEndKeeps, LoadStartKeeps, LoadEndKeeps, LoadCurrentKeeps,
       ExchangeSucceedsKeeps, ExchangeFailsKeeps, StoreResetKeeps, StoreStartKeeps,
       StoreCurrentKeeps DEF InCall
<1> QED BY <1>1, <1>2

-----------------------------------------------------------------------------
\* The inductive invariant holds in every reachable state.
THEOREM LbaInvariant == Spec => []IInv
BY InitEstablishes, NextKeeps, PTL DEF Spec

\* The three atomics stay block addresses, the end of the range one of the
\* namespace, whatever the sums that wrap at 2^64.
THEOREM LbaTypeCorrect == Spec => []TypeOK
<1>1. IInv => TypeOK
  BY DEF IInv
<1> QED BY <1>1, LbaInvariant, PTL

\* get_and_advance_dst_lba() grants every request that fits in the range inside
\* the range, however the threads interleave.
THEOREM LbaGrantsInRange == Spec => []GrantsInRange
<1>1. IInv => GrantsInRange
  BY DEF IInv, LapInv, GrantsInRange
<1> QED BY <1>1, LbaInvariant, PTL

\* No block is granted twice between two returns of the cursor to the start.
THEOREM LbaLapDisjoint == Spec => []LapDisjoint
<1>1. ASSUME IInv PROVE LapDisjoint
  <2>1. \A e \in [lba : Lbas, blocks : Blocks] : e.lba \in Nat /\ e.blocks \in Nat
    BY Numbers DEF Lbas
  <2>2. \A i \in 1 .. Len(lap) : lap[i].lba \in Nat /\ lap[i].blocks \in Nat
    <3>1. \A i \in 1 .. Len(lap) : lap[i] \in [lba : Lbas, blocks : Blocks]
      BY <1>1, ElementOfSeq DEF IInv, TypeOK
    <3> QED BY <2>1, <3>1
  <2>3. end \in Nat /\ end < Wrap
    BY <1>1, LbaCursorAssumption DEF IInv, TypeOK
  \* The blocks of a grant that fits are those from its first to its last.
  <2>4. ASSUME NEW i \in 1 .. Len(lap), Fits(lap[i])
        PROVE  BlocksOf(lap[i]) \subseteq lap[i].lba .. lap[i].lba + lap[i].blocks - 1
    <3>1. lap[i].lba + lap[i].blocks <= end
      BY <1>1, <2>4 DEF IInv, LapInv
    <3>2. \A k \in 0 .. lap[i].blocks - 1 :
            Add(lap[i].lba, k) \in lap[i].lba .. lap[i].lba + lap[i].blocks - 1
      BY <2>2, <2>3, <3>1, LbaCursorAssumption, SMTT(30) DEF Add
    <3> QED BY <3>2 DEF BlocksOf
  <2>5. ASSUME NEW i \in 1 .. Len(lap), NEW j \in 1 .. Len(lap), i < j,
               Fits(lap[i]), Fits(lap[j])
        PROVE  BlocksOf(lap[i]) \cap BlocksOf(lap[j]) = {}
    <3>1. lap[i].lba + lap[i].blocks <= lap[j].lba
      BY <1>1, <2>5 DEF IInv, LapInv
    <3>2. (lap[i].lba .. lap[i].lba + lap[i].blocks - 1)
            \cap (lap[j].lba .. lap[j].lba + lap[j].blocks - 1) = {}
      BY <2>2, <3>1
    <3> QED BY <3>2, <2>4, <2>5
  <2>6. Len(lap) \in Nat
    BY <1>1 DEF IInv, TypeOK
  <2> QED
    <3> SUFFICES ASSUME NEW i \in 1 .. Len(lap), NEW j \in 1 .. Len(lap), i # j,
                        Fits(lap[i]), Fits(lap[j])
                 PROVE  BlocksOf(lap[i]) \cap BlocksOf(lap[j]) = {}
      BY DEF LapDisjoint
    <3>1. i < j \/ j < i
      BY <2>6
    <3> QED BY <3>1, <2>5
<1> QED BY <1>1, LbaInvariant, PTL

-----------------------------------------------------------------------------
(* The refinement: a call takes effect when it writes the cursor, and      *)
(* set_dst_range() with its first store.                                   *)

StartBar ==
  IF \E t \in Threads : Setting(t)
  THEN target[CHOOSE t \in Threads : Setting(t)][1] ELSE start

CurrentBar ==
  IF \E t \in Threads : Setting(t)
  THEN target[CHOOSE t \in Threads : Setting(t)][1] ELSE current

\* The abstract range and cursor while a thread is inside set_dst_range(), and
\* while none is.
LEMMA Bars ==
  ASSUME IInv
  PROVE  /\ \A t \in Threads : Setting(t) => StartBar = target[t][1] /\ CurrentBar = target[t][1]
         /\ (\A t \in Threads : ~Setting(t)) => StartBar = start /\ CurrentBar = current
<1>1. \A t, u \in Threads : Setting(t) /\ Setting(u) => t = u
  BY DEF IInv, QuietInv, Setting
<1> QED BY <1>1 DEF StartBar, CurrentBar

\* The abstract state before and after a step of a thread outside set_dst_range().
LEMMA BarsOutside ==
  ASSUME IInv, IInv', \A u \in Threads : ~Setting(u), \A u \in Threads : ~Setting(u)'
  PROVE  /\ StartBar = start /\ CurrentBar = current
         /\ StartBar' = start' /\ CurrentBar' = current'
BY DEF StartBar, CurrentBar

\* The arithmetic is that of AtomicLba.
LEMMA SameArithmetic ==
  /\ \A e : Atomic!EffectiveEnd(e) = EffectiveEnd(e)
  /\ \A s, e, c, n : /\ Atomic!Advanced(s, e, c, n) = Advanced(s, e, c, n)
                     /\ Atomic!Stepped(s, e, c, n) = Stepped(s, e, c, n)
  /\ \A l, s, e, c, n : /\ Atomic!LapAfterGrant(l, s, e, c, n) = LapAfterGrant(l, s, e, c, n)
                        /\ Atomic!LapAfterStep(l, s, e, c, n) = LapAfterStep(l, s, e, c, n)
  /\ Atomic!NoCall = NoCall /\ Atomic!Calls = Calls
BY DEF EffectiveEnd, Atomic!EffectiveEnd, Advanced, Atomic!Advanced, Stepped, Atomic!Stepped,
       Overruns, Atomic!Overruns, Granted, Atomic!Granted, Add, Atomic!Add, Sub, Atomic!Sub,
       LapAfterGrant, Atomic!LapAfterGrant, LapAfterStep, Atomic!LapAfterStep,
       NoCall, Atomic!NoCall, Calls, Atomic!Calls

\* The initial states are initial states of the atomic cursor.
LEMMA InitRefines ==
  ASSUME Init
  PROVE  Atomic!Init
<1>1. StartBar = start /\ CurrentBar = current
  BY DEF Init, StartBar, CurrentBar, Setting
<1> QED BY <1>1, SameArithmetic DEF Init, Atomic!Init, StartBar, CurrentBar

\* A step that changes neither what has taken effect nor what is pending.
LEMMA InsideStutters ==
  ASSUME IInv, NEW t \in Threads, pc[t] \notin {"idle", "storeStart", "storeCurrent"},
         NEW label \in {"loadEnd", "loadCurrent", "exchange", "store"},
         Goto(t, label), UNCHANGED <<cells, pending, target, lap>>
  PROVE  UNCHANGED <<StartBar, end, CurrentBar, pending, lap>>
<1>1. \A u \in Threads : ~Setting(u)
  BY OthersNotSetting
<1>2. \A u \in Threads : ~Setting(u)'
  BY <1>1 DEF IInv, TypeOK, Setting, Goto
<1> QED BY <1>1, <1>2 DEF StartBar, CurrentBar, cells

\* The start of a call is the start of the atomic call.
LEMMA InvokeRefines ==
  ASSUME IInv, IInv', NEW t \in Threads, NEW c \in Calls, Invoke(t, c)
  PROVE  c \in Atomic!Calls /\ Atomic!Invoke(t, c)
<1>1. \A u \in Threads : pending[u].kind # "setRange" /\ ~Setting(u)
  BY DEF Invoke, IInv, LocalsInv
<1>2. \A u \in Threads : ~Setting(u)'
  BY <1>1 DEF IInv, TypeOK, Setting, Invoke, Goto
<1>3. UNCHANGED <<StartBar, end, CurrentBar, lap>>
  BY <1>1, <1>2, BarsOutside DEF Invoke, cells
<1>4. pending[t] = NoCall
  <2>1. pending[t] \in [kind : Kinds, n : Blocks \cup {0}] /\ pending[t].kind = "none" /\ pending[t].n = 0
    BY DEF IInv, TypeOK, LocalsInv, Invoke
  <2> QED BY <2>1 DEF NoCall
<1>5. pending' = [pending EXCEPT ![t] = c]
  BY DEF Invoke
<1> QED
  BY <1>1, <1>3, <1>4, <1>5, SameArithmetic DEF Atomic!Invoke, StartBar, CurrentBar

\* A successful exchange is where the atomic call takes effect.
LEMMA ExchangeRefines ==
  ASSUME IInv, IInv', NEW t \in Threads, ExchangeSucceeds(t)
  PROVE  Atomic!Reserve(t) \/ Atomic!Advance(t)
<1>1. \A u \in Threads : ~Setting(u)
  BY OthersNotSetting DEF ExchangeSucceeds
<1>2. pending' = [pending EXCEPT ![t] = NoCall] /\ UNCHANGED <<start, end>>
  BY DEF ExchangeSucceeds, Commit, Return
<1>3. \A u \in Threads : ~Setting(u)'
  BY <1>1 DEF IInv, TypeOK, Setting, ExchangeSucceeds, Commit, Return, Goto
<1>4. /\ StartBar = start /\ CurrentBar = current
      /\ StartBar' = start' /\ CurrentBar' = current'
  BY <1>1, <1>3, BarsOutside
<1>5. CASE pending[t].kind = "reserve"
  BY <1>2, <1>4, <1>5, CommitValues, SameArithmetic
     DEF Atomic!Reserve, Atomic!Return, StartBar, CurrentBar
<1>6. CASE pending[t].kind = "advance"
  BY <1>2, <1>4, <1>6, CommitValues, SameArithmetic
     DEF Atomic!Advance, Atomic!Return, StartBar, CurrentBar
<1> QED BY <1>5, <1>6, CommitValues

\* The store of reset_dst_lba() is where the atomic reset takes effect.
LEMMA ResetRefines ==
  ASSUME IInv, IInv', NEW t \in Threads, StoreReset(t)
  PROVE  Atomic!Reset(t)
<1>1. \A u \in Threads : ~Setting(u)
  BY OthersNotSetting DEF StoreReset
<1>2. \A u \in Threads : ~Setting(u)'
  BY <1>1 DEF IInv, TypeOK, Setting, StoreReset, Return, Goto
<1>3. /\ StartBar = start /\ CurrentBar = current
      /\ StartBar' = start' /\ CurrentBar' = current'
  BY <1>1, <1>2, BarsOutside
<1>4. /\ pending[t].kind = "reset" /\ pending' = [pending EXCEPT ![t] = NoCall]
      /\ UNCHANGED <<start, end>> /\ current' = start /\ lap' = <<>>
  BY DEF IInv, LocalsInv, StoreReset, Return
<1> QED BY <1>3, <1>4, SameArithmetic DEF Atomic!Reset, Atomic!Return, StartBar, CurrentBar

\* The first store of set_dst_range() is where the atomic call takes effect.
LEMMA SetRangeRefines ==
  ASSUME IInv, IInv', NEW t \in Threads, NEW r \in Ranges, StoreEnd(t, r)
  PROVE  Atomic!SetRange(t, r)
<1>1. \A u \in Threads : pending[u] = NoCall
  <2> SUFFICES ASSUME NEW u \in Threads PROVE pending[u] = NoCall
    OBVIOUS
  <2>1. pending[u] \in [kind : Kinds, n : Blocks \cup {0}] /\ pending[u].kind = "none" /\ pending[u].n = 0
    BY DEF IInv, TypeOK, LocalsInv, StoreEnd
  <2> QED BY <2>1 DEF NoCall
<1>2. Setting(t)' /\ target'[t] = r
  BY DEF IInv, TypeOK, Setting, StoreEnd, Goto
<1>3. StartBar' = r[1] /\ CurrentBar' = r[1]
  <2>1. \A u, v \in Threads : Setting(u)' /\ Setting(v)' => u = v
    BY DEF IInv, QuietInv, Setting
  <2> QED BY <1>2, <2>1 DEF StartBar, CurrentBar
<1>4. /\ end' = EffectiveEnd(r[2]) /\ lap' = <<>>
      /\ pending' = [pending EXCEPT ![t] = [kind |-> "setRange", n |-> 0]]
  BY DEF StoreEnd
<1> QED BY <1>1, <1>3, <1>4, SameArithmetic DEF Atomic!SetRange, StartBar, CurrentBar

\* The second store of set_dst_range() changes nothing of the atomic cursor.
LEMMA StoreStartStutters ==
  ASSUME IInv, IInv', NEW t \in Threads, StoreStart(t)
  PROVE  UNCHANGED <<StartBar, end, CurrentBar, pending, lap>>
<1>1. Setting(t) /\ Setting(t)' /\ UNCHANGED <<end, pending, target, lap>>
  BY DEF IInv, TypeOK, Setting, StoreStart, Goto
<1>2. \A u, v \in Threads : Setting(u) /\ Setting(v) => u = v
  BY DEF IInv, QuietInv, Setting
<1>3. \A u, v \in Threads : Setting(u)' /\ Setting(v)' => u = v
  BY DEF IInv, QuietInv, Setting
<1>4. StartBar = target[t][1] /\ CurrentBar = target[t][1]
  BY <1>1, <1>2 DEF StartBar, CurrentBar
<1>5. StartBar' = target'[t][1] /\ CurrentBar' = target'[t][1]
  BY <1>1, <1>3 DEF StartBar, CurrentBar
<1> QED BY <1>1, <1>4, <1>5

\* The last store of set_dst_range() is the return of the atomic call.
LEMMA StoreCurrentRefines ==
  ASSUME IInv, IInv', NEW t \in Threads, StoreCurrent(t)
  PROVE  Atomic!EndSetRange(t)
<1>1. /\ Setting(t) /\ pending[t].kind = "setRange" /\ start = target[t][1]
      /\ \A u \in Threads \ {t} : pc[u] = "idle"
  BY DEF IInv, LocalsInv, QuietInv, Setting, StoreCurrent
<1>2. \A u \in Threads : ~Setting(u)'
  BY <1>1 DEF IInv, TypeOK, Setting, StoreCurrent, Return, Goto
<1>3. StartBar = target[t][1] /\ CurrentBar = target[t][1]
  BY <1>1, Bars
<1>4. StartBar' = start' /\ CurrentBar' = current'
  BY <1>2 DEF StartBar, CurrentBar
<1>5. UNCHANGED <<StartBar, end, CurrentBar, lap>>
  BY <1>1, <1>3, <1>4 DEF StoreCurrent
<1>6. pending' = [pending EXCEPT ![t] = NoCall]
  BY DEF StoreCurrent, Return
<1> QED
  BY <1>1, <1>5, <1>6, SameArithmetic DEF Atomic!EndSetRange, Atomic!Return, StartBar, CurrentBar

\* Every step is a step of the atomic cursor or stutters.
LEMMA NextRefines ==
  ASSUME IInv, IInv', [Next]_vars
  PROVE  [Atomic!Next]_(Atomic!atomicVars)
<1>1. UNCHANGED <<StartBar, end, CurrentBar, pending, lap>> => UNCHANGED Atomic!atomicVars
  BY DEF Atomic!atomicVars, StartBar, CurrentBar
<1>2. CASE UNCHANGED vars
  BY <1>2, <1>1 DEF vars, cells, StartBar, CurrentBar, Setting
<1>3. CASE Next
  <2> PICK t \in Threads :
        \/ \E c \in Calls : Invoke(t, c)
        \/ \E r \in Ranges : StoreEnd(t, r)
        \/ InCall(t)
    BY <1>3 DEF Next
  <2>1. CASE \E c \in Calls : Invoke(t, c)
    BY <2>1, InvokeRefines DEF Atomic!Next
  <2>2. CASE \E r \in Ranges : StoreEnd(t, r)
    BY <2>2, SetRangeRefines DEF Atomic!Next
  <2>3. CASE LoadStart(t)
    BY <2>3, <1>1, InsideStutters DEF LoadStart
  <2>4. CASE LoadEnd(t)
    BY <2>4, <1>1, InsideStutters DEF LoadEnd
  <2>5. CASE LoadCurrent(t)
    BY <2>5, <1>1, InsideStutters DEF LoadCurrent
  <2>6. CASE ExchangeSucceeds(t)
    BY <2>6, ExchangeRefines DEF Atomic!Next
  <2>7. CASE ExchangeFails(t)
    BY <2>7, <1>1, InsideStutters DEF ExchangeFails
  <2>8. CASE StoreReset(t)
    BY <2>8, ResetRefines DEF Atomic!Next
  <2>9. CASE StoreStart(t)
    BY <2>9, <1>1, StoreStartStutters
  <2>10. CASE StoreCurrent(t)
    BY <2>10, StoreCurrentRefines DEF Atomic!Next
  <2> QED
    BY <2>1, <2>2, <2>3, <2>4, <2>5, <2>6, <2>7, <2>8, <2>9, <2>10 DEF InCall
<1> QED BY <1>2, <1>3

\* Every interleaving of the loads, exchanges and stores of the threads has the
\* effect of calls that happen at one instant each.
THEOREM LbaRefinesAtomic == Spec => RefinesAtomic
<1>1. Init => Atomic!Init
  BY InitRefines
<1>2. IInv /\ IInv' /\ [Next]_vars => [Atomic!Next]_(Atomic!atomicVars)
  BY NextRefines
<1> QED BY <1>1, <1>2, LbaInvariant, PTL DEF Spec, RefinesAtomic, Atomic!Spec
=============================================================================
