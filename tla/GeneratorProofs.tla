-------------------------- MODULE GeneratorProofs --------------------------
(***************************************************************************)
(* The commands the workers generate, for any number of workers, any       *)
(* namespaces and any accepted configuration: theorems about module        *)
(* Generator.                                                              *)
(***************************************************************************)
EXTENDS Generator, LbaCursorProofs

\* The range is the configured one, and the cursor is inside it.
RangeInv ==
  /\ Accepted(config)
  /\ start < end => current \in start .. end - 1

\* What generate() has drawn lies in the namespace it has chosen.
WellDrawn(c) ==
  /\ c.nsid \in DOMAIN NsSize
  /\ c.blocks \in 1 .. NamespaceSize
  /\ c.blocks <= config.max_ranges * config.range_size
  /\ \A s \in c.sources : s \in Nat /\ s + config.range_size <= NsSize[c.nsid]

DrawnInv ==
  /\ \A w \in Workers : pc[w] \in {"reserve", "issue"} => WellDrawn(op[w])
  /\ \A w \in Workers : pc[w] = "issue" => ~Rejects(op[w], op[w].dst)

\* A command that fits holds blocks of the range behind the cursor, unless the
\* cursor has been at the start since, or is there.
Held(c) ==
  /\ c.blocks >= 1
  /\ start < end => c.dst \in start .. end - 1
  /\ Fits(c) =>
       /\ c.dst + c.blocks <= end
       /\ c.lapped \/ current = start \/ c.dst + c.blocks <= current

HeldInv == \A p \in Placed : Held(CommandOf(p))

IInv == TypeOK /\ RangeInv /\ DrawnInv /\ HeldInv /\ DestinationsDisjoint

-----------------------------------------------------------------------------
\* The numbers of a configuration that the program runs with.
LEMMA ConfigNumbers ==
  ASSUME NEW c \in Configs, Accepted(c)
  PROVE  /\ c.range_size \in Nat \ {0} /\ c.max_ranges \in Nat \ {0}
         /\ c.dst_nsid \in DOMAIN NsSize /\ NsSize[c.dst_nsid] = NamespaceSize
         /\ c.src_nsids \subseteq DOMAIN NsSize
         /\ c.dst_lba_start \in Lbas /\ c.dst_lba_end \in Lbas
BY GeneratorAssumption DEF Accepted

\* A namespace, and two of them, are below the wrap of the addresses.
LEMMA Widths ==
  /\ NamespaceSize \in Nat \ {0} /\ Wrap \in Nat
  /\ 2 * NamespaceSize < Wrap /\ 0 .. NamespaceSize \subseteq Lbas
BY GeneratorAssumption, LbaCursorAssumption DEF Lbas

\* Every placed command has the type of a command.
LEMMA PlacedTypes ==
  ASSUME TypeOK, NEW p \in Placed
  PROVE  CommandOf(p) \in Commands
BY DEF TypeOK, Placed, CommandOf

\* The empty entry of a worker's table has the type of a command.
LEMMA NoCommandType == NoCommand \in Commands
BY LbaCursorAssumption DEF NoCommand, Commands, Lbas

\* Marking a command as of an earlier lap changes nothing else of it.
LEMMA LappedFacts ==
  ASSUME NEW c \in Commands
  PROVE  /\ Lapped(c) \in Commands
         /\ Lapped(c).blocks = c.blocks /\ Lapped(c).dst = c.dst /\ Lapped(c).lapped
         /\ Lapped(c).sources = c.sources /\ Lapped(c).nsid = c.nsid
BY DEF Lapped, Commands

\* A step after which every placed command is one that was placed before, with
\* the same destination, and after which the cursor is where it was, or at
\* the start, or the command is marked, keeps destinations held and disjoint.
LEMMA Carried ==
  ASSUME TypeOK, TypeOK', HeldInv, DestinationsDisjoint, UNCHANGED <<start, end>>,
         current' \in {current, start},
         NEW f,
         \A p \in Placed' :
           /\ f[p] \in Placed
           /\ CommandOf(p)'.blocks = CommandOf(f[p]).blocks
           /\ CommandOf(p)'.dst = CommandOf(f[p]).dst
           /\ CommandOf(f[p]).lapped => CommandOf(p)'.lapped,
         \A p, q \in Placed' : p # q => f[p] # f[q]
  PROVE  HeldInv' /\ DestinationsDisjoint'
<1>1. HeldInv'
  <2> SUFFICES ASSUME NEW p \in Placed' PROVE Held(CommandOf(p))'
    BY DEF HeldInv
  <2>1. Held(CommandOf(f[p]))
    BY DEF HeldInv
  <2> QED BY <2>1 DEF Held, Fits
<1>2. DestinationsDisjoint'
  <2> SUFFICES ASSUME NEW p \in Placed', NEW q \in Placed', p # q,
                      ~CommandOf(p)'.lapped, ~CommandOf(q)'.lapped,
                      Fits(CommandOf(p))', Fits(CommandOf(q))'
               PROVE  \/ CommandOf(p)'.dst + CommandOf(p)'.blocks <= CommandOf(q)'.dst
                      \/ CommandOf(q)'.dst + CommandOf(q)'.blocks <= CommandOf(p)'.dst
    BY DEF DestinationsDisjoint
  <2>1. f[p] \in Placed /\ f[q] \in Placed /\ f[p] # f[q]
    OBVIOUS
  <2>2. ~CommandOf(f[p]).lapped /\ ~CommandOf(f[q]).lapped
    OBVIOUS
  <2>3. Fits(CommandOf(f[p])) /\ Fits(CommandOf(f[q]))
    BY DEF Fits
  <2> QED BY <2>1, <2>2, <2>3 DEF DestinationsDisjoint
<1> QED BY <1>1, <1>2

\* The case that no placed command changes.
LEMMA Kept ==
  ASSUME TypeOK, TypeOK', HeldInv, DestinationsDisjoint, UNCHANGED <<start, end, current>>,
         \A p \in Placed' : p \in Placed /\ CommandOf(p)' = CommandOf(p)
  PROVE  HeldInv' /\ DestinationsDisjoint'
<1> DEFINE f == [p \in Placed' |-> p]
<1>1. \A p \in Placed' : f[p] = p
  OBVIOUS
<1> HIDE DEF f
<1>2. \A p \in Placed' :
        /\ f[p] \in Placed
        /\ CommandOf(p)'.blocks = CommandOf(f[p]).blocks
        /\ CommandOf(p)'.dst = CommandOf(f[p]).dst
        /\ CommandOf(f[p]).lapped => CommandOf(p)'.lapped
  BY <1>1
<1>3. \A p, q \in Placed' : p # q => f[p] # f[q]
  BY <1>1
<1> QED BY <1>2, <1>3, Carried

\* The members of Placed, one kind at a time.
LEMMA PlacedCases ==
  ASSUME NEW p
  PROVE  p \in Placed <=>
           \/ \E w \in Workers : pc[w] = "issue" /\ p = <<w, 0>>
           \/ \E w \in Workers, s \in Slots : commands[w][s] # NoCommand /\ p = <<w, s>>
BY DEF Placed

\* Slots are numbered from 1; 0 stands for the command being generated.
LEMMA SlotsPositive == Slots \subseteq Nat \ {0}
BY GeneratorAssumption DEF Slots

\* The command at a place is the one being generated, or the one in the slot.
LEMMA CommandsOf ==
  /\ \A w \in Workers : CommandOf(<<w, 0>>) = op[w]
  /\ \A w \in Workers, s \in Slots : CommandOf(<<w, s>>) = commands[w][s]
BY SlotsPositive DEF CommandOf

-----------------------------------------------------------------------------
\* The invariant holds when the workers start.
LEMMA InitEstablishes ==
  ASSUME Init
  PROVE  IInv
<1>1. TypeOK
  <2>1. /\ config \in Configs /\ Accepted(config) /\ start \in Lbas /\ current \in Lbas
        /\ end \in 0 .. NamespaceSize
    BY EndInNamespace, ConfigNumbers DEF Init
  <2>2. retry_count \in [Workers -> 0 .. MaxRetries - 1]
    BY GeneratorAssumption DEF Init
  <2> QED BY <2>1, <2>2, NoCommandType DEF Init, TypeOK
<1>2. RangeInv
  BY <1>1, Widths DEF Init, RangeInv, TypeOK, Lbas
<1>3. DrawnInv
  BY DEF Init, DrawnInv
<1>4. Placed = {}
  BY PlacedCases DEF Init
<1> QED BY <1>1, <1>2, <1>3, <1>4 DEF IInv, HeldInv, DestinationsDisjoint

\* Entering submit_next_io_pooled() preserves the invariant.
LEMMA SubmitKeeps ==
  ASSUME IInv, NEW w \in Workers, Submit(w)
  PROVE  IInv'
<1>1. TypeOK'
  BY DEF IInv, TypeOK, Submit, Goto, bounds
<1>2. RangeInv' /\ DrawnInv'
  BY DEF IInv, TypeOK, RangeInv, DrawnInv, WellDrawn, Rejects, Overlaps, Submit, Goto, bounds
<1>3. \A p \in Placed' : p \in Placed /\ CommandOf(p)' = CommandOf(p)
  BY DEF IInv, TypeOK, Submit, Goto, Placed, CommandOf
<1> QED BY <1>1, <1>2, <1>3, Kept DEF IInv, Submit, bounds

\* A failed attempt leaves its worker idle or drawing again, and the others as they are.
LEMMA RetryTypes ==
  ASSUME TypeOK, NEW w \in Workers, Retry(w)
  PROVE  /\ pc' \in [Workers -> {"idle", "draw", "reserve", "issue"}]
         /\ retry_count' \in [Workers -> 0 .. MaxRetries - 1]
         /\ pc'[w] \in {"idle", "draw"}
         /\ \A v \in Workers \ {w} : pc'[v] = pc[v]
<1>1. /\ retry_count[w] \in Nat /\ 0 \in 0 .. MaxRetries - 1
      /\ retry_count[w] + 1 < MaxRetries => retry_count[w] + 1 \in 0 .. MaxRetries - 1
  BY GeneratorAssumption DEF TypeOK
<1>2. PICK label \in {"idle", "draw"}, n \in 0 .. MaxRetries - 1 :
        /\ pc' = [pc EXCEPT ![w] = label]
        /\ retry_count' = [retry_count EXCEPT ![w] = n]
  BY <1>1 DEF Retry, Goto
<1> QED BY <1>2 DEF TypeOK

\* Draws rejected before the reservation preserve the invariant.
LEMMA DrawFailsKeeps ==
  ASSUME IInv, NEW w \in Workers, DrawFails(w)
  PROVE  IInv'
<1>0. /\ pc' \in [Workers -> {"idle", "draw", "reserve", "issue"}]
      /\ retry_count' \in [Workers -> 0 .. MaxRetries - 1]
      /\ pc'[w] \in {"idle", "draw"}
      /\ \A v \in Workers \ {w} : pc'[v] = pc[v]
  BY RetryTypes DEF IInv, DrawFails
<1>1. TypeOK'
  BY <1>0 DEF IInv, TypeOK, DrawFails, bounds
<1>2. RangeInv' /\ DrawnInv'
  BY <1>0 DEF IInv, TypeOK, RangeInv, DrawnInv, WellDrawn, Rejects, Overlaps, DrawFails, bounds
<1>3. \A p \in Placed' : p \in Placed /\ CommandOf(p)' = CommandOf(p)
  BY <1>0 DEF IInv, TypeOK, DrawFails, Placed, CommandOf
<1> QED BY <1>1, <1>2, <1>3, Kept DEF IInv, DrawFails, bounds

\* The product of two positive numbers grows with the first.
LEMMA Products ==
  ASSUME NEW a \in Nat \ {0}, NEW b \in Nat \ {0}, NEW m \in Nat, a <= m
  PROVE  a * b \in Nat \ {0} /\ a * b <= m * b
OBVIOUS

\* What the random draws range over.
LEMMA DrawnFrom ==
  ASSUME IInv
  PROVE  /\ SourceNsids \subseteq DOMAIN NsSize
         /\ RangeCounts \subseteq 1 .. config.max_ranges
         /\ RandomSourceLbas \subseteq Nat
<1>1. config \in Configs /\ Accepted(config)
  BY DEF IInv, TypeOK, RangeInv
<1>2. SourceNsids \subseteq DOMAIN NsSize
  BY <1>1, ConfigNumbers DEF SourceNsids
<1>3. RangeCounts \subseteq 1 .. config.max_ranges
  BY <1>1 DEF RangeCounts, Accepted
<1>4. RandomSourceLbas \subseteq Nat
  BY DEF RandomSourceLbas
<1> QED BY <1>2, <1>3, <1>4

\* Draws that pass the tests before the reservation preserve the invariant.
LEMMA DrawKeeps ==
  ASSUME IInv, NEW w \in Workers, Drawing(w)
  PROVE  IInv'
<1> PICK nsid \in SourceNsids, count \in RangeCounts, lbas \in SUBSET RandomSourceLbas :
      Draw(w, nsid, count, lbas)
  BY DEF Drawing
<1> DEFINE c == [NoCommand EXCEPT !.sources = {Clamped(l, nsid) : l \in lbas},
                                  !.nsid = nsid, !.blocks = count * config.range_size]
<1>1. /\ config.range_size \in Nat \ {0} /\ config.max_ranges \in Nat
      /\ nsid \in DOMAIN NsSize /\ NsSize[nsid] \in Nat
      /\ count \in Nat \ {0} /\ count <= config.max_ranges /\ lbas \subseteq Nat
  BY DrawnFrom, ConfigNumbers, GeneratorAssumption DEF IInv, TypeOK, RangeInv
<1>2. /\ count * config.range_size \in 1 .. NamespaceSize
      /\ count * config.range_size <= config.max_ranges * config.range_size
  BY <1>1, Products, Widths DEF Draw, Drawable
<1>3. \A l \in lbas : Clamped(l, nsid) \in Nat /\ Clamped(l, nsid) + config.range_size <= NsSize[nsid]
  BY <1>1 DEF Draw, Drawable, Clamped
<1>4. /\ c.sources = {Clamped(l, nsid) : l \in lbas} /\ c.nsid = nsid
      /\ c.blocks = count * config.range_size
  BY DEF NoCommand
<1>5. c \in Commands
  <2>1. {Clamped(l, nsid) : l \in lbas} \subseteq Nat
    BY <1>3
  <2>2. count * config.range_size \in 0 .. NamespaceSize
    BY <1>2, Widths
  <2> QED BY <2>1, <2>2, <1>1, NoCommandType DEF NoCommand, Commands
<1>6. WellDrawn(c)
  BY <1>1, <1>2, <1>3, <1>4 DEF WellDrawn
<1>7. op' = [op EXCEPT ![w] = c]
  BY DEF Draw
<1> HIDE DEF c
<1>8. TypeOK'
  BY <1>5, <1>7 DEF IInv, TypeOK, Draw, Goto, bounds
<1>9. RangeInv'
  BY DEF IInv, RangeInv, Draw, bounds
<1>10. DrawnInv'
  <2>1. UNCHANGED config /\ op'[w] = c /\ pc'[w] = "reserve"
    BY <1>7 DEF IInv, TypeOK, Draw, Goto, bounds
  <2>2. \A v \in Workers \ {w} : op'[v] = op[v] /\ pc'[v] = pc[v]
    BY <1>7 DEF IInv, TypeOK, Draw, Goto
  <2> QED BY <2>1, <2>2, <1>6 DEF IInv, DrawnInv, WellDrawn, Rejects, Overlaps
<1>11. \A p \in Placed' : p \in Placed /\ CommandOf(p)' = CommandOf(p)
  <2>1. pc[w] # "issue" /\ pc'[w] # "issue"
    BY DEF IInv, TypeOK, Draw, Goto
  <2>2. \A v \in Workers \ {w} : op'[v] = op[v] /\ pc'[v] = pc[v]
    BY <1>7 DEF IInv, TypeOK, Draw, Goto
  <2>3. UNCHANGED commands
    BY DEF Draw
  <2> QED BY <2>1, <2>2, <2>3, SlotsPositive DEF Placed, CommandOf
<1> QED BY <1>8, <1>9, <1>10, <1>11, Kept DEF IInv, Draw, bounds

\* A submission that is refused preserves the invariant.
LEMMA RefusedKeeps ==
  ASSUME IInv, NEW w \in Workers, Refused(w)
  PROVE  IInv'
<1>1. TypeOK'
  BY NoCommandType DEF IInv, TypeOK, Refused, Goto, bounds
<1>2. pc'[w] = "idle" /\ \A v \in Workers \ {w} : op'[v] = op[v] /\ pc'[v] = pc[v]
  BY DEF IInv, TypeOK, Refused, Goto
<1>3. RangeInv' /\ DrawnInv'
  BY <1>2 DEF IInv, RangeInv, DrawnInv, WellDrawn, Rejects, Overlaps, Refused, bounds
<1>4. \A p \in Placed' : p \in Placed /\ CommandOf(p)' = CommandOf(p)
  BY <1>2, SlotsPositive DEF Refused, Placed, CommandOf
<1> QED BY <1>1, <1>3, <1>4, Kept DEF IInv, Refused, bounds

\* A completion preserves the invariant.
LEMMA CompleteKeeps ==
  ASSUME IInv, NEW w \in Workers, NEW s \in Slots, Complete(w, s)
  PROVE  IInv'
<1>1. TypeOK'
  BY NoCommandType DEF IInv, TypeOK, Complete, bounds
<1>2. RangeInv' /\ DrawnInv'
  BY DEF IInv, RangeInv, DrawnInv, WellDrawn, Rejects, Overlaps, Complete, bounds
<1>3. \A v \in Workers, u \in Slots :
        commands'[v][u] = commands[v][u] \/ commands'[v][u] = NoCommand
  BY DEF IInv, TypeOK, Complete
<1>4. \A p \in Placed' : p \in Placed /\ CommandOf(p)' = CommandOf(p)
  BY <1>3, SlotsPositive DEF Complete, Placed, CommandOf
<1> QED BY <1>1, <1>2, <1>4, Kept DEF IInv, Complete, bounds

\* A completion that resets the cursor preserves the invariant.
LEMMA CompleteResettingKeeps ==
  ASSUME IInv, NEW w \in Workers, NEW s \in Slots, CompleteResetting(w, s)
  PROVE  IInv'
<1>1. \A v \in Workers : op'[v] = Lapped(op[v]) /\ op[v] \in Commands
  BY DEF IInv, TypeOK, CompleteResetting
<1>2. \A v \in Workers, u \in Slots :
        /\ commands[v][u] \in Commands
        /\ commands'[v][u] \in {NoCommand, Lapped(commands[v][u])}
  BY DEF IInv, TypeOK, CompleteResetting
<1>3. TypeOK'
  <2>1. op' \in [Workers -> Commands]
    BY <1>1, LappedFacts DEF CompleteResetting
  <2>2. \A v \in Workers, u \in Slots : commands'[v][u] \in Commands
    BY <1>2, LappedFacts, NoCommandType
  <2>3. commands' \in [Workers -> [Slots -> Commands]]
    <3> DEFINE g(v, u) == IF v = w /\ u = s THEN NoCommand ELSE Lapped(commands[v][u])
    <3>1. commands' = [v \in Workers |-> [u \in Slots |-> g(v, u)]]
      BY DEF CompleteResetting
    <3>2. \A v \in Workers, u \in Slots : g(v, u) \in Commands
      BY <1>2, LappedFacts, NoCommandType
    <3> HIDE DEF g
    <3> QED BY <3>1, <3>2
  <2> QED BY <2>1, <2>3 DEF IInv, TypeOK, CompleteResetting, bounds
<1>4. RangeInv'
  BY Widths DEF IInv, TypeOK, RangeInv, CompleteResetting, bounds, Lbas
<1>5. DrawnInv'
  <2>1. \A v \in Workers : /\ op'[v].blocks = op[v].blocks /\ op'[v].dst = op[v].dst
                          /\ op'[v].sources = op[v].sources /\ op'[v].nsid = op[v].nsid
    BY <1>1, LappedFacts
  <2>2. UNCHANGED <<config, pc>>
    BY DEF CompleteResetting, bounds
  <2> QED BY <2>1, <2>2 DEF IInv, DrawnInv, WellDrawn, Rejects, Overlaps
<1>6. Lapped(NoCommand) = NoCommand
  <2>1. NoCommand.lapped = TRUE
    BY DEF NoCommand
  <2> QED BY <2>1, NoCommandType DEF Lapped, Commands
<1>7. \A p \in Placed' :
        /\ p \in Placed
        /\ CommandOf(p)'.blocks = CommandOf(p).blocks
        /\ CommandOf(p)'.dst = CommandOf(p).dst
        /\ CommandOf(p)'.lapped
  <2> SUFFICES ASSUME NEW p \in Placed'
               PROVE  /\ p \in Placed
                      /\ CommandOf(p)'.blocks = CommandOf(p).blocks
                      /\ CommandOf(p)'.dst = CommandOf(p).dst
                      /\ CommandOf(p)'.lapped
    OBVIOUS
  <2>1. CASE \E v \in Workers : pc'[v] = "issue" /\ p = <<v, 0>>
    <3> PICK v \in Workers : pc'[v] = "issue" /\ p = <<v, 0>>
      BY <2>1
    <3>1. p \in Placed /\ CommandOf(p) = op[v] /\ CommandOf(p)' = op'[v]
      BY DEF CompleteResetting, Placed, CommandOf
    <3> QED BY <3>1, <1>1, LappedFacts
  <2>2. CASE \E v \in Workers, u \in Slots : commands'[v][u] # NoCommand /\ p = <<v, u>>
    <3> PICK v \in Workers, u \in Slots : commands'[v][u] # NoCommand /\ p = <<v, u>>
      BY <2>2
    <3>1. commands'[v][u] = Lapped(commands[v][u]) /\ commands[v][u] # NoCommand
      BY <1>2, <1>6
    <3>2. p \in Placed /\ CommandOf(p) = commands[v][u] /\ CommandOf(p)' = commands'[v][u]
      BY <3>1, SlotsPositive DEF Placed, CommandOf
    <3> QED BY <3>1, <3>2, <1>2, LappedFacts
  <2> QED BY <2>1, <2>2 DEF Placed
<1>8. HeldInv' /\ DestinationsDisjoint'
  <2> DEFINE f == [p \in Placed' |-> p]
  <2>1. \A p \in Placed' : f[p] = p
    OBVIOUS
  <2> HIDE DEF f
  <2>2. \A p \in Placed' :
          /\ f[p] \in Placed
          /\ CommandOf(p)'.blocks = CommandOf(f[p]).blocks
          /\ CommandOf(p)'.dst = CommandOf(f[p]).dst
          /\ CommandOf(f[p]).lapped => CommandOf(p)'.lapped
    BY <1>7, <2>1
  <2>3. \A p, q \in Placed' : p # q => f[p] # f[q]
    BY <2>1
  <2>4. UNCHANGED <<start, end>> /\ current' \in {current, start}
    BY DEF CompleteResetting, bounds
  <2> QED BY <1>3, <2>2, <2>3, <2>4, Carried DEF IInv
<1> QED BY <1>3, <1>4, <1>5, <1>8 DEF IInv

\* Moving the command from the worker to its queue preserves the invariant.
LEMMA IssueKeeps ==
  ASSUME IInv, NEW w \in Workers, NEW s \in Slots, Issue(w, s)
  PROVE  IInv'
<1> DEFINE c == [op[w] EXCEPT !.sources = {}, !.reads = config.dst_nsid]
<1>0. op[w] \in Commands /\ config.dst_nsid \in DOMAIN NsSize
  BY ConfigNumbers DEF IInv, TypeOK, RangeInv
<1>1. /\ c \in Commands /\ c.blocks = op[w].blocks /\ c.dst = op[w].dst
      /\ c.lapped = op[w].lapped
  BY <1>0 DEF Commands
<1>2. commands' = [commands EXCEPT ![w][s] = c]
  BY DEF Issue
<1> HIDE DEF c
<1>3. TypeOK'
  BY <1>1, <1>2, NoCommandType DEF IInv, TypeOK, Issue, Goto, bounds
<1>4. pc[w] = "issue" /\ pc'[w] = "idle"
  BY DEF IInv, TypeOK, Issue, Goto
<1>5. \A v \in Workers \ {w} : op'[v] = op[v] /\ pc'[v] = pc[v]
  BY DEF IInv, TypeOK, Issue, Goto
<1>6. \A v \in Workers, u \in Slots :
        commands'[v][u] = IF v = w /\ u = s THEN c ELSE commands[v][u]
  BY <1>2 DEF IInv, TypeOK
<1>7. RangeInv' /\ DrawnInv'
  BY <1>4, <1>5 DEF IInv, RangeInv, DrawnInv, WellDrawn, Rejects, Overlaps, Issue, bounds
<1>8. HeldInv' /\ DestinationsDisjoint'
  <2> DEFINE f == [p \in Placed' |-> IF p = <<w, s>> THEN <<w, 0>> ELSE p]
  <2>0. \A p \in Placed' : f[p] = IF p = <<w, s>> THEN <<w, 0>> ELSE p
    OBVIOUS
  <2> HIDE DEF f
  <2>1. <<w, 0>> \in Placed /\ <<w, 0>> \notin Placed'
    BY <1>4, SlotsPositive DEF Placed
  <2>2. <<w, s>> \in Placed' => /\ CommandOf(<<w, s>>)' = c
                                /\ CommandOf(<<w, 0>>) = op[w]
    BY <1>6, SlotsPositive DEF CommandOf
  <2>3. \A p \in Placed' : p # <<w, s>> => p \in Placed /\ CommandOf(p)' = CommandOf(p)
    <3> SUFFICES ASSUME NEW p \in Placed', p # <<w, s>>
                 PROVE  p \in Placed /\ CommandOf(p)' = CommandOf(p)
      OBVIOUS
    <3>1. CASE \E v \in Workers : pc'[v] = "issue" /\ p = <<v, 0>>
      <4> PICK v \in Workers : pc'[v] = "issue" /\ p = <<v, 0>>
        BY <3>1
      <4>1. v # w /\ pc[v] = "issue" /\ op'[v] = op[v]
        BY <1>4, <1>5
      <4> QED BY <4>1 DEF Placed, CommandOf
    <3>2. CASE \E v \in Workers, u \in Slots : commands'[v][u] # NoCommand /\ p = <<v, u>>
      <4> PICK v \in Workers, u \in Slots : commands'[v][u] # NoCommand /\ p = <<v, u>>
        BY <3>2
      <4>1. commands'[v][u] = commands[v][u]
        BY <1>6
      <4> QED BY <4>1, SlotsPositive DEF Placed, CommandOf
    <3> QED BY <3>1, <3>2 DEF Placed
  <2>4. \A p \in Placed' :
          /\ f[p] \in Placed
          /\ CommandOf(p)'.blocks = CommandOf(f[p]).blocks
          /\ CommandOf(p)'.dst = CommandOf(f[p]).dst
          /\ CommandOf(f[p]).lapped => CommandOf(p)'.lapped
    BY <1>1, <2>0, <2>1, <2>2, <2>3
  <2>5. \A p, q \in Placed' : p # q => f[p] # f[q]
    BY <2>0, <2>1
  <2>6. UNCHANGED <<start, end>> /\ current' \in {current, start}
    BY DEF Issue, bounds
  <2> QED BY <1>3, <2>4, <2>5, <2>6, Carried DEF IInv
<1> QED BY <1>3, <1>7, <1>8 DEF IInv

\* A reservation preserves the invariant: it begins at the cursor, behind all of this lap.
LEMMA ReserveKeeps ==
  ASSUME IInv, NEW w \in Workers, Reserve(w)
  PROVE  IInv'
<1> DEFINE blocks == op[w].blocks
           dst == Granted(start, end, current, blocks)
           placed == [op[w] EXCEPT !.dst = dst, !.lapped = FALSE]
           rejected == Rejects(op[w], dst)
           result == IF rejected THEN NoCommand ELSE placed
<1>1. /\ pc[w] = "reserve" /\ WellDrawn(op[w]) /\ op[w] \in Commands
      /\ start \in Lbas /\ end \in 0 .. NamespaceSize /\ current \in Lbas
  BY DEF IInv, TypeOK, DrawnInv, Reserve
<1>2. /\ blocks \in 1 .. NamespaceSize /\ blocks \in Lbas /\ blocks + NamespaceSize < Wrap
      /\ start < end => current \in start .. end - 1
  BY <1>1, Widths DEF WellDrawn, IInv, RangeInv
<1>3. dst \in Lbas /\ dst \in {start, current}
  BY <1>1, <1>2, CursorTypes, GrantedFrom
<1>4. /\ placed \in Commands /\ placed.blocks = blocks /\ placed.dst = dst /\ ~placed.lapped
      /\ placed.nsid = op[w].nsid /\ placed.sources = op[w].sources
  BY <1>1, <1>3 DEF Commands
<1>5. current' = Advanced(start, end, current, blocks) /\ current' \in Lbas
  BY <1>1, <1>2, CursorTypes DEF Reserve
<1>6. /\ UNCHANGED <<config, start, end>>
      /\ IF dst = start THEN LapAll /\ OthersLapped(w, result)
         ELSE UNCHANGED commands /\ op' = [op EXCEPT ![w] = result]
      /\ IF rejected THEN Retry(w)
         ELSE Goto(w, "issue") /\ retry_count' = [retry_count EXCEPT ![w] = 0]
  BY DEF Reserve, bounds
<1>7. result \in Commands /\ (~rejected => result = placed)
  BY <1>4, NoCommandType
<1>8. Rejects(op[w], dst) <=> rejected
  OBVIOUS
<1> HIDE DEF rejected, placed, result, dst, blocks
<1>9. /\ pc' \in [Workers -> {"idle", "draw", "reserve", "issue"}]
      /\ retry_count' \in [Workers -> 0 .. MaxRetries - 1]
      /\ pc'[w] = "issue" => ~rejected
      /\ pc'[w] # "reserve"
      /\ \A v \in Workers \ {w} : pc'[v] = pc[v]
  <2>1. CASE rejected
    BY <1>6, <2>1, RetryTypes DEF IInv
  <2>2. CASE ~rejected
    <3>1. 0 \in 0 .. MaxRetries - 1
      BY GeneratorAssumption
    <3> QED BY <1>6, <2>2, <3>1 DEF IInv, TypeOK, Goto
  <2> QED BY <2>1, <2>2
<1>10. \A v \in Workers : op'[v] = IF v = w THEN result
                                   ELSE IF dst = start THEN Lapped(op[v]) ELSE op[v]
  BY <1>6 DEF IInv, TypeOK, OthersLapped
<1>11. \A v \in Workers, u \in Slots :
         commands'[v][u] = IF dst = start THEN Lapped(commands[v][u]) ELSE commands[v][u]
  BY <1>6 DEF LapAll
<1>12. \A v \in Workers : op[v] \in Commands /\ \A u \in Slots : commands[v][u] \in Commands
  BY DEF IInv, TypeOK
<1>13. TypeOK'
  <2>1. op' \in [Workers -> Commands]
    <3>1. \A v \in Workers : op'[v] \in Commands
      BY <1>7, <1>10, <1>12, LappedFacts
    <3>2. op' = [v \in Workers |-> op'[v]]
      BY <1>6 DEF IInv, TypeOK, OthersLapped
    <3> QED BY <3>1, <3>2
  <2>2. commands' \in [Workers -> [Slots -> Commands]]
    <3>1. CASE dst = start
      <4>1. \A v \in Workers, u \in Slots : Lapped(commands[v][u]) \in Commands
        BY <1>12, LappedFacts
      <4> QED BY <1>6, <3>1, <4>1 DEF LapAll
    <3>2. CASE dst # start
      BY <1>6, <3>2 DEF IInv, TypeOK
    <3> QED BY <3>1, <3>2
  <2> QED BY <2>1, <2>2, <1>5, <1>6, <1>9 DEF IInv, TypeOK
<1>14. start < end => dst \in start .. end - 1 /\ current' \in start .. end - 1
  <2> SUFFICES ASSUME start < end PROVE dst \in start .. end - 1 /\ current' \in start .. end - 1
    OBVIOUS
  <2>1. start \in start .. end - 1
    BY <1>1 DEF Lbas
  <2> QED BY <2>1, <1>1, <1>2, <1>3, <1>5, CursorStaysInside
<1>15. RangeInv'
  BY <1>6, <1>14 DEF IInv, RangeInv
<1>16. DrawnInv'
  <2>1. \A v \in Workers \ {w} :
          /\ op'[v].blocks = op[v].blocks /\ op'[v].dst = op[v].dst
          /\ op'[v].sources = op[v].sources /\ op'[v].nsid = op[v].nsid
    BY <1>10, <1>12, LappedFacts
  <2>2. \A v \in Workers \ {w} :
          /\ pc'[v] \in {"reserve", "issue"} => WellDrawn(op[v])'
          /\ pc'[v] = "issue" => ~Rejects(op[v], op[v].dst)'
    BY <2>1, <1>6, <1>9 DEF IInv, DrawnInv, WellDrawn, Rejects, Overlaps
  <2>3. CASE pc'[w] = "issue"
    <3>1. op'[w] = placed /\ ~rejected
      BY <2>3, <1>7, <1>9, <1>10
    <3>2. WellDrawn(op[w])' /\ ~Rejects(op[w], op[w].dst)'
      BY <3>1, <1>1, <1>4, <1>6, <1>8 DEF WellDrawn, Rejects, Overlaps, blocks
    <3> QED BY <2>2, <3>2 DEF DrawnInv
  <2>4. CASE pc'[w] # "issue"
    BY <2>2, <2>4, <1>9 DEF DrawnInv
  <2> QED BY <2>3, <2>4
<1>17. Lapped(NoCommand) = NoCommand
  <2>1. NoCommand.lapped = TRUE
    BY DEF NoCommand
  <2> QED BY <2>1, NoCommandType DEF Lapped, Commands
<1>18. \A p \in Placed' : p # <<w, 0>> =>
         /\ p \in Placed
         /\ CommandOf(p)'.blocks = CommandOf(p).blocks
         /\ CommandOf(p)'.dst = CommandOf(p).dst
         /\ CommandOf(p)'.lapped \/ dst # start
         /\ CommandOf(p).lapped => CommandOf(p)'.lapped
  <2> SUFFICES ASSUME NEW p \in Placed', p # <<w, 0>>
               PROVE  /\ p \in Placed
                      /\ CommandOf(p)'.blocks = CommandOf(p).blocks
                      /\ CommandOf(p)'.dst = CommandOf(p).dst
                      /\ CommandOf(p)'.lapped \/ dst # start
                      /\ CommandOf(p).lapped => CommandOf(p)'.lapped
    OBVIOUS
  <2>1. CASE \E v \in Workers : pc'[v] = "issue" /\ p = <<v, 0>>
    <3> PICK v \in Workers : pc'[v] = "issue" /\ p = <<v, 0>>
      BY <2>1
    <3>1. v # w /\ pc[v] = "issue"
      BY <1>9
    <3>2. p \in Placed /\ CommandOf(p) = op[v] /\ CommandOf(p)' = op'[v]
      BY <3>1 DEF Placed, CommandOf
    <3>3. op'[v] = IF dst = start THEN Lapped(op[v]) ELSE op[v]
      BY <3>1, <1>10
    <3> QED BY <3>2, <3>3, <1>12, LappedFacts
  <2>2. CASE \E v \in Workers, u \in Slots : commands'[v][u] # NoCommand /\ p = <<v, u>>
    <3> PICK v \in Workers, u \in Slots : commands'[v][u] # NoCommand /\ p = <<v, u>>
      BY <2>2
    <3>1. commands[v][u] # NoCommand
      BY <1>11, <1>17
    <3>2. p \in Placed /\ CommandOf(p) = commands[v][u] /\ CommandOf(p)' = commands'[v][u]
      BY <3>1, SlotsPositive DEF Placed, CommandOf
    <3> QED BY <3>2, <1>11, <1>12, LappedFacts
  <2> QED BY <2>1, <2>2 DEF Placed
<1>19. <<w, 0>> \in Placed' => CommandOf(<<w, 0>>)' = placed
  BY <1>7, <1>9, <1>10, SlotsPositive DEF Placed, CommandOf
<1>20. /\ start \in Nat /\ end \in Nat /\ current \in Nat /\ current' \in Nat
       /\ dst \in Nat /\ blocks \in Nat \ {0}
  BY <1>1, <1>2, <1>3, <1>5 DEF Lbas
<1>21. start + blocks <= end => /\ dst + blocks <= end
                                /\ current' = start \/ dst + blocks <= current'
  BY <1>1, <1>2, <1>5, <1>20, GrantInside DEF dst
<1>22. dst # start /\ start < end =>
         /\ dst = current
         /\ current' = start \/ current <= current'
  BY <1>1, <1>2, <1>5, GrantForward DEF dst
<1>23. HeldInv'
  <2> SUFFICES ASSUME NEW p \in Placed' PROVE Held(CommandOf(p))'
    BY DEF HeldInv
  <2>1. CASE p = <<w, 0>>
    <3>1. CommandOf(p)' = placed
      BY <2>1, <1>19
    <3> QED BY <3>1, <1>2, <1>4, <1>6, <1>14, <1>20, <1>21 DEF Held, Fits
  <2>2. CASE p # <<w, 0>>
    <3>1. Held(CommandOf(p)) /\ CommandOf(p) \in Commands
      BY <2>2, <1>18, PlacedTypes DEF IInv, HeldInv
    <3>2. CommandOf(p).blocks \in Nat /\ CommandOf(p).dst \in Nat
      BY <3>1, Widths DEF Commands, Lbas
    <3>3. CommandOf(p)'.blocks >= 1 /\ (start < end => CommandOf(p)'.dst \in start .. end - 1)
      BY <3>1, <2>2, <1>18 DEF Held
    <3>4. ASSUME Fits(CommandOf(p))
          PROVE  /\ CommandOf(p).dst + CommandOf(p).blocks <= end
                 /\ \/ CommandOf(p)'.lapped \/ current' = start
                    \/ CommandOf(p).dst + CommandOf(p).blocks <= current'
      <4>1. /\ CommandOf(p).dst + CommandOf(p).blocks <= end
            /\ \/ CommandOf(p).lapped \/ current = start
               \/ CommandOf(p).dst + CommandOf(p).blocks <= current
        BY <3>1, <3>4 DEF Held
      <4>2. start < end
        BY <3>1, <3>2, <3>4, <1>20 DEF Held, Fits
      <4>3. CASE dst = start
        BY <4>1, <4>3, <2>2, <1>18
      <4>4. CASE dst # start
        <5>1. current # start /\ (current' = start \/ current <= current')
          BY <4>2, <4>4, <1>22
        <5> QED BY <5>1, <4>1, <2>2, <1>18, <1>20, <3>2
      <4> QED BY <4>3, <4>4
    <3> QED BY <3>3, <3>4, <2>2, <1>6, <1>18 DEF Held, Fits
  <2> QED BY <2>1, <2>2
\* The new command lies behind every one that is not marked.
<1>24. ASSUME NEW p \in Placed', p # <<w, 0>>, <<w, 0>> \in Placed',
              ~CommandOf(p)'.lapped, Fits(CommandOf(p))'
       PROVE  CommandOf(p)'.dst + CommandOf(p)'.blocks <= dst
  <2>1. Held(CommandOf(p)) /\ CommandOf(p) \in Commands
    BY <1>18, <1>24, PlacedTypes DEF IInv, HeldInv
  <2>2. CommandOf(p).blocks \in Nat /\ CommandOf(p).dst \in Nat
    BY <2>1, Widths DEF Commands, Lbas
  <2>3. dst # start /\ ~CommandOf(p).lapped /\ Fits(CommandOf(p))
    BY <1>18, <1>24, <1>6 DEF Fits
  <2>4. start < end
    BY <2>1, <2>2, <2>3, <1>20 DEF Held, Fits
  <2>5. dst = current /\ current # start
    BY <2>3, <2>4, <1>22
  <2> QED BY <2>1, <2>3, <2>5, <1>18, <1>24 DEF Held
<1>25. DestinationsDisjoint'
  <2> SUFFICES ASSUME NEW p \in Placed', NEW q \in Placed', p # q,
                      ~CommandOf(p)'.lapped, ~CommandOf(q)'.lapped,
                      Fits(CommandOf(p))', Fits(CommandOf(q))'
               PROVE  \/ CommandOf(p)'.dst + CommandOf(p)'.blocks <= CommandOf(q)'.dst
                      \/ CommandOf(q)'.dst + CommandOf(q)'.blocks <= CommandOf(p)'.dst
    BY DEF DestinationsDisjoint
  <2>1. CASE p = <<w, 0>>
    BY <2>1, <1>4, <1>19, <1>24
  <2>2. CASE q = <<w, 0>>
    BY <2>2, <1>4, <1>19, <1>24
  <2>3. CASE p # <<w, 0>> /\ q # <<w, 0>>
    <3>1. /\ p \in Placed /\ q \in Placed /\ ~CommandOf(p).lapped /\ ~CommandOf(q).lapped
          /\ Fits(CommandOf(p)) /\ Fits(CommandOf(q))
      BY <2>3, <1>6, <1>18 DEF Fits
    <3>2. \/ CommandOf(p).dst + CommandOf(p).blocks <= CommandOf(q).dst
          \/ CommandOf(q).dst + CommandOf(q).blocks <= CommandOf(p).dst
      BY <3>1 DEF IInv, DestinationsDisjoint
    <3> QED BY <3>2, <2>3, <1>18
  <2> QED BY <2>1, <2>2, <2>3
<1> QED BY <1>13, <1>15, <1>16, <1>23, <1>25 DEF IInv

-----------------------------------------------------------------------------
\* The invariant is inductive.
LEMMA NextKeeps ==
  ASSUME IInv, [Next]_vars
  PROVE  IInv'
<1>1. CASE UNCHANGED vars
  <2>1. TypeOK' /\ RangeInv' /\ DrawnInv'
    BY <1>1 DEF IInv, TypeOK, RangeInv, DrawnInv, WellDrawn, Rejects, Overlaps, vars, bounds
  <2>2. \A p \in Placed' : p \in Placed /\ CommandOf(p)' = CommandOf(p)
    BY <1>1 DEF Placed, CommandOf, vars
  <2>3. UNCHANGED <<start, end, current>>
    BY <1>1 DEF vars, bounds
  <2> QED BY <2>1, <2>2, <2>3, Kept DEF IInv
<1>2. CASE Next
  <2> PICK w \in Workers : Submission(w) \/ \E s \in Slots : Complete(w, s) \/ CompleteResetting(w, s)
    BY <1>2 DEF Next
  <2> QED
    BY SubmitKeeps, DrawKeeps, DrawFailsKeeps, ReserveKeeps, RefusedKeeps, IssueKeeps,
       CompleteKeeps, CompleteResettingKeeps DEF Submission
<1> QED BY <1>1, <1>2

\* The inductive invariant holds in every reachable state.
THEOREM GeneratorInvariant == Spec => []IInv
BY InitEstablishes, NextKeeps, PTL DEF Spec

\* Every variable keeps its type: cursor and commands stay within 64 bits and
\* the retries of submit_next_io_pooled() below their limit.
THEOREM GeneratorTypeCorrect == Spec => []TypeOK
<1>1. IInv => TypeOK
  BY DEF IInv
<1> QED BY <1>1, GeneratorInvariant, PTL

\* Every command that generate() returns has its descriptors in the buffer and its
\* sources in the namespace it has chosen; if it fits in the configured range, it
\* lies there.
THEOREM GeneratorCommandsInBounds == Spec => []CommandsInBounds
<1>1. ASSUME IInv PROVE CommandsInBounds
  <2> SUFFICES ASSUME NEW w \in Workers, pc[w] = "issue"
               PROVE  /\ op[w].blocks <= config.max_ranges * config.range_size
                      /\ \A s \in op[w].sources : s + config.range_size <= NsSize[op[w].nsid]
                      /\ Fits(op[w]) => /\ start <= op[w].dst
                                        /\ op[w].dst + op[w].blocks <= end
    BY DEF CommandsInBounds
  <2>1. WellDrawn(op[w])
    BY <1>1 DEF IInv, DrawnInv
  <2>2. <<w, 0>> \in Placed /\ CommandOf(<<w, 0>>) = op[w]
    BY DEF Placed, CommandOf
  <2>3. Held(op[w])
    BY <1>1, <2>2 DEF IInv, HeldInv
  <2>4. ASSUME Fits(op[w]) PROVE start <= op[w].dst
    <3>1. start \in Nat /\ end \in Nat /\ op[w].blocks \in 1 .. NamespaceSize
      BY <1>1, <2>1, Widths DEF IInv, TypeOK, Lbas, WellDrawn
    <3>2. start < end
      BY <2>4, <3>1, Widths DEF Fits
    <3> QED BY <2>3, <3>1, <3>2 DEF Held
  <2> QED BY <2>1, <2>3, <2>4 DEF WellDrawn, Held
<1> QED BY <1>1, GeneratorInvariant, PTL

\* No command whose sources are drawn in the destination namespace writes one of
\* the blocks drawn.
THEOREM GeneratorNoSelfOverlap == Spec => []NoSelfOverlap
<1>1. ASSUME IInv PROVE NoSelfOverlap
  <2> SUFFICES ASSUME NEW w \in Workers, pc[w] = "issue", op[w].nsid = config.dst_nsid,
                      NEW s \in op[w].sources,
                      NEW b \in s .. s + config.range_size - 1,
                      b \in op[w].dst .. op[w].dst + op[w].blocks - 1
               PROVE  FALSE
    BY DEF NoSelfOverlap
  <2>1. WellDrawn(op[w]) /\ ~Rejects(op[w], op[w].dst) /\ op[w] \in Commands
    BY <1>1 DEF IInv, DrawnInv, TypeOK
  <2>2. config.range_size \in Nat \ {0} /\ NsSize[config.dst_nsid] = NamespaceSize
    BY <1>1, ConfigNumbers DEF IInv, TypeOK, RangeInv
  <2>3. /\ s \in Nat /\ s + config.range_size <= NamespaceSize
        /\ op[w].blocks \in 1 .. NamespaceSize /\ op[w].dst \in Lbas
    BY <2>1, <2>2 DEF WellDrawn, Commands
  <2>4. ~(s < Add(op[w].dst, op[w].blocks) /\ s + config.range_size > op[w].dst)
    BY <2>1 DEF Rejects, Overlaps
  <2>5. op[w].dst <= b /\ b <= op[w].dst + op[w].blocks - 1 /\ s <= b
    BY <2>2, <2>3 DEF Lbas
  <2>6. op[w].dst + op[w].blocks < Wrap
    BY <2>2, <2>3, <2>5, Widths DEF Lbas
  <2>7. Add(op[w].dst, op[w].blocks) = op[w].dst + op[w].blocks
    BY <2>3, <2>6, Widths, AddFacts
  <2> QED BY <2>2, <2>3, <2>4, <2>5, <2>7 DEF Lbas
<1> QED BY <1>1, GeneratorInvariant, PTL

\* The destinations of the commands of all workers stay disjoint between two
\* returns of the cursor.
THEOREM GeneratorDestinationsDisjoint == Spec => []DestinationsDisjoint
<1>1. IInv => DestinationsDisjoint
  BY DEF IInv
<1> QED BY <1>1, GeneratorInvariant, PTL

-----------------------------------------------------------------------------
(* When the promise about the end of the namespace holds that the run      *)
(* generator_bounds shows violated                                         *)

\* The cursor, and a destination taken from it, is the start of the range or below
\* its end, also if the range is empty.
StartOrBelow(lba) == lba = start \/ lba < end

FromCursor ==
  /\ StartOrBelow(current)
  /\ \A w \in Workers : pc[w] = "issue" => StartOrBelow(op[w].dst)

\* A request grants the cursor or the start, and leaves the cursor at the start or
\* below the end.
LEMMA GrantStartOrBelow ==
  ASSUME NEW n, StartOrBelow(current), start \in Lbas, end \in 0 .. NamespaceSize,
         current \in Lbas, n \in Lbas
  PROVE  /\ StartOrBelow(Granted(start, end, current, n))
         /\ StartOrBelow(Advanced(start, end, current, n))
<1>1. StartOrBelow(Granted(start, end, current, n))
  BY DEF StartOrBelow, Granted
<1>2. Add(current, n) \in Int /\ Add(start, n) \in Int /\ end \in Int
  BY AddFacts, Widths DEF Lbas
<1>3. StartOrBelow(Advanced(start, end, current, n))
  BY <1>2 DEF StartOrBelow, Advanced
<1> QED BY <1>1, <1>3

\* Every step keeps it.
LEMMA FromCursorStep == IInv /\ FromCursor /\ [Next]_vars => FromCursor'
<1> SUFFICES ASSUME IInv, FromCursor, [Next]_vars PROVE FromCursor'
  OBVIOUS
<1>0. /\ pc \in [Workers -> {"idle", "draw", "reserve", "issue"}]
      /\ op \in [Workers -> Commands]
      /\ start \in Lbas /\ end \in 0 .. NamespaceSize /\ current \in Lbas
  BY DEF IInv, TypeOK
<1>1. start' = start /\ end' = end
  BY DEF Next, Submission, Submit, Drawing, Draw, DrawFails, Reserve, Refused, Issue, Complete,
    CompleteResetting, bounds, vars
<1>2. ASSUME current' = current \/ current' = start,
             \A w \in Workers : pc'[w] = "issue" => pc[w] = "issue" /\ op'[w].dst = op[w].dst
      PROVE  FromCursor'
  BY <1>1, <1>2 DEF FromCursor, StartOrBelow
<1>3. ASSUME NEW w \in Workers, Submit(w) \/ Drawing(w) \/ DrawFails(w) \/ Refused(w)
      PROVE  FromCursor'
  <2>1. current' = current
    BY <1>3 DEF Submit, Drawing, Draw, DrawFails, Refused
  <2>2. /\ pc'[w] # "issue"
        /\ \A v \in Workers \ {w} : pc'[v] = pc[v] /\ op'[v] = op[v]
    BY <1>0, <1>3 DEF Submit, Drawing, Draw, DrawFails, Retry, Refused, Goto
  <2> QED BY <1>2, <2>1, <2>2
<1>4. ASSUME NEW w \in Workers, NEW s \in Slots, Issue(w, s) \/ Complete(w, s)
      PROVE  FromCursor'
  BY <1>0, <1>2, <1>4 DEF Issue, Complete, Goto
<1>5. ASSUME NEW w \in Workers, NEW s \in Slots, CompleteResetting(w, s)
      PROVE  FromCursor'
  BY <1>0, <1>2, <1>5, LappedFacts DEF CompleteResetting
<1>6. ASSUME NEW w \in Workers, Reserve(w) PROVE FromCursor'
  <2> DEFINE dst == Granted(start, end, current, op[w].blocks)
             result == IF Rejects(op[w], dst) THEN NoCommand
                       ELSE [op[w] EXCEPT !.dst = dst, !.lapped = FALSE]
  <2>1. op[w].blocks \in Lbas
    BY <1>0, Widths DEF Commands, Lbas
  <2>2. StartOrBelow(dst) /\ StartOrBelow(Advanced(start, end, current, op[w].blocks))
    BY <1>0, <2>1, GrantStartOrBelow DEF FromCursor
  <2>3. current' = Advanced(start, end, current, op[w].blocks)
    BY <1>6 DEF Reserve
  <2>4. \A v \in Workers \ {w} : pc'[v] = pc[v] /\ op'[v].dst = op[v].dst
    BY <1>0, <1>6, LappedFacts DEF Reserve, OthersLapped, Retry, Goto
  <2>5. op'[w] = result
    BY <1>0, <1>6 DEF Reserve, OthersLapped
  <2>6. ASSUME pc'[w] = "issue" PROVE op'[w].dst = dst
    <3>1. ~Rejects(op[w], dst)
      BY <1>0, <1>6, <2>6 DEF Reserve, Retry, Goto
    <3> QED BY <1>0, <2>5, <3>1 DEF Commands
  <2> QED BY <1>1, <2>2, <2>3, <2>4, <2>6 DEF FromCursor, StartOrBelow
<1>7. CASE UNCHANGED vars
  BY <1>2, <1>7 DEF vars
<1> QED BY <1>3, <1>4, <1>5, <1>6, <1>7 DEF Next, Submission

\* A command writes only blocks of its namespace (DestinationInNamespace) if the
\* configured start is not within the size of the namespace of 2^64, in particular
\* if it is a block of the namespace; an empty or a reversed range does no harm.
THEOREM GeneratorDestinationInNamespace ==
  Spec => [](start + NamespaceSize < Wrap => DestinationInNamespace)
<1>1. Init => FromCursor
  BY DEF Init, FromCursor, StartOrBelow
<1>2. ASSUME IInv, FromCursor, start + NamespaceSize < Wrap PROVE DestinationInNamespace
  <2> SUFFICES ASSUME NEW w \in Workers, pc[w] = "issue"
               PROVE  op[w].dst + op[w].blocks <= NamespaceSize
    BY DEF DestinationInNamespace
  <2>1. /\ WellDrawn(op[w]) /\ ~Rejects(op[w], op[w].dst) /\ op[w] \in Commands
        /\ StartOrBelow(op[w].dst)
    BY <1>2 DEF IInv, DrawnInv, TypeOK, FromCursor
  <2>2. /\ op[w].blocks \in 1 .. NamespaceSize /\ op[w].dst \in Lbas
        /\ start \in Lbas /\ end \in 0 .. NamespaceSize
    BY <1>2, <2>1 DEF WellDrawn, Commands, IInv, TypeOK
  <2>3. op[w].dst + op[w].blocks < Wrap
    BY <1>2, <2>1, <2>2, Widths DEF StartOrBelow, Lbas
  <2>4. op[w].blocks \in Lbas
    BY <2>2, Widths DEF Lbas
  <2>5. Add(op[w].dst, op[w].blocks) = op[w].dst + op[w].blocks
    BY <2>2, <2>3, <2>4, AddFacts
  <2>6. ~(Add(op[w].dst, op[w].blocks) > NamespaceSize)
    BY <2>1 DEF Rejects
  <2> QED BY <2>2, <2>5, <2>6, Widths DEF Lbas
<1> QED BY <1>1, <1>2, FromCursorStep, GeneratorInvariant, PTL DEF Spec
=============================================================================
