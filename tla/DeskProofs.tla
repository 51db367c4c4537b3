----------------------------- MODULE DeskProofs -----------------------------
(***************************************************************************)
(* What holds of the early exits, of the entries and of the settings for   *)
(* every value of the constants.  Four parts, one after the other:         *)
(*                                                                         *)
(*   - the pace of the exits the decision core asks for, their types, and  *)
(*     that they run the execution engine by its rules (EarlyExit);        *)
(*   - the trades that are saved, the parameters they record and their     *)
(*     types (EntryDecision, EntryRules);                                  *)
(*   - the running configuration and the file (Settings);                  *)
(*   - the types of the desk as a whole, the ledger included (MCDesk).     *)
(***************************************************************************)
EXTENDS MCDesk, ExecutionEngineProofs, TreasuryProofs

---------------------------------------------------------------------------
(* Days and largest elements *)

\* A set of integers below some bound has a largest element, and Max is it.
LEMMA MaxIsMost ==
    ASSUME NEW S \in SUBSET Int, S # {}, NEW b \in Int, \A x \in S : x <= b
    PROVE  Max(S) \in S /\ \A x \in S : x <= Max(S)
<1> DEFINE gaps == {b - x : x \in S}
<1>1. gaps \in SUBSET Nat /\ gaps # {}
  <2>1. \A x \in S : b - x \in Nat
    OBVIOUS
  <2> QED BY <2>1
<1>2. PICK m \in gaps : \A n \in gaps : m <= n
  <2> HIDE DEF gaps
  <2> QED BY <1>1, LeastNumber
<1>3. PICK x \in S : m = b - x
  OBVIOUS
<1>4. \A y \in S : x >= y
  <2> TAKE y \in S
  <2>1. b - y \in gaps
    OBVIOUS
  <2>2. b - x <= b - y /\ x \in Int /\ y \in Int
    BY <1>2, <1>3, <2>1
  <2> HIDE DEF gaps
  <2> QED BY <2>2
<1>5. Max(S) \in S /\ \A y \in S : Max(S) >= y
  <2> HIDE DEF gaps
  <2> QED BY <1>4 DEF Max
<1> QED BY <1>5

LEMMA TimesMore ==
    ASSUME NEW d \in Nat, NEW p \in Int, NEW q \in Int, p <= q
    PROVE  d * p \in Int /\ d * q \in Int /\ d * p <= d * q
  OBVIOUS

LEMMA Division ==
    ASSUME NEW d \in Nat \ {0}, NEW a \in Int
    PROVE  /\ a \div d \in Int /\ d * (a \div d) \in Int
           /\ d * (a \div d) <= a /\ a < d * (a \div d) + d
  OBVIOUS

\* With a clock that is not ahead of UTC, the day the code counts from began
\* no later than any moment of a UTC day the cycle reaches.
LEMMA DayHasBegun ==
    ASSUME ZoneOffset <= 0, NEW now \in Nat, NEW b \in Nat, now <= b,
           NEW a \in Nat, SameDay(a, b)
    PROVE  StartOfDay(now) \in Int /\ StartOfDay(now) <= a
<1> DEFINE d == DayLength
           z == now + ZoneOffset
           p == z \div d
           q == b \div d
<1>1. d \in Nat \ {0} /\ ZoneOffset \in Int
  BY EarlyExitAssumption
<1>2. z \in Int /\ z <= b
  BY <1>1
<1> HIDE DEF z, d
<1>3. p \in Int /\ d * p \in Int /\ d * p <= z
  BY <1>1, <1>2, Division
<1>4. q \in Int /\ d * q \in Int /\ b < d * q + d
  BY <1>1, Division
<1>5. a \div d = q
  BY DEF SameDay, d
<1>6. d * q <= a
  BY <1>1, <1>5, Division
<1> HIDE DEF p, q
<1>7. p <= q
  <2> SUFFICES ASSUME q + 1 <= p PROVE FALSE
    BY <1>3, <1>4
  <2>1. d * (q + 1) \in Int /\ d * (q + 1) <= d * p
    BY <1>1, <1>3, <1>4, TimesMore
  <2>2. d * (q + 1) = d * q + d
    BY <1>1, <1>4
  <2> QED BY <1>1, <1>2, <1>3, <1>4, <2>1, <2>2
<1>8. d * p <= d * q
  BY <1>1, <1>3, <1>4, <1>7, TimesMore
<1>9. StartOfDay(now) = d * p
  BY DEF StartOfDay, d, p, z
<1> QED BY <1>3, <1>4, <1>6, <1>8, <1>9

---------------------------------------------------------------------------
(* The inductive invariant *)

CycleFields == {"pc", "cfg", "now", "left", "trades", "story", "eligible", "asked", "guarded",
                "on", "guards", "trade", "conf", "closed", "torn", "blind"}

\* The rows that count: what closed a position.
Closings == {r \in verdictRows : r.action = "closed"}

RowsSince(rows, s, from) == {r \in rows : r.symbol = s /\ r.at >= from}

ExitsSince(ex, s, from) == {m \in DOMAIN ex : ex[m].symbol = s /\ ex[m].at >= from}

\* The rows of a cycle.
OfCycle(rows, n) == {r \in rows : r.cycle = n}

\* A cycle at work has its trades, one for each id, and the settings it copied,
\* unless a save came; nothing is closed yet over a story still to come.
Awake(c, rows, n, saved, time) ==
    /\ c.now \in Nat /\ c.now <= time
    /\ c.trades \in SUBSET Trade /\ IsFiniteSet(c.trades)
    /\ \A t, u \in c.trades : t.id = u.id => t = u
    /\ c.cfg \in GuardConfigs /\ (~c.torn => c.cfg = saved)
    /\ \A r \in OfCycle(rows, n) : r.story \notin c.left

\* Over the story at hand, nothing is closed of the trades still to be judged,
OnStory(c, rows, n) ==
    /\ c.story \notin c.left /\ c.eligible \subseteq c.trades
    /\ \A r \in OfCycle(rows, n) : r.story = c.story => \A t \in c.eligible : t.id # r.id

\* nor of the trade at hand.
OnTrade(c, rows, n) ==
    /\ c.trade \in c.trades /\ c.trade \notin c.eligible
    /\ \A r \in OfCycle(rows, n) : r.story = c.story => r.id # c.trade.id

\* The guards are numbers, and a cycle that is not torn has a budget.
Guarded(c) ==
    /\ c.guards.perDay \in Nat /\ c.guards.cooldown \in Nat
    /\ ~c.torn => c.guards.perDay >= 1

\* What the guards have seen of the rows.
Passed(c, rows) ==
    ~c.torn /\ ~c.blind =>
        /\ Cardinality(RowsSince(rows, c.trade.symbol, StartOfDay(c.now))) < c.guards.perDay
        /\ c.guards.cooldown > 0 =>
              \A r \in rows : r.symbol = c.trade.symbol => c.now - r.at >= c.guards.cooldown

CycleOK(c, rows, n, saved, time) ==
    /\ DOMAIN c = CycleFields
    /\ c.pc \in {"sleep", "story", "core", "judge", "guards", "close", "record"}
    /\ c.pc # "sleep" => Awake(c, rows, n, saved, time)
    /\ c.pc \in {"core", "judge", "guards", "close", "record"} => OnStory(c, rows, n)
    /\ c.pc \in {"judge", "guards", "close", "record"} => Guarded(c)
    /\ c.pc \in {"guards", "close", "record"} => OnTrade(c, rows, n)
    /\ c.pc = "close" => Passed(c, rows)

\* The exit whose row is still to be written.
Unwritten(c, ex, s, from) ==
    IF c.pc = "record" /\ ex[Len(ex)].symbol = s /\ ex[Len(ex)].at >= from THEN 1 ELSE 0

\* Since any moment, there are no more exits of a symbol than rows, lost rows
\* and the exit under way: what the budget and the cooldown are read from.
Counted(c, ex, rows, faults) ==
    \A s \in Symbols, from \in Int :
        Cardinality(ExitsSince(ex, s, from))
            <= Cardinality(RowsSince(rows, s, from)) + faults + Unwritten(c, ex, s, from)

\* PaceHolds of these exits, with this many faults.
Before(ex, n) == {m \in 1..(n - 1) : ex[m].symbol = ex[n].symbol}

Paced(ex, faults) ==
    \A n \in DOMAIN ex :
        ~ex[n].torn /\ ~ex[n].blind =>
            /\ Cardinality({m \in Before(ex, n) : SameDay(ex[m].at, ex[n].at)}) + 1
                  <= ex[n].guards.perDay + faults
            /\ faults = 0 =>
                  \A m \in Before(ex, n) : ex[n].at - ex[m].at >= ex[n].guards.cooldown

BudgetOK == /\ DOMAIN exitBudget = {"cycles", "faults", "saves"}
            /\ exitBudget.cycles \in Nat /\ exitBudget.faults \in Nat

RowsOK(rows, n, time) ==
    /\ IsFiniteSet(rows)
    /\ \A r \in rows : r.at \in Nat /\ r.at <= time /\ r.cycle \in Nat /\ r.cycle <= n

ExitsOK(ex, time) ==
    /\ \E S : ex \in Seq(S)
    /\ \A n \in DOMAIN ex :
          /\ ex[n].at \in Nat /\ ex[n].at <= time
          /\ ex[n].guards.perDay \in Int /\ ex[n].guards.cooldown \in Int

PaceInv ==
    /\ TypeOK /\ OrdersSettledOnce
    /\ clock \in Nat /\ savedGuards \in GuardConfigs /\ BudgetOK
    /\ RowsOK(Closings, exitBudget.cycles, clock)
    /\ ExitsOK(exits, clock)
    /\ CycleOK(exitCycle, Closings, exitBudget.cycles, savedGuards, clock)
    /\ exitCycle.pc = "record" =>
          Len(exits) > 0 /\ exits[Len(exits)].symbol = exitCycle.trade.symbol
    /\ Counted(exitCycle, exits, Closings, exitBudget.faults)
    /\ Paced(exits, exitBudget.faults)

---------------------------------------------------------------------------
(* Sizes *)

LEMMA ExitsSize ==
    ASSUME NEW ex, NEW time, ExitsOK(ex, time)
    PROVE  /\ DOMAIN ex = 1..Len(ex) /\ Len(ex) \in Nat /\ IsFiniteSet(DOMAIN ex)
           /\ \A T \in SUBSET (DOMAIN ex) : IsFiniteSet(T) /\ Cardinality(T) \in Nat
<1>1. PICK S : ex \in Seq(S)
  BY DEF ExitsOK
<1>2. DOMAIN ex = 1..Len(ex) /\ Len(ex) \in Nat
  BY <1>1
<1>3. IsFiniteSet(1..Len(ex))
  BY <1>2, FS_Interval
<1> QED BY <1>2, <1>3, FS_Subset, FS_CardinalityType

LEMMA SinceSize ==
    ASSUME NEW ex, NEW time, ExitsOK(ex, time), NEW rows, NEW n, RowsOK(rows, n, time),
           NEW s, NEW from
    PROVE  /\ Cardinality(ExitsSince(ex, s, from)) \in Nat
           /\ IsFiniteSet(ExitsSince(ex, s, from))
           /\ Cardinality(RowsSince(rows, s, from)) \in Nat
           /\ IsFiniteSet(RowsSince(rows, s, from))
<1>1. ExitsSince(ex, s, from) \in SUBSET (DOMAIN ex)
  BY DEF ExitsSince
<1>2. RowsSince(rows, s, from) \in SUBSET rows /\ IsFiniteSet(rows)
  BY DEF RowsSince, RowsOK
<1> QED BY <1>1, <1>2, ExitsSize, FS_Subset, FS_CardinalityType

\* More faults, later, or a cycle that goes on, leave what holds of the exits.
LEMMA PacedStays ==
    ASSUME NEW ex, NEW time, ExitsOK(ex, time), NEW f \in Nat, NEW g \in Nat, f <= g,
           Paced(ex, f)
    PROVE  Paced(ex, g)
<1> SUFFICES ASSUME NEW n \in DOMAIN ex, ~ex[n].torn, ~ex[n].blind
             PROVE  /\ Cardinality({m \in Before(ex, n) : SameDay(ex[m].at, ex[n].at)}) + 1
                         <= ex[n].guards.perDay + g
                    /\ g = 0 => \A m \in Before(ex, n) :
                                    ex[n].at - ex[m].at >= ex[n].guards.cooldown
  BY DEF Paced
<1> DEFINE same == {m \in Before(ex, n) : SameDay(ex[m].at, ex[n].at)}
<1>1. same \in SUBSET (DOMAIN ex)
  BY ExitsSize DEF Before
<1>2. Cardinality(same) \in Nat /\ ex[n].guards.perDay \in Int
  BY <1>1, ExitsSize DEF ExitsOK
<1>3. Cardinality(same) + 1 <= ex[n].guards.perDay + f
  BY DEF Paced
<1> HIDE DEF same
<1>4. Cardinality(same) + 1 <= ex[n].guards.perDay + g
  BY <1>2, <1>3
<1>5. g = 0 => f = 0
  OBVIOUS
<1> QED BY <1>4, <1>5 DEF Paced, same

LEMMA CountedStays ==
    ASSUME NEW ex, NEW time, ExitsOK(ex, time), NEW rows, NEW n, RowsOK(rows, n, time),
           NEW f \in Nat, NEW g \in Nat, f <= g, NEW c, NEW d,
           c.pc # "record", Counted(c, ex, rows, f)
    PROVE  Counted(d, ex, rows, g)
<1> SUFFICES ASSUME NEW s \in Symbols, NEW from \in Int
             PROVE  Cardinality(ExitsSince(ex, s, from))
                      <= Cardinality(RowsSince(rows, s, from)) + g + Unwritten(d, ex, s, from)
  BY DEF Counted
<1>1. /\ Cardinality(ExitsSince(ex, s, from)) \in Nat
      /\ Cardinality(RowsSince(rows, s, from)) \in Nat
  BY SinceSize
<1>2. Unwritten(d, ex, s, from) \in {0, 1} /\ Unwritten(c, ex, s, from) = 0
  BY DEF Unwritten
<1>3. Cardinality(ExitsSince(ex, s, from))
          <= Cardinality(RowsSince(rows, s, from)) + f + Unwritten(c, ex, s, from)
  BY DEF Counted
<1> QED BY <1>1, <1>2, <1>3

LEMMA CycleLater ==
    ASSUME NEW c, NEW rows, NEW n, NEW saved, NEW time \in Nat, NEW later \in Nat,
           time <= later, CycleOK(c, rows, n, saved, time)
    PROVE  CycleOK(c, rows, n, saved, later)
BY DEF CycleOK, Awake

LEMMA FaultsCount ==
    ASSUME BudgetOK, NEW n \in Nat, Faults(n)
    PROVE  /\ BudgetOK' /\ exitBudget'.cycles = exitBudget.cycles
           /\ exitBudget'.faults = exitBudget.faults + n
BY DEF BudgetOK, Faults

\* What the worker does between two clusters leaves it with nothing at hand.
LEMMA SettleOK ==
    ASSUME NEW c, NEW rows, NEW n, NEW saved, NEW time,
           DOMAIN c = CycleFields, Awake(c, rows, n, saved, time), OnStory(c, rows, n),
           c.eligible # {} => Guarded(c), Settle(c)
    PROVE  CycleOK(exitCycle', rows, n, saved, time) /\ exitCycle'.pc # "record"
<1>1. CASE c.left = {} /\ c.eligible = {}
  <2>1. exitCycle' = Sleeping
    BY <1>1 DEF Settle
  <2>2. DOMAIN Sleeping = CycleFields /\ Sleeping.pc = "sleep"
    BY DEF Sleeping, CycleFields
  <2> QED BY <2>1, <2>2 DEF CycleOK
<1>2. CASE ~(c.left = {} /\ c.eligible = {})
  <2> DEFINE d == [c EXCEPT !.pc = IF c.eligible = {} THEN "story" ELSE "judge",
                            !.trade = NoTrade, !.conf = 0, !.closed = NoTrade]
  <2>1. exitCycle' = d
    BY <1>2 DEF Settle
  <2>2. /\ DOMAIN d = CycleFields
        /\ d.pc = IF c.eligible = {} THEN "story" ELSE "judge"
        /\ d.now = c.now /\ d.trades = c.trades /\ d.cfg = c.cfg /\ d.torn = c.torn
        /\ d.left = c.left /\ d.story = c.story /\ d.eligible = c.eligible
        /\ d.guards = c.guards
    BY DEF CycleFields
  <2> HIDE DEF d
  <2>3. Awake(d, rows, n, saved, time)
    BY <2>2 DEF Awake
  <2>4. OnStory(d, rows, n)
    BY <2>2 DEF OnStory
  <2>5. d.pc = "judge" => Guarded(d)
    BY <2>2 DEF Guarded
  <2> QED BY <2>1, <2>2, <2>3, <2>4, <2>5 DEF CycleOK
<1> QED BY <1>1, <1>2

---------------------------------------------------------------------------
(* Steps *)

LEMMA EngineKept ==
    ASSUME TypeOK, OrdersSettledOnce, [Next]_vars
    PROVE  (TypeOK /\ OrdersSettledOnce)'
BY TypeStep, SettledStep

\* What runs beside the worker and leaves its records alone.
LEMMA BesideStep ==
    ASSUME PaceInv, [Next]_vars, clock' \in Nat, clock <= clock',
           UNCHANGED <<savedGuards, exitCycle, verdictRows, exits, exitBudget>>
    PROVE  PaceInv'
<1>1. (TypeOK /\ OrdersSettledOnce)'
  BY EngineKept DEF PaceInv
<1>2. Closings' = Closings /\ BudgetOK'
  BY DEF Closings, PaceInv, BudgetOK
<1>3. RowsOK(Closings, exitBudget.cycles, clock')
  BY DEF PaceInv, RowsOK
<1>4. ExitsOK(exits, clock')
  BY DEF PaceInv, ExitsOK
<1>5. CycleOK(exitCycle, Closings, exitBudget.cycles, savedGuards, clock')
  BY CycleLater DEF PaceInv
<1> QED BY <1>1, <1>2, <1>3, <1>4, <1>5 DEF PaceInv

\* A step that closes nothing and ends at the worker's next trade, next
\* cluster or sleep.
LEMMA SettlingStep ==
    ASSUME PaceInv, exitCycle.pc # "record", NEW c,
           DOMAIN c = CycleFields,
           Awake(c, Closings, exitBudget.cycles, savedGuards, clock),
           OnStory(c, Closings, exitBudget.cycles), c.eligible # {} => Guarded(c),
           Settle(c), Closings' = Closings, UNCHANGED <<vars, clock, savedGuards, exits>>,
           BudgetOK', exitBudget'.cycles = exitBudget.cycles,
           exitBudget.faults <= exitBudget'.faults
    PROVE  PaceInv'
<1>1. (TypeOK /\ OrdersSettledOnce)'
  BY EngineKept DEF PaceInv
<1>2. /\ CycleOK(exitCycle', Closings, exitBudget.cycles, savedGuards, clock)
      /\ exitCycle'.pc # "record"
  BY SettleOK
<1>3. exitBudget.faults \in Nat /\ exitBudget'.faults \in Nat
  BY DEF PaceInv, BudgetOK
<1>4. Counted(exitCycle', exits, Closings, exitBudget'.faults)
  BY <1>3, CountedStays DEF PaceInv
<1>5. Paced(exits, exitBudget'.faults)
  BY <1>3, PacedStays DEF PaceInv
<1> QED BY <1>1, <1>2, <1>4, <1>5 DEF PaceInv

\* A step that goes on with the trade at hand, short of a close.
LEMMA GoingOnStep ==
    ASSUME PaceInv, exitCycle.pc # "record",
           CycleOK(exitCycle', Closings, exitBudget'.cycles, savedGuards', clock),
           exitCycle'.pc # "record",
           Closings' = Closings, UNCHANGED <<vars, clock, exits>>,
           savedGuards' \in GuardConfigs,
           BudgetOK', exitBudget.cycles <= exitBudget'.cycles,
           exitBudget.faults <= exitBudget'.faults
    PROVE  PaceInv'
<1>1. (TypeOK /\ OrdersSettledOnce)'
  BY EngineKept DEF PaceInv
<1>2. /\ exitBudget.faults \in Nat /\ exitBudget'.faults \in Nat
      /\ exitBudget.cycles \in Nat /\ exitBudget'.cycles \in Nat
  BY DEF PaceInv, BudgetOK
<1>3. Counted(exitCycle', exits, Closings, exitBudget'.faults)
  BY <1>2, CountedStays DEF PaceInv
<1>4. Paced(exits, exitBudget'.faults)
  BY <1>2, PacedStays DEF PaceInv
<1>5. RowsOK(Closings, exitBudget'.cycles, clock)
  BY <1>2 DEF PaceInv, RowsOK
<1> QED BY <1>1, <1>3, <1>4, <1>5 DEF PaceInv

LEMMA NoClosing ==
    /\ \A T : Errors(T) => Closings' = Closings
    /\ \A t, stored : verdictRows' = verdictRows \cup Skipped(t, stored) => Closings' = Closings
BY DEF Errors, Skipped, VerdictRow, Closings

LEMMA LostIsCount == \A b \in BOOLEAN : Lost(b) \in {0, 1} /\ (b <=> Lost(b) = 0)
BY DEF Lost

LEMMA SaveGuardsStep ==
    ASSUME PaceInv, NEW guards \in GuardConfigs, SaveGuards(guards)
    PROVE  PaceInv'
<1> DEFINE d == [exitCycle EXCEPT !.torn = exitCycle.pc # "sleep"]
<1>1. /\ exitCycle' = d /\ savedGuards' = guards /\ Closings' = Closings
      /\ UNCHANGED <<vars, clock, exits>>
  BY DEF SaveGuards, Closings
<1>2. /\ BudgetOK' /\ exitBudget'.cycles = exitBudget.cycles
      /\ exitBudget'.faults = exitBudget.faults
  BY DEF PaceInv, BudgetOK, SaveGuards
<1>3. /\ DOMAIN exitCycle = CycleFields /\ DOMAIN d = CycleFields
      /\ d.pc = exitCycle.pc /\ d.torn = (exitCycle.pc # "sleep")
      /\ d.now = exitCycle.now /\ d.trades = exitCycle.trades /\ d.cfg = exitCycle.cfg
      /\ d.left = exitCycle.left /\ d.story = exitCycle.story
      /\ d.eligible = exitCycle.eligible /\ d.guards = exitCycle.guards
      /\ d.trade = exitCycle.trade
  BY DEF PaceInv, CycleOK, CycleFields
<1> HIDE DEF d
<1>4. CycleOK(d, Closings, exitBudget.cycles, guards, clock)
  BY <1>3 DEF PaceInv, CycleOK, Awake, OnStory, OnTrade, Guarded, Passed
<1>5. Counted(d, exits, Closings, exitBudget.faults)
  BY <1>3 DEF PaceInv, Counted, Unwritten
<1>6. (TypeOK /\ OrdersSettledOnce)'
  BY <1>1, EngineKept DEF PaceInv
<1> QED BY <1>1, <1>2, <1>3, <1>4, <1>5, <1>6 DEF PaceInv

LEMMA BeginCycleStep ==
    ASSUME PaceInv, BeginCycle
    PROVE  PaceInv'
<1> DEFINE held == {positions[s] : s \in {q \in Symbols : IsOpen(q)}}
           d == [Sleeping EXCEPT
                   !.pc = "story", !.cfg = savedGuards, !.now = clock, !.left = Live(clock),
                   !.trades = held]
           n == exitBudget.cycles
<1>1. /\ exitCycle' = d /\ exitCycle.pc = "sleep" /\ Closings' = Closings
      /\ UNCHANGED <<vars, clock, savedGuards, exits>>
  BY DEF BeginCycle, Closings
<1>2. /\ BudgetOK' /\ exitBudget'.cycles = n + 1
      /\ exitBudget'.faults = exitBudget.faults /\ n \in Nat
  BY DEF PaceInv, BudgetOK, BeginCycle
<1>3. held \in SUBSET Trade /\ \A t, u \in held : t.id = u.id => t = u
  <2>1. \A s \in Symbols : IsOpen(s) => positions[s] \in Trade
    BY OpenIsTrade DEF PaceInv
  <2>2. \A s, t \in Symbols : IsOpen(s) /\ IsOpen(t) /\ positions[t].id = positions[s].id => t = s
    BY DEF PaceInv, OrdersSettledOnce
  <2> QED BY <2>1, <2>2
<1>8. IsFiniteSet(held)
  <2> DEFINE at == [s \in {q \in Symbols : IsOpen(q)} |-> positions[s]]
  <2>1. IsFiniteSet({q \in Symbols : IsOpen(q)})
    BY SymbolsAssumption, FS_Subset
  <2>2. at \in Surjection({q \in Symbols : IsOpen(q)}, held)
    BY DEF Surjection
  <2> HIDE DEF at, held
  <2> QED BY <2>1, <2>2, FS_Surjection
<1>4. OfCycle(Closings, n + 1) = {}
  BY <1>2 DEF OfCycle, PaceInv, RowsOK
<1> HIDE DEF held, n
<1>5. /\ DOMAIN d = CycleFields /\ d.pc = "story" /\ d.now = clock /\ d.trades = held
      /\ d.cfg = savedGuards
  BY DEF Sleeping, CycleFields
<1> HIDE DEF d
<1>6. CycleOK(d, Closings, n + 1, savedGuards, clock)
  BY <1>3, <1>4, <1>5, <1>8 DEF CycleOK, Awake, PaceInv
<1>7. n <= n + 1 /\ exitBudget.faults <= exitBudget.faults /\ savedGuards' \in GuardConfigs
  BY <1>1, <1>2 DEF PaceInv, BudgetOK
<1> QED BY <1>1, <1>2, <1>5, <1>6, <1>7, GoingOnStep DEF n

LEMMA PickStoryStep ==
    ASSUME PaceInv, NEW k \in Stories, NEW unread \in SUBSET exitCycle.trades,
           PickStory(k, unread)
    PROVE  PaceInv'
<1> DEFINE judged == {t \in exitCycle.trades : HasTerminalEarlyExitJudgment(t.id, k)}
           now == (exitCycle.trades \ judged) \cup unread
           managed == savedGuards.managed \cap Guards
           asked == {t \in now : IsStillOpen(t)}
           moved == [exitCycle EXCEPT !.left = @ \ {k}, !.story = k, !.eligible = now]
           c == [moved EXCEPT !.eligible = {}]
           d == [moved EXCEPT !.pc = "core", !.asked = asked, !.guarded = managed]
           n == exitBudget.cycles
<1>1. /\ exitCycle.pc = "story" /\ k \in exitCycle.left
      /\ Faults(Cardinality(unread)) /\ unread \subseteq judged
      /\ Closings' = Closings /\ UNCHANGED <<vars, clock, savedGuards, exits>>
      /\ Settle(c) \/ exitCycle' = d
  BY DEF PickStory, Closings
<1>2. /\ DOMAIN exitCycle = CycleFields /\ Awake(exitCycle, Closings, n, savedGuards, clock)
  BY <1>1 DEF PaceInv, CycleOK
<1>3. /\ BudgetOK' /\ exitBudget'.cycles = n /\ exitBudget.faults <= exitBudget'.faults
  <2>1. Cardinality(unread) \in Nat
    BY <1>2, FS_Subset, FS_CardinalityType DEF Awake
  <2> QED BY <1>1, <2>1, FaultsCount DEF PaceInv, BudgetOK
<1>4. now \subseteq exitCycle.trades
  OBVIOUS
<1> HIDE DEF now, managed, asked, n, judged
<1>5. /\ DOMAIN moved = CycleFields /\ moved.now = exitCycle.now
      /\ moved.trades = exitCycle.trades /\ moved.cfg = exitCycle.cfg
      /\ moved.torn = exitCycle.torn /\ moved.left = exitCycle.left \ {k}
      /\ moved.story = k /\ moved.eligible = now
  BY <1>2 DEF CycleFields
<1> HIDE DEF moved
<1>6. Awake(moved, Closings, n, savedGuards, clock)
  BY <1>2, <1>5 DEF Awake
<1>7. \A r \in OfCycle(Closings, n) : r.story # k
  BY <1>1, <1>2 DEF Awake
<1>8. CASE Settle(c)
  <2>1. /\ DOMAIN c = CycleFields /\ c.now = moved.now /\ c.trades = moved.trades
        /\ c.cfg = moved.cfg /\ c.torn = moved.torn /\ c.left = moved.left
        /\ c.story = moved.story /\ c.eligible = {}
    BY <1>5 DEF CycleFields
  <2> HIDE DEF c
  <2>2. Awake(c, Closings, n, savedGuards, clock)
    BY <1>6, <2>1 DEF Awake
  <2>3. OnStory(c, Closings, n)
    BY <1>5, <2>1 DEF OnStory
  <2>4. exitCycle.pc # "record"
    BY <1>1
  <2> QED BY <1>1, <1>3, <1>8, <2>1, <2>2, <2>3, <2>4, SettlingStep DEF n
<1>9. CASE exitCycle' = d
  <2>1. /\ DOMAIN d = CycleFields /\ d.now = moved.now /\ d.trades = moved.trades
        /\ d.cfg = moved.cfg /\ d.torn = moved.torn /\ d.left = moved.left
        /\ d.story = moved.story /\ d.eligible = moved.eligible /\ d.pc = "core"
    BY <1>5 DEF CycleFields
  <2> HIDE DEF d
  <2>2. Awake(d, Closings, n, savedGuards, clock)
    BY <1>6, <2>1 DEF Awake
  <2>3. OnStory(d, Closings, n)
    BY <1>4, <1>5, <1>7, <2>1 DEF OnStory
  <2>4. CycleOK(d, Closings, n, savedGuards, clock)
    BY <2>1, <2>2, <2>3 DEF CycleOK
  <2>5. savedGuards' \in GuardConfigs /\ exitBudget.cycles <= exitBudget'.cycles
    BY <1>1, <1>3 DEF PaceInv, BudgetOK, n
  <2> QED BY <1>1, <1>3, <1>9, <2>1, <2>4, <2>5, GoingOnStep DEF n
<1> QED BY <1>1, <1>8, <1>9

\* The worker takes the trade, or all of them, off the list and settles.
LEMMA FewerToJudge ==
    ASSUME PaceInv, exitCycle.pc \in {"core", "judge", "guards", "close"},
           NEW T \in SUBSET exitCycle.eligible,
           T # {} => exitCycle.pc # "core",
           Settle([exitCycle EXCEPT !.eligible = T]), Closings' = Closings,
           UNCHANGED <<vars, clock, savedGuards, exits>>, BudgetOK',
           exitBudget'.cycles = exitBudget.cycles, exitBudget.faults <= exitBudget'.faults
    PROVE  PaceInv'
<1> DEFINE c == [exitCycle EXCEPT !.eligible = T]
           n == exitBudget.cycles
<1>1. /\ DOMAIN exitCycle = CycleFields /\ exitCycle.pc # "record"
      /\ Awake(exitCycle, Closings, n, savedGuards, clock)
      /\ OnStory(exitCycle, Closings, n)
      /\ exitCycle.pc # "core" => Guarded(exitCycle)
  BY DEF PaceInv, CycleOK
<1> HIDE DEF n
<1>2. /\ DOMAIN c = CycleFields /\ c.now = exitCycle.now /\ c.trades = exitCycle.trades
      /\ c.cfg = exitCycle.cfg /\ c.torn = exitCycle.torn /\ c.left = exitCycle.left
      /\ c.story = exitCycle.story /\ c.eligible = T /\ c.guards = exitCycle.guards
  BY <1>1 DEF CycleFields
<1>3. Settle(c)
  OBVIOUS
<1> HIDE DEF c
<1>4. Awake(c, Closings, n, savedGuards, clock)
  BY <1>1, <1>2 DEF Awake
<1>5. OnStory(c, Closings, n)
  BY <1>1, <1>2 DEF OnStory
<1>6. c.eligible # {} => Guarded(c)
  BY <1>1, <1>2 DEF Guarded
<1> QED BY <1>1, <1>2, <1>3, <1>4, <1>5, <1>6, SettlingStep DEF n

LEMMA CoreFailsStep ==
    ASSUME PaceInv, CoreFails
    PROVE  PaceInv'
<1>1. /\ exitCycle.pc = "core" /\ Settle([exitCycle EXCEPT !.eligible = {}])
      /\ Closings' = Closings /\ UNCHANGED <<vars, clock, savedGuards, exits, exitBudget>>
  BY NoClosing DEF CoreFails
<1>2. BudgetOK' /\ exitBudget.faults <= exitBudget.faults
  BY <1>1 DEF PaceInv, BudgetOK
<1> QED BY <1>1, <1>2, FewerToJudge

LEMMA ClampsAreNumbers ==
    ASSUME NEW x \in Int
    PROVE  Clamped("perDay", x) \in 1..10 /\ Clamped("cooldown", x) \in Nat
BY EarlyExitAssumption DEF Clamped, Clamp

\* The guards a cycle goes by are numbers; without a save in between, the
\* budget is the core's clamped answer or what the operator set.
LEMMA ResolvedGuards ==
    ASSUME PaceInv, exitCycle.pc = "core", NEW answers \in GuardAnswers,
           NEW asked,
           Resolves(CycleConfig, [g \in asked \cap DOMAIN answers |-> answers[g]]),
           NEW r, r = ResolveEarlyExitGuards(CycleConfig,
                          [g \in asked \cap DOMAIN answers |-> answers[g]])
    PROVE  /\ r["perDay"] \in Nat /\ r["cooldown"] \in Nat
           /\ ~exitCycle.torn => r["perDay"] >= 1
<1> DEFINE got == [g \in asked \cap DOMAIN answers |-> answers[g]]
           rules == CycleConfig
<1>1. /\ exitCycle.cfg \in GuardConfig /\ savedGuards \in GuardConfig
      /\ ~exitCycle.torn => exitCycle.cfg = savedGuards
      /\ "perDay" \in savedGuards.managed \/ savedGuards.perDay >= 1
  BY EarlyExitAssumption DEF PaceInv, CycleOK, Awake
<1>2. /\ rules.managed = savedGuards.managed /\ rules.perDay = exitCycle.cfg.perDay
      /\ rules.cooldown = exitCycle.cfg.cooldown
  BY <1>1 DEF CycleConfig, GuardConfig
<1>3. rules.perDay \in Nat /\ rules.cooldown \in Nat
  BY <1>1, <1>2 DEF GuardConfig
<1>4. ASSUME NEW g \in Guards, g \in rules.managed PROVE got[g] \in Int
  <2>1. g \in DOMAIN got
    BY <1>4 DEF Resolves
  <2>2. got[g] = answers[g] /\ g \in DOMAIN answers
    BY <2>1
  <2> QED BY <2>2, EarlyExitAssumption
<1> HIDE DEF got, rules
<1>5. /\ r["perDay"] = IF "perDay" \in rules.managed THEN Clamped("perDay", got["perDay"])
                       ELSE rules["perDay"]
      /\ r["cooldown"] = IF "cooldown" \in rules.managed
                         THEN Clamped("cooldown", got["cooldown"]) ELSE rules["cooldown"]
  BY DEF ResolveEarlyExitGuards, Guards, got, rules
<1>6. "perDay" \in Guards /\ "cooldown" \in Guards
  BY DEF Guards
<1>7. /\ "perDay" \in rules.managed => Clamped("perDay", got["perDay"]) \in 1..10
      /\ "cooldown" \in rules.managed => Clamped("cooldown", got["cooldown"]) \in Nat
  BY <1>4, <1>6, ClampsAreNumbers
<1> QED BY <1>1, <1>2, <1>3, <1>5, <1>7

LEMMA CoreAnswersStep ==
    ASSUME PaceInv, NEW answers \in GuardAnswers, CoreAnswers(answers)
    PROVE  PaceInv'
<1> DEFINE got == [g \in exitCycle.guarded \cap DOMAIN answers |-> answers[g]]
           r == ResolveEarlyExitGuards(CycleConfig, got)
           c == [exitCycle EXCEPT !.eligible = @ \cap exitCycle.asked,
                                  !.on = IsEnabled(CycleConfig), !.guards = r]
           n == exitBudget.cycles
<1>1. /\ exitCycle.pc = "core"
      /\ UNCHANGED <<vars, clock, savedGuards, exits, exitBudget>>
  BY DEF CoreAnswers
<1>2. BudgetOK' /\ exitBudget.faults <= exitBudget.faults
  BY <1>1 DEF PaceInv, BudgetOK
<1>3. CASE Resolves(CycleConfig, got)
  <2>1. Settle(c) /\ Closings' = Closings
    BY <1>3 DEF CoreAnswers, Closings
  <2>2. r["perDay"] \in Nat /\ r["cooldown"] \in Nat /\ (~exitCycle.torn => r["perDay"] >= 1)
    BY <1>1, <1>3, ResolvedGuards
  <2>3. /\ DOMAIN exitCycle = CycleFields
        /\ Awake(exitCycle, Closings, n, savedGuards, clock)
        /\ OnStory(exitCycle, Closings, n)
    BY <1>1 DEF PaceInv, CycleOK
  <2> HIDE DEF r, n, got
  <2>4. /\ DOMAIN c = CycleFields /\ c.now = exitCycle.now /\ c.trades = exitCycle.trades
        /\ c.cfg = exitCycle.cfg /\ c.torn = exitCycle.torn /\ c.left = exitCycle.left
        /\ c.story = exitCycle.story /\ c.eligible = exitCycle.eligible \cap exitCycle.asked
        /\ c.guards = r
    BY <2>3 DEF CycleFields
  <2> HIDE DEF c
  <2>5. Awake(c, Closings, n, savedGuards, clock)
    BY <2>3, <2>4 DEF Awake
  <2>6. OnStory(c, Closings, n)
    BY <2>3, <2>4 DEF OnStory
  <2>7. Guarded(c)
    BY <2>2, <2>4 DEF Guarded
  <2>8. exitCycle.pc # "record"
    BY <1>1
  <2> QED BY <1>1, <1>2, <2>1, <2>4, <2>5, <2>6, <2>7, <2>8, SettlingStep DEF n
<1>4. CASE ~Resolves(CycleConfig, got)
  <2>1. Errors(exitCycle.eligible) /\ Settle([exitCycle EXCEPT !.eligible = {}])
    BY <1>4 DEF CoreAnswers
  <2>2. Closings' = Closings
    BY <2>1, NoClosing
  <2> QED BY <1>1, <1>2, <2>1, <2>2, FewerToJudge
<1> QED BY <1>3, <1>4

LEMMA NoVerdictStep ==
    ASSUME PaceInv, NEW t \in exitCycle.eligible, NoVerdict(t)
    PROVE  PaceInv'
<1>1. /\ exitCycle.pc = "judge"
      /\ Settle([exitCycle EXCEPT !.eligible = exitCycle.eligible \ {t}])
      /\ Closings' = Closings /\ UNCHANGED <<vars, clock, savedGuards, exits, exitBudget>>
  BY DEF NoVerdict, Closings
<1>2. BudgetOK' /\ exitBudget.faults <= exitBudget.faults
  BY <1>1 DEF PaceInv, BudgetOK
<1> QED BY <1>1, <1>2, FewerToJudge

LEMMA VerdictStep ==
    ASSUME PaceInv, NEW t \in exitCycle.eligible, NEW v \in Verdicts, NEW stored \in BOOLEAN,
           Verdict(t, v, stored)
    PROVE  PaceInv'
<1> DEFINE rest == [exitCycle EXCEPT !.eligible = exitCycle.eligible \ {t}]
           d == [rest EXCEPT !.pc = "guards", !.trade = t, !.conf = Conf(v)]
           n == exitBudget.cycles
<1>1. exitCycle.pc = "judge" /\ UNCHANGED <<vars, clock, savedGuards, exits>>
  BY DEF Verdict
<1>2. CASE Noul(v) < exitCycle.guards.floor
  <2>1. /\ verdictRows' = verdictRows \cup Skipped(t, stored) /\ Faults(Lost(stored))
        /\ Settle([exitCycle EXCEPT !.eligible = exitCycle.eligible \ {t}])
    BY <1>2 DEF Verdict
  <2>2. Closings' = Closings
    BY <2>1, NoClosing
  <2>3. Lost(stored) \in Nat
    BY LostIsCount
  <2>4. BudgetOK' /\ exitBudget'.cycles = n /\ exitBudget.faults <= exitBudget'.faults
    BY <2>1, <2>3, FaultsCount DEF PaceInv, BudgetOK
  <2> QED BY <1>1, <2>1, <2>2, <2>4, FewerToJudge
<1>3. CASE ~(Noul(v) < exitCycle.guards.floor)
  <2>1. exitCycle' = d /\ Closings' = Closings /\ exitBudget' = exitBudget
    BY <1>3 DEF Verdict, Closings
  <2>2. /\ DOMAIN exitCycle = CycleFields
        /\ Awake(exitCycle, Closings, n, savedGuards, clock)
        /\ OnStory(exitCycle, Closings, n) /\ Guarded(exitCycle)
    BY <1>1 DEF PaceInv, CycleOK
  <2>3. /\ DOMAIN rest = CycleFields /\ rest.now = exitCycle.now
        /\ rest.trades = exitCycle.trades /\ rest.cfg = exitCycle.cfg
        /\ rest.torn = exitCycle.torn /\ rest.left = exitCycle.left
        /\ rest.story = exitCycle.story /\ rest.eligible = exitCycle.eligible \ {t}
        /\ rest.guards = exitCycle.guards
    BY <2>2 DEF CycleFields
  <2> HIDE DEF rest, n
  <2>4. /\ DOMAIN d = CycleFields /\ d.now = exitCycle.now /\ d.trades = exitCycle.trades
        /\ d.cfg = exitCycle.cfg /\ d.torn = exitCycle.torn /\ d.left = exitCycle.left
        /\ d.story = exitCycle.story /\ d.eligible = exitCycle.eligible \ {t}
        /\ d.guards = exitCycle.guards /\ d.pc = "guards" /\ d.trade = t
    BY <2>3 DEF CycleFields
  <2> HIDE DEF d
  <2>5. Awake(d, Closings, n, savedGuards, clock)
    BY <2>2, <2>4 DEF Awake
  <2>6. OnStory(d, Closings, n)
    BY <2>2, <2>4 DEF OnStory
  <2>7. OnTrade(d, Closings, n)
    BY <2>2, <2>4 DEF OnStory, OnTrade
  <2>8. Guarded(d)
    BY <2>2, <2>4 DEF Guarded
  <2>9. CycleOK(d, Closings, n, savedGuards, clock)
    BY <2>4, <2>5, <2>6, <2>7, <2>8 DEF CycleOK
  <2>10. /\ BudgetOK' /\ exitBudget.cycles <= exitBudget'.cycles
         /\ exitBudget.faults <= exitBudget'.faults /\ savedGuards' \in GuardConfigs
         /\ exitCycle.pc # "record"
    BY <1>1, <2>1 DEF PaceInv, BudgetOK
  <2> QED BY <1>1, <2>1, <2>4, <2>9, <2>10, GoingOnStep DEF n
<1> QED BY <1>2, <1>3

\* What it means that the guards let a close pass on counters they have read.
LEMMA GuardsPass ==
    ASSUME PaceInv, NEW t, NEW now \in Nat, NEW on, NEW g, NEW age, NEW conf,
           g.perDay \in Nat, g.cooldown \in Nat, g.perDay >= 1,
           EvaluateEarlyExitGuards(on, g, age, LastExitAge(t.symbol, now),
               CountEarlyExitsToday(t.symbol, now), conf) = "pass"
    PROVE  /\ Cardinality(RowsSince(Closings, t.symbol, StartOfDay(now))) < g.perDay
           /\ g.cooldown > 0 =>
                 \A r \in Closings : r.symbol = t.symbol => now - r.at >= g.cooldown
<1> DEFINE lastAge == LastExitAge(t.symbol, now)
           today == CountEarlyExitsToday(t.symbol, now)
<1>1. ~(g.perDay > 0 /\ today >= g.perDay) /\ ~(g.cooldown > 0 /\ \E a \in lastAge : a < g.cooldown)
  <2>1. EvaluateEarlyExitGuards(on, g, age, lastAge, today, conf) = "pass"
    OBVIOUS
  <2> HIDE DEF lastAge, today
  <2> QED BY <2>1 DEF EvaluateEarlyExitGuards
<1>2. Cardinality(RowsSince(Closings, t.symbol, StartOfDay(now))) < g.perDay
  <2>1. {r \in ClosedRows(t.symbol) : r.at >= StartOfDay(now)}
          = RowsSince(Closings, t.symbol, StartOfDay(now))
    BY DEF ClosedRows, RowsSince, Closings
  <2>2. today = Cardinality(RowsSince(Closings, t.symbol, StartOfDay(now)))
    BY <2>1 DEF CountEarlyExitsToday
  <2>3. today \in Nat
    BY <2>2, SinceSize DEF PaceInv
  <2> HIDE DEF today
  <2> QED BY <1>1, <2>2, <2>3
<1>3. ASSUME g.cooldown > 0, NEW r \in Closings, r.symbol = t.symbol
      PROVE  now - r.at >= g.cooldown
  <2> DEFINE S == {q.at : q \in ClosedRows(t.symbol)}
  <2>1. r \in ClosedRows(t.symbol) /\ ClosedRows(t.symbol) \subseteq Closings
    BY <1>3 DEF ClosedRows, Closings
  <2>2. \A q \in Closings : q.at \in Nat /\ q.at <= clock
    BY DEF PaceInv, RowsOK
  <2>3. S \in SUBSET Int /\ r.at \in S /\ (\A x \in S : x <= clock) /\ clock \in Int
    BY <2>1, <2>2 DEF PaceInv
  <2>4. lastAge = {now - Max(S)}
    BY <2>1 DEF LastExitAge
  <2> HIDE DEF S, lastAge
  <2>5. Max(S) \in S /\ r.at <= Max(S)
    BY <2>3, MaxIsMost
  <2>6. ~(now - Max(S) < g.cooldown)
    BY <1>1, <1>3, <2>4
  <2>7. Max(S) \in Int /\ r.at \in Int
    BY <2>3, <2>5
  <2> QED BY <2>5, <2>6, <2>7
<1> QED BY <1>2, <1>3

LEMMA CheckGuardsStep ==
    ASSUME PaceInv, NEW readsLast \in BOOLEAN, NEW readsCount \in BOOLEAN,
           NEW stored \in BOOLEAN, CheckGuards(readsLast, readsCount, stored)
    PROVE  PaceInv'
<1> DEFINE c == exitCycle
           t == c.trade
           age == c.now - born[t.id]
           outcome == EvaluateEarlyExitGuards(c.on, c.guards, age,
               IF readsLast THEN LastExitAge(t.symbol, c.now) ELSE {},
               IF readsCount THEN CountEarlyExitsToday(t.symbol, c.now) ELSE 0, c.conf)
           d == [c EXCEPT !.pc = "close", !.blind = ~(readsLast /\ readsCount)]
           n == exitBudget.cycles
<1>1. /\ c.pc = "guards" /\ UNCHANGED <<vars, clock, savedGuards, exits>>
      /\ Faults(Lost(stored) + Lost(readsLast) + Lost(readsCount))
  BY DEF CheckGuards
<1>2. BudgetOK' /\ exitBudget'.cycles = n /\ exitBudget.faults <= exitBudget'.faults
  <2>1. Lost(stored) \in Nat /\ Lost(readsLast) \in Nat /\ Lost(readsCount) \in Nat
    BY LostIsCount
  <2>2. Lost(stored) + Lost(readsLast) + Lost(readsCount) \in Nat
    BY <2>1
  <2> QED BY <1>1, <2>2, FaultsCount DEF PaceInv, BudgetOK
<1>3. /\ DOMAIN c = CycleFields /\ Awake(c, Closings, n, savedGuards, clock)
      /\ OnStory(c, Closings, n) /\ OnTrade(c, Closings, n) /\ Guarded(c)
  BY <1>1 DEF PaceInv, CycleOK
<1>4. CASE outcome = "pass"
  <2>1. exitCycle' = d /\ Closings' = Closings
    BY <1>4 DEF CheckGuards, Closings
  <2>2. ASSUME ~c.torn, readsLast, readsCount
        PROVE  /\ Cardinality(RowsSince(Closings, t.symbol, StartOfDay(c.now))) < c.guards.perDay
               /\ c.guards.cooldown > 0 =>
                     \A r \in Closings : r.symbol = t.symbol => c.now - r.at >= c.guards.cooldown
    <3>1. EvaluateEarlyExitGuards(c.on, c.guards, age, LastExitAge(t.symbol, c.now),
              CountEarlyExitsToday(t.symbol, c.now), c.conf) = "pass"
      BY <1>4, <2>2
    <3>2. c.now \in Nat /\ c.guards.perDay \in Nat /\ c.guards.cooldown \in Nat
          /\ c.guards.perDay >= 1
      BY <1>3, <2>2 DEF Awake, Guarded
    <3> HIDE DEF c, t, age, outcome
    <3> QED BY <3>1, <3>2, GuardsPass
  <2> HIDE DEF outcome, n
  <2>3. /\ DOMAIN d = CycleFields /\ d.now = c.now /\ d.trades = c.trades
        /\ d.cfg = c.cfg /\ d.torn = c.torn /\ d.left = c.left
        /\ d.story = c.story /\ d.eligible = c.eligible
        /\ d.guards = c.guards /\ d.pc = "close" /\ d.trade = t
        /\ d.blind = ~(readsLast /\ readsCount)
    BY <1>3 DEF CycleFields
  <2> HIDE DEF d, c, t
  <2>4. Awake(d, Closings, n, savedGuards, clock)
    BY <1>3, <2>3 DEF Awake
  <2>5. OnStory(d, Closings, n)
    BY <1>3, <2>3 DEF OnStory
  <2>6. OnTrade(d, Closings, n)
    BY <1>3, <2>3 DEF OnTrade, t
  <2>7. Guarded(d)
    BY <1>3, <2>3 DEF Guarded
  <2>8. Passed(d, Closings)
    BY <2>2, <2>3 DEF Passed
  <2>9. CycleOK(d, Closings, n, savedGuards, clock)
    BY <2>3, <2>4, <2>5, <2>6, <2>7, <2>8 DEF CycleOK
  <2>10. /\ exitBudget.cycles <= exitBudget'.cycles /\ savedGuards' \in GuardConfigs
         /\ exitCycle.pc # "record"
    BY <1>1, <1>2 DEF PaceInv, BudgetOK, n, c
  <2> QED BY <1>1, <1>2, <2>1, <2>3, <2>9, <2>10, GoingOnStep DEF n
<1>5. CASE outcome # "pass"
  <2>1. verdictRows' = verdictRows \cup Skipped(t, stored) /\ Settle(c)
    BY <1>5 DEF CheckGuards
  <2>2. Closings' = Closings
    BY <2>1, NoClosing
  <2>3. c.pc # "record" /\ (c.eligible # {} => Guarded(c))
    BY <1>1, <1>3
  <2> HIDE DEF outcome
  <2> QED BY <1>1, <1>2, <1>3, <2>1, <2>2, <2>3, SettlingStep
<1> QED BY <1>4, <1>5

---------------------------------------------------------------------------
(* The close and its row *)

LEMMA OneMoreExit ==
    ASSUME NEW ex, NEW time, ExitsOK(ex, time), NEW x, NEW s, NEW from
    PROVE  /\ ExitsSince(Append(ex, x), s, from)
                = IF x.symbol = s /\ x.at >= from THEN ExitsSince(ex, s, from) \cup {Len(ex) + 1}
                  ELSE ExitsSince(ex, s, from)
           /\ Len(ex) + 1 \notin ExitsSince(ex, s, from)
           /\ Append(ex, x)[Len(Append(ex, x))] = x
           /\ DOMAIN Append(ex, x) = (DOMAIN ex) \cup {Len(ex) + 1}
           /\ Append(ex, x)[Len(ex) + 1] = x
           /\ \A m \in DOMAIN ex : Append(ex, x)[m] = ex[m]
           /\ Len(Append(ex, x)) = Len(ex) + 1
<1> DEFINE fx == Append(ex, x)
           l == Len(ex)
<1>1. PICK S : ex \in Seq(S)
  BY DEF ExitsOK
<1>2. /\ DOMAIN ex = 1..l /\ l \in Nat /\ DOMAIN fx = 1..(l + 1) /\ Len(fx) = l + 1
      /\ fx[l + 1] = x /\ \A m \in 1..l : fx[m] = ex[m]
  <2>1. ex \in Seq(S \cup {x}) /\ x \in S \cup {x}
    BY <1>1
  <2> QED BY <2>1
<1> HIDE DEF fx, l
<1>3. 1..(l + 1) = 1..l \cup {l + 1} /\ l + 1 \notin 1..l
  BY <1>2
<1>4. l + 1 \notin ExitsSince(ex, s, from)
  BY <1>2, <1>3 DEF ExitsSince
<1>5. CASE x.symbol = s /\ x.at >= from
  <2>1. ExitsSince(fx, s, from) = ExitsSince(ex, s, from) \cup {l + 1}
    BY <1>2, <1>3, <1>5 DEF ExitsSince
  <2> QED BY <1>2, <1>3, <1>4, <1>5, <2>1 DEF fx, l
<1>6. CASE ~(x.symbol = s /\ x.at >= from)
  <2>1. ExitsSince(fx, s, from) = ExitsSince(ex, s, from)
    BY <1>2, <1>3, <1>6 DEF ExitsSince
  <2> QED BY <1>2, <1>3, <1>4, <1>6, <2>1 DEF fx, l
<1> QED BY <1>5, <1>6

\* The exit under way is counted before its row is there.
LEMMA CountedExit ==
    ASSUME NEW ex, NEW time, ExitsOK(ex, time), NEW rows, NEW n, RowsOK(rows, n, time),
           NEW f \in Nat, NEW c, c.pc # "record", Counted(c, ex, rows, f),
           NEW d, d.pc = "record", NEW x
    PROVE  Counted(d, Append(ex, x), rows, f)
<1> SUFFICES ASSUME NEW s \in Symbols, NEW from \in Int
             PROVE  Cardinality(ExitsSince(Append(ex, x), s, from))
                      <= Cardinality(RowsSince(rows, s, from)) + f
                           + Unwritten(d, Append(ex, x), s, from)
  BY DEF Counted
<1> DEFINE new == ExitsSince(Append(ex, x), s, from)
           old == ExitsSince(ex, s, from)
           known == Cardinality(RowsSince(rows, s, from))
<1>1. /\ Cardinality(old) \in Nat /\ IsFiniteSet(old) /\ known \in Nat
      /\ Cardinality(old) <= known + f
  <2>1. Cardinality(old) \in Nat /\ IsFiniteSet(old) /\ known \in Nat
    BY SinceSize
  <2>2. Cardinality(old) <= known + f + Unwritten(c, ex, s, from)
    BY DEF Counted
  <2>3. Unwritten(c, ex, s, from) = 0
    BY DEF Unwritten
  <2> HIDE DEF old, known
  <2> QED BY <2>1, <2>2, <2>3
<1>2. /\ Append(ex, x)[Len(Append(ex, x))] = x
      /\ new = IF x.symbol = s /\ x.at >= from THEN old \cup {Len(ex) + 1} ELSE old
      /\ Len(ex) + 1 \notin old
  BY OneMoreExit
<1>3. Unwritten(d, Append(ex, x), s, from) = IF x.symbol = s /\ x.at >= from THEN 1 ELSE 0
  BY <1>2 DEF Unwritten
<1> HIDE DEF new, old, known
<1>4. CASE x.symbol = s /\ x.at >= from
  <2>1. Cardinality(new) = Cardinality(old) + 1
    BY <1>1, <1>2, <1>4, FS_AddElement
  <2> QED BY <1>1, <1>3, <1>4, <2>1 DEF new, known
<1>5. CASE ~(x.symbol = s /\ x.at >= from)
  BY <1>1, <1>2, <1>3, <1>5 DEF new, known
<1> QED BY <1>4, <1>5

\* An exit let through on counters that were read keeps the pace.
LEMMA PacedExit ==
    ASSUME ZoneOffset <= 0, PaceInv, exitCycle.pc = "close", NEW x,
           x.symbol = exitCycle.trade.symbol, x.at = clock, x.guards = exitCycle.guards,
           x.torn = exitCycle.torn, x.blind = exitCycle.blind
    PROVE  Paced(Append(exits, x), exitBudget.faults)
<1> DEFINE ex == exits
           fx == Append(exits, x)
           l == Len(exits)
           s == x.symbol
           start == StartOfDay(exitCycle.now)
           f == exitBudget.faults
<1>1. /\ DOMAIN ex = 1..l /\ l \in Nat
      /\ \A T \in SUBSET (DOMAIN ex) : IsFiniteSet(T) /\ Cardinality(T) \in Nat
  BY ExitsSize DEF PaceInv
<1>2. /\ DOMAIN fx = DOMAIN ex \cup {l + 1} /\ fx[l + 1] = x
      /\ \A m \in DOMAIN ex : fx[m] = ex[m]
  BY OneMoreExit DEF PaceInv
<1>3. /\ exitCycle.now \in Nat /\ exitCycle.now <= clock /\ clock \in Nat /\ f \in Nat
      /\ Passed(exitCycle, Closings) /\ Guarded(exitCycle)
      /\ exitCycle.trade \in Trade
  BY DEF PaceInv, CycleOK, Awake, OnTrade, BudgetOK
<1>4. s \in Symbols
  BY <1>3 DEF Trade
<1>5. \A m \in DOMAIN ex : ex[m].at \in Nat /\ ex[m].at <= clock
  BY DEF PaceInv, ExitsOK
<1> HIDE DEF ex, fx, l
<1>6. ASSUME NEW n \in DOMAIN ex, ~fx[n].torn, ~fx[n].blind
      PROVE  /\ Cardinality({m \in Before(fx, n) : SameDay(fx[m].at, fx[n].at)}) + 1
                  <= fx[n].guards.perDay + f
             /\ f = 0 => \A m \in Before(fx, n) : fx[n].at - fx[m].at >= fx[n].guards.cooldown
  <2>1. Before(fx, n) = Before(ex, n) /\ Before(ex, n) \subseteq DOMAIN ex
    BY <1>1, <1>2 DEF Before
  <2>2. {m \in Before(fx, n) : SameDay(fx[m].at, fx[n].at)}
          = {m \in Before(ex, n) : SameDay(ex[m].at, ex[n].at)}
    BY <1>2, <2>1
  <2>3. Paced(ex, f)
    BY DEF PaceInv, ex
  <2>4. ~ex[n].torn /\ ~ex[n].blind /\ fx[n] = ex[n]
    BY <1>2, <1>6
  <2> QED BY <1>2, <2>1, <2>2, <2>3, <2>4 DEF Paced
<1>7. ASSUME ~x.torn, ~x.blind
      PROVE  /\ Cardinality({m \in Before(fx, l + 1) : SameDay(fx[m].at, x.at)}) + 1
                  <= x.guards.perDay + f
             /\ f = 0 => \A m \in Before(fx, l + 1) : x.at - fx[m].at >= x.guards.cooldown
  <2> DEFINE same == {m \in Before(fx, l + 1) : SameDay(fx[m].at, x.at)}
  <2>1. Before(fx, l + 1) = {m \in DOMAIN ex : ex[m].symbol = s}
    BY <1>1, <1>2 DEF Before
  <2>2. /\ x.guards.perDay \in Nat /\ x.guards.cooldown \in Nat
        /\ Cardinality(RowsSince(Closings, s, start)) < x.guards.perDay
        /\ x.guards.cooldown > 0 =>
              \A r \in Closings : r.symbol = s => exitCycle.now - r.at >= x.guards.cooldown
    BY <1>3, <1>7 DEF Passed, Guarded
  <2>3. ASSUME NEW from \in Int
        PROVE  /\ Cardinality(ExitsSince(ex, s, from))
                    <= Cardinality(RowsSince(Closings, s, from)) + f
               /\ Cardinality(ExitsSince(ex, s, from)) \in Nat
               /\ IsFiniteSet(ExitsSince(ex, s, from))
               /\ Cardinality(RowsSince(Closings, s, from)) \in Nat
               /\ IsFiniteSet(RowsSince(Closings, s, from))
    <3>1. Unwritten(exitCycle, exits, s, from) = 0
      BY DEF Unwritten
    <3>2. Cardinality(ExitsSince(exits, s, from))
            <= Cardinality(RowsSince(Closings, s, from)) + f
                 + Unwritten(exitCycle, exits, s, from)
      BY <1>4 DEF PaceInv, Counted
    <3>3. /\ Cardinality(ExitsSince(exits, s, from)) \in Nat
          /\ IsFiniteSet(ExitsSince(exits, s, from))
          /\ Cardinality(RowsSince(Closings, s, from)) \in Nat
          /\ IsFiniteSet(RowsSince(Closings, s, from))
      BY SinceSize DEF PaceInv
    <3> QED BY <1>3, <3>1, <3>2, <3>3 DEF ex
  <2>4. Cardinality(same) + 1 <= x.guards.perDay + f
    <3>1. ASSUME NEW m \in same PROVE m \in ExitsSince(ex, s, start)
      <4>1. m \in DOMAIN ex /\ ex[m].symbol = s /\ SameDay(ex[m].at, clock)
        BY <1>2, <2>1, <3>1
      <4>2. start <= ex[m].at
        BY <1>3, <1>5, <4>1, DayHasBegun
      <4>3. start \in Int /\ ex[m].at \in Int
        BY <1>3, <1>5, <4>1, DayHasBegun
      <4> HIDE DEF start
      <4> QED BY <4>1, <4>2, <4>3 DEF ExitsSince
    <3>2. CASE same = {}
      <4>1. Cardinality(same) = 0
        BY <3>2, FS_EmptySet
      <4> HIDE DEF same
      <4>2. Cardinality(RowsSince(Closings, s, start)) \in Nat
        BY SinceSize DEF PaceInv
      <4> QED BY <1>3, <2>2, <4>1, <4>2
    <3>3. CASE same # {}
      <4>1. PICK m \in same : TRUE
        BY <3>3
      <4>2. m \in DOMAIN ex /\ ex[m].symbol = s /\ SameDay(ex[m].at, clock)
        BY <1>2, <2>1, <4>1
      <4>3. start \in Int
        BY <1>3, <1>5, <4>2, DayHasBegun
      <4>4. same \subseteq ExitsSince(ex, s, start)
        BY <3>1
      <4> HIDE DEF same, start
      <4>5. /\ IsFiniteSet(same) /\ Cardinality(same) \in Nat
            /\ Cardinality(same) <= Cardinality(ExitsSince(ex, s, start))
        BY <2>3, <4>3, <4>4, FS_Subset, FS_CardinalityType
      <4> QED BY <1>3, <2>2, <2>3, <4>3, <4>5
    <3> QED BY <3>2, <3>3
  <2>5. ASSUME f = 0, NEW m \in Before(fx, l + 1) PROVE x.at - fx[m].at >= x.guards.cooldown
    <3> DEFINE from == ex[m].at
    <3>1. m \in DOMAIN ex /\ ex[m].symbol = s /\ fx[m] = ex[m] /\ from \in Nat /\ from <= clock
      BY <1>2, <1>5, <2>1, <2>5
    <3>2. m \in ExitsSince(ex, s, from)
      BY <3>1 DEF ExitsSince
    <3> HIDE DEF from
    <3>3. RowsSince(Closings, s, from) # {}
      <4> SUFFICES ASSUME RowsSince(Closings, s, from) = {} PROVE FALSE
        OBVIOUS
      <4>1. Cardinality(RowsSince(Closings, s, from)) = 0
        BY FS_EmptySet
      <4>2. Cardinality(ExitsSince(ex, s, from)) = 0
        <5>1. from \in Int
          BY <3>1
        <5>2. /\ Cardinality(ExitsSince(ex, s, from)) <= 0 + f
              /\ Cardinality(ExitsSince(ex, s, from)) \in Nat
          BY <2>3, <4>1, <5>1
        <5> QED BY <2>5, <5>2
      <4>3. ExitsSince(ex, s, from) = {}
        BY <2>3, <3>1, <4>2, FS_EmptySet
      <4> QED BY <3>2, <4>3
    <3>4. PICK r \in RowsSince(Closings, s, from) : TRUE
      BY <3>3
    <3>5. r \in Closings /\ r.symbol = s /\ r.at >= from
      BY DEF RowsSince
    <3>6. r.at \in Nat
      BY <3>5 DEF PaceInv, RowsOK
    <3>7. CASE x.guards.cooldown > 0
      <4>1. exitCycle.now - r.at >= x.guards.cooldown
        BY <2>2, <3>5, <3>7
      <4>2. clock - from >= x.guards.cooldown
        BY <1>3, <2>2, <3>1, <3>5, <3>6, <4>1
      <4> QED BY <3>1, <4>2 DEF from
    <3>8. CASE x.guards.cooldown = 0
      <4>1. clock - from >= 0
        BY <1>3, <3>1
      <4> QED BY <3>1, <3>8, <4>1 DEF from
    <3> QED BY <2>2, <3>7, <3>8
  <2> QED BY <2>4, <2>5
<1>8. SUFFICES ASSUME NEW n \in DOMAIN fx, ~fx[n].torn, ~fx[n].blind
               PROVE  /\ Cardinality({m \in Before(fx, n) : SameDay(fx[m].at, fx[n].at)}) + 1
                           <= fx[n].guards.perDay + f
                      /\ f = 0 => \A m \in Before(fx, n) :
                                      fx[n].at - fx[m].at >= fx[n].guards.cooldown
  BY DEF Paced, fx, ex
<1>9. CASE n \in DOMAIN ex
  BY <1>6, <1>8, <1>9
<1>10. CASE n = l + 1
  BY <1>2, <1>7, <1>8, <1>10
<1> QED BY <1>2, <1>9, <1>10

LEMMA ForceIsAStep ==
    ASSUME NEW s \in Symbols, NEW r \in {"TIME_EXIT", "NEWS_EARLY_EXIT"},
           ForceClosePosition(s, 0, r)
    PROVE  Next
BY DEF Next

LEMMA CloseNowStep ==
    ASSUME ZoneOffset <= 0, PaceInv, CloseNow
    PROVE  PaceInv'
<1> DEFINE c == exitCycle
           s == c.trade.symbol
           n == exitBudget.cycles
           x == [id |-> positions[s].id, judged |-> c.trade.id, symbol |-> s, at |-> clock,
                 age |-> clock - born[positions[s].id], guards |-> c.guards,
                 torn |-> c.torn, blind |-> c.blind]
           d == [c EXCEPT !.pc = "record", !.closed = positions[s]]
<1>1. /\ c.pc = "close" /\ ForceClosePosition(s, 0, "NEWS_EARLY_EXIT")
      /\ UNCHANGED <<clock, savedGuards, exitBudget>>
  BY DEF CloseNow
<1>2. /\ DOMAIN c = CycleFields /\ Awake(c, Closings, n, savedGuards, clock)
      /\ OnStory(c, Closings, n) /\ OnTrade(c, Closings, n) /\ Guarded(c)
      /\ c.trade \in Trade
  BY <1>1 DEF PaceInv, CycleOK, Awake, OnTrade
<1>3. s \in Symbols
  BY <1>2 DEF Trade
<1>4. (TypeOK /\ OrdersSettledOnce)'
  BY <1>1, <1>3, ForceIsAStep, EngineKept DEF PaceInv
<1>5. CASE IsOpen(s)
  <2>1. exitCycle' = d /\ exits' = Append(exits, x) /\ Closings' = Closings
    BY <1>5 DEF CloseNow, Closings
  <2>2. /\ x.symbol = s /\ x.at = clock /\ x.guards = c.guards /\ x.torn = c.torn
        /\ x.blind = c.blind
    OBVIOUS
  <2>3. /\ DOMAIN d = CycleFields /\ d.now = c.now /\ d.trades = c.trades
        /\ d.cfg = c.cfg /\ d.torn = c.torn /\ d.left = c.left
        /\ d.story = c.story /\ d.eligible = c.eligible
        /\ d.guards = c.guards /\ d.pc = "record" /\ d.trade = c.trade
    BY <1>2 DEF CycleFields
  <2> HIDE DEF d, x
  <2>4. Paced(Append(exits, x), exitBudget.faults)
    BY <1>1, <2>2, PacedExit
  <2> HIDE DEF n
  <2>5. CycleOK(d, Closings, n, savedGuards, clock)
    <3>1. Awake(d, Closings, n, savedGuards, clock)
      BY <1>2, <2>3 DEF Awake
    <3>2. OnStory(d, Closings, n)
      BY <1>2, <2>3 DEF OnStory
    <3>3. OnTrade(d, Closings, n)
      BY <1>2, <2>3 DEF OnTrade
    <3>4. Guarded(d)
      BY <1>2, <2>3 DEF Guarded
    <3> QED BY <2>3, <3>1, <3>2, <3>3, <3>4 DEF CycleOK
  <2>6. Counted(d, Append(exits, x), Closings, exitBudget.faults)
    BY <1>1, <2>3, CountedExit DEF PaceInv, BudgetOK
  <2>7. ExitsOK(Append(exits, x), clock)
    <3>1. PICK S : exits \in Seq(S)
      BY DEF PaceInv, ExitsOK
    <3>2. Append(exits, x) \in Seq(S \cup {x})
      <4>1. exits \in Seq(S \cup {x}) /\ x \in S \cup {x}
        BY <3>1
      <4> QED BY <4>1
    <3>3. /\ DOMAIN Append(exits, x) = DOMAIN exits \cup {Len(exits) + 1}
          /\ Append(exits, x)[Len(exits) + 1] = x
          /\ \A m \in DOMAIN exits : Append(exits, x)[m] = exits[m]
      BY OneMoreExit DEF PaceInv
    <3>4. /\ x.at \in Nat /\ x.at <= clock
          /\ x.guards.perDay \in Int /\ x.guards.cooldown \in Int
      BY <1>2, <2>2 DEF Guarded, PaceInv
    <3> QED BY <3>2, <3>3, <3>4 DEF PaceInv, ExitsOK
  <2>8. /\ Len(Append(exits, x)) > 0
        /\ Append(exits, x)[Len(Append(exits, x))].symbol = d.trade.symbol
    BY <2>2, <2>3, OneMoreExit, ExitsSize DEF PaceInv
  <2>9. BudgetOK' /\ RowsOK(Closings, exitBudget.cycles, clock) /\ clock \in Nat
        /\ savedGuards \in GuardConfigs
    BY <1>1 DEF PaceInv, BudgetOK
  <2> QED BY <1>1, <1>4, <2>1, <2>4, <2>5, <2>6, <2>7, <2>8, <2>9 DEF PaceInv, n
<1>6. CASE ~IsOpen(s)
  <2>1. /\ Errors({c.trade}) /\ Settle(c) /\ exits' = exits /\ UNCHANGED vars
    BY <1>1, <1>6 DEF CloseNow, ForceClosePosition
  <2>2. Closings' = Closings
    BY <2>1, NoClosing
  <2>3. BudgetOK' /\ exitBudget.faults <= exitBudget'.faults /\ c.pc # "record"
    BY <1>1 DEF PaceInv, BudgetOK
  <2> QED BY <1>1, <1>2, <2>1, <2>2, <2>3, SettlingStep
<1> QED BY <1>5, <1>6

LEMMA RecordStep ==
    ASSUME PaceInv, NEW works \in BOOLEAN, RecordEarlyExitClose(works)
    PROVE  PaceInv'
<1> DEFINE c == exitCycle
           n == exitBudget.cycles
           f == exitBudget.faults
           g == exitBudget'.faults
           row == VerdictRow(c.trade, "closed")
<1>1. /\ c.pc = "record" /\ Settle(c) /\ Faults(Lost(works))
      /\ UNCHANGED <<vars, clock, savedGuards, exits>>
  BY DEF RecordEarlyExitClose
<1>2. /\ DOMAIN c = CycleFields /\ Awake(c, Closings, n, savedGuards, clock)
      /\ OnStory(c, Closings, n) /\ OnTrade(c, Closings, n) /\ Guarded(c)
  BY <1>1 DEF PaceInv, CycleOK
<1>3. /\ BudgetOK' /\ exitBudget'.cycles = n /\ g = f + Lost(works)
      /\ f \in Nat /\ g \in Nat /\ n \in Nat
  <2>1. Lost(works) \in Nat
    BY LostIsCount
  <2> QED BY <1>1, <2>1, FaultsCount DEF PaceInv, BudgetOK
<1>4. f <= g
  BY <1>3, LostIsCount
<1>5. (TypeOK /\ OrdersSettledOnce)'
  BY <1>1, EngineKept DEF PaceInv
<1>6. Paced(exits, g)
  BY <1>3, <1>4, PacedStays DEF PaceInv
<1>7. /\ Len(exits) > 0 /\ exits[Len(exits)].symbol = c.trade.symbol
      /\ exits[Len(exits)].at \in Nat /\ exits[Len(exits)].at <= clock /\ clock \in Nat
  BY <1>1, ExitsSize DEF PaceInv, ExitsOK
<1>8. /\ row.id = c.trade.id /\ row.symbol = c.trade.symbol /\ row.story = c.story
      /\ row.action = "closed" /\ row.at = clock /\ row.cycle = n
  BY DEF VerdictRow
<1>9. SUFFICES /\ RowsOK(Closings', n, clock)
               /\ CycleOK(exitCycle', Closings', n, savedGuards, clock)
               /\ exitCycle'.pc # "record"
               /\ \A s \in Symbols, from \in Int :
                     Cardinality(RowsSince(Closings, s, from)) + f + Unwritten(c, exits, s, from)
                       <= Cardinality(RowsSince(Closings', s, from)) + g
  <2>1. ASSUME NEW s \in Symbols, NEW from \in Int
        PROVE  Cardinality(ExitsSince(exits, s, from))
                 <= Cardinality(RowsSince(Closings', s, from)) + g
                      + Unwritten(exitCycle', exits, s, from)
    <3> DEFINE a == Cardinality(ExitsSince(exits, s, from))
               b == Cardinality(RowsSince(Closings, s, from))
               e == Cardinality(RowsSince(Closings', s, from))
    <3>1. a \in Nat /\ b \in Nat
      BY SinceSize DEF PaceInv
    <3>2. e \in Nat
      BY <1>9, SinceSize DEF PaceInv
    <3>3. Unwritten(exitCycle', exits, s, from) = 0 /\ Unwritten(c, exits, s, from) \in {0, 1}
      BY <1>9 DEF Unwritten
    <3>4. a <= b + f + Unwritten(c, exits, s, from)
      BY DEF PaceInv, Counted
    <3>5. b + f + Unwritten(c, exits, s, from) <= e + g
      BY <1>9
    <3> HIDE DEF a, b, e, f, g
    <3> QED BY <1>3, <3>1, <3>2, <3>3, <3>4, <3>5 DEF a, e
  <2>2. Counted(exitCycle', exits, Closings', g)
    BY <2>1 DEF Counted
  <2> QED BY <1>1, <1>3, <1>5, <1>6, <1>9, <2>2 DEF PaceInv
<1>10. CASE works
  <2>1. Closings' = Closings \cup {row}
    <3>1. verdictRows' = verdictRows \cup {row}
      BY <1>10 DEF RecordEarlyExitClose
    <3> HIDE DEF row
    <3> QED BY <1>8, <3>1 DEF Closings
  <2>2. row \notin Closings
    BY <1>2, <1>8 DEF OnTrade, OfCycle
  <2> HIDE DEF row
  <2>3. g = f
    BY <1>3, <1>10 DEF Lost
  <2>4. RowsOK(Closings', n, clock)
    BY <1>3, <1>7, <1>8, <2>1, FS_AddElement DEF PaceInv, RowsOK
  <2>5. Awake(c, Closings', n, savedGuards, clock)
    BY <1>2, <1>8, <2>1 DEF Awake, OnStory, OfCycle
  <2>6. OnStory(c, Closings', n)
    <3>1. \A t \in c.eligible : t.id # c.trade.id
      BY <1>2 DEF Awake, OnStory, OnTrade
    <3> QED BY <1>2, <1>8, <2>1, <3>1 DEF OnStory, OfCycle
  <2>7. CycleOK(exitCycle', Closings', n, savedGuards, clock) /\ exitCycle'.pc # "record"
    <3> HIDE DEF c, n
    <3> QED BY <1>1, <1>2, <2>5, <2>6, SettleOK
  <2>8. ASSUME NEW s \in Symbols, NEW from \in Int
        PROVE  Cardinality(RowsSince(Closings, s, from)) + f + Unwritten(c, exits, s, from)
                 <= Cardinality(RowsSince(Closings', s, from)) + g
    <3> DEFINE old == RowsSince(Closings, s, from)
               new == RowsSince(Closings', s, from)
    <3>1. Cardinality(old) \in Nat /\ IsFiniteSet(old)
      BY SinceSize DEF PaceInv
    <3>2. row \notin old
      BY <2>2 DEF RowsSince
    <3>3. CASE row.symbol = s /\ row.at >= from
      <4>1. new = old \cup {row}
        BY <2>1, <3>3 DEF RowsSince
      <4> HIDE DEF old, new
      <4>2. Cardinality(new) = Cardinality(old) + 1
        BY <3>1, <3>2, <4>1, FS_AddElement
      <4>3. Unwritten(c, exits, s, from) \in {0, 1}
        BY DEF Unwritten
      <4> HIDE DEF f, g
      <4> QED BY <1>3, <2>3, <3>1, <4>2, <4>3 DEF old, new
    <3>4. CASE ~(row.symbol = s /\ row.at >= from)
      <4>1. new = old
        BY <2>1, <3>4 DEF RowsSince
      <4>2. Unwritten(c, exits, s, from) = 0
        BY <1>7, <1>8, <3>4 DEF Unwritten
      <4> HIDE DEF old, new, f, g
      <4> QED BY <1>3, <2>3, <3>1, <4>1, <4>2 DEF old, new
    <3> QED BY <3>3, <3>4
  <2> QED BY <2>4, <2>7, <2>8
<1>11. CASE ~works
  <2>1. Closings' = Closings
    BY <1>11, NoClosing DEF RecordEarlyExitClose
  <2>2. g = f + 1
    BY <1>3, <1>11 DEF Lost
  <2>3. CycleOK(exitCycle', Closings, n, savedGuards, clock) /\ exitCycle'.pc # "record"
    <3> HIDE DEF c, n
    <3> QED BY <1>1, <1>2, SettleOK
  <2>4. ASSUME NEW s \in Symbols, NEW from \in Int
        PROVE  Cardinality(RowsSince(Closings, s, from)) + f + Unwritten(c, exits, s, from)
                 <= Cardinality(RowsSince(Closings, s, from)) + g
    <3>1. Cardinality(RowsSince(Closings, s, from)) \in Nat
      BY SinceSize DEF PaceInv
    <3>2. Unwritten(c, exits, s, from) \in {0, 1}
      BY DEF Unwritten
    <3> HIDE DEF f, g
    <3> QED BY <1>3, <2>2, <3>1, <3>2
  <2>5. RowsOK(Closings, n, clock)
    BY DEF PaceInv
  <2> QED BY <2>1, <2>3, <2>4, <2>5
<1> QED BY <1>10, <1>11

---------------------------------------------------------------------------
(* The theorem *)

LEMMA PaceInit == EarlyExitInit => PaceInv
<1> SUFFICES ASSUME EarlyExitInit PROVE PaceInv
  OBVIOUS
<1>1. TypeOK /\ OrdersSettledOnce
  BY TypeInit DEF EarlyExitInit, Init, OrdersSettledOnce, IsOpen
<1>2. Closings = {} /\ exits = << >>
  BY DEF Closings, EarlyExitInit
<1>3. ExitsOK(exits, clock)
  <2>1. exits \in Seq({0}) /\ DOMAIN exits = {}
    BY <1>2
  <2> QED BY <2>1 DEF ExitsOK
<1>4. RowsOK(Closings, exitBudget.cycles, clock)
  BY <1>2, FS_EmptySet DEF RowsOK
<1>5. /\ DOMAIN exitCycle = CycleFields /\ exitCycle.pc = "sleep"
  BY DEF EarlyExitInit, Sleeping, CycleFields
<1>6. BudgetOK /\ clock \in Nat /\ savedGuards \in GuardConfigs /\ exitBudget.faults = 0
  BY DEF EarlyExitInit, BudgetOK
<1>7. CycleOK(exitCycle, Closings, exitBudget.cycles, savedGuards, clock)
  BY <1>5 DEF CycleOK
<1>8. Counted(exitCycle, exits, Closings, exitBudget.faults)
  <2> SUFFICES ASSUME NEW s \in Symbols, NEW from \in Int
               PROVE  Cardinality(ExitsSince(exits, s, from))
                        <= Cardinality(RowsSince(Closings, s, from)) + exitBudget.faults
                             + Unwritten(exitCycle, exits, s, from)
    BY DEF Counted
  <2>1. ExitsSince(exits, s, from) = {} /\ RowsSince(Closings, s, from) = {}
    BY <1>2 DEF ExitsSince, RowsSince
  <2>2. Unwritten(exitCycle, exits, s, from) = 0
    BY <1>5 DEF Unwritten
  <2> QED BY <1>6, <2>1, <2>2, FS_EmptySet
<1>9. Paced(exits, exitBudget.faults)
  BY <1>2 DEF Paced
<1> QED BY <1>1, <1>3, <1>4, <1>5, <1>6, <1>7, <1>8, <1>9 DEF PaceInv

LEMMA PaceStep ==
    ASSUME ZoneOffset <= 0, PaceInv, [EarlyExitNext]_<<vars, exitVars>>
    PROVE  PaceInv'
<1>1. CASE UNCHANGED <<vars, exitVars>>
  BY <1>1, BesideStep DEF PaceInv, exitVars
<1>2. CASE EvaluateCycle
  <2>1. CASE BeginCycle
    BY <2>1, BeginCycleStep
  <2>2. CASE \E k \in Stories, unread \in SUBSET exitCycle.trades : PickStory(k, unread)
    BY <2>2, PickStoryStep
  <2>3. CASE CoreFails
    BY <2>3, CoreFailsStep
  <2>4. CASE \E answers \in GuardAnswers : CoreAnswers(answers)
    BY <2>4, CoreAnswersStep
  <2>5. CASE \E t \in exitCycle.eligible :
                \/ NoVerdict(t)
                \/ \E v \in Verdicts, stored \in BOOLEAN : Verdict(t, v, stored)
    BY <2>5, NoVerdictStep, VerdictStep
  <2>6. CASE \E readsLast, readsCount, stored \in BOOLEAN :
                CheckGuards(readsLast, readsCount, stored)
    BY <2>6, CheckGuardsStep
  <2>7. CASE CloseNow
    BY <2>7, CloseNowStep
  <2>8. CASE \E works \in BOOLEAN : RecordEarlyExitClose(works)
    BY <2>8, RecordStep
  <2> QED BY <1>2, <2>1, <2>2, <2>3, <2>4, <2>5, <2>6, <2>7, <2>8 DEF EvaluateCycle
<1>3. CASE TimePasses
  <2>1. clock' \in Nat /\ clock <= clock'
    BY <1>3 DEF TimePasses, PaceInv
  <2> QED BY <1>3, <2>1, BesideStep DEF TimePasses
<1>4. CASE \E k \in Stories : Ingest(k)
  <2>1. PICK k \in Stories : Ingest(k)
    BY <1>4
  <2>2. clock' = clock /\ clock \in Nat /\ UNCHANGED vars
    BY <2>1 DEF Ingest, PaceInv
  <2> QED BY <2>1, <2>2, BesideStep DEF Ingest
<1>5. CASE \E sig \in Offers : OpensTrade(sig)
  <2>1. PICK sig \in Offers : OpensTrade(sig)
    BY <1>5
  <2>2. Next /\ clock' = clock /\ clock \in Nat
    BY <2>1 DEF OpensTrade, Next, PaceInv
  <2> QED BY <2>1, <2>2, BesideStep DEF OpensTrade
<1>6. CASE \E s \in Symbols : OtherCloser(s)
  <2>1. PICK s \in Symbols : OtherCloser(s)
    BY <1>6
  <2>2. Next /\ clock' = clock /\ clock \in Nat
    BY <2>1, ForceIsAStep DEF OtherCloser, PaceInv
  <2> QED BY <2>1, <2>2, BesideStep DEF OtherCloser
<1>7. CASE \E guards \in GuardConfigs : SaveGuards(guards)
  BY <1>7, SaveGuardsStep
<1> QED BY <1>1, <1>2, <1>3, <1>4, <1>5, <1>6, <1>7 DEF EarlyExitNext

LEMMA PaceFromInv == PaceInv => PaceHolds
BY DEF PaceInv, Paced, PaceHolds, Before, Earlier

\* The bookkeeping of the worker, for any symbols, clusters, settings, answers
\* and failures, on a host whose clock is not ahead of UTC.
THEOREM PaceInvariant ==
    ASSUME ZoneOffset <= 0
    PROVE  EarlyExitSpec => []PaceInv
<1>1. PaceInv /\ [EarlyExitNext]_<<vars, exitVars>> => PaceInv'
  BY PaceStep
<1> QED BY <1>1, PaceInit, PTL DEF EarlyExitSpec

\* An exit that read its counters, in a cycle no save tore, is within the
\* day's budget and the cooldown, whatever came before it.
THEOREM PaceIsHeld ==
    ASSUME ZoneOffset <= 0
    PROVE  EarlyExitSpec => []PaceHolds
  BY PaceInvariant, PaceFromInv, PTL

---------------------------------------------------------------------------
(* Types of the early exits *)

Stages == {"sleep", "story", "core", "judge", "guards", "close", "record"}

\* The trades a cycle works on are trades, and so is the one at hand.
HeldTrades(c) ==
    /\ DOMAIN c = CycleFields /\ c.pc \in Stages
    /\ c.trades \subseteq Trade /\ c.eligible \subseteq c.trades
    /\ c.pc \in {"guards", "close", "record"} => c.trade \in Trade

RowActions(rows) == \A r \in rows : r.action \in Terminal \cup {"error"}

ExitTypes ==
    /\ TypeOK /\ OrdersSettledOnce
    /\ clock \in 0..MaxTime /\ savedGuards \in GuardConfigs
    /\ HeldTrades(exitCycle) /\ RowActions(verdictRows)

LEMMA SettleKeepsTrades ==
    ASSUME NEW c, DOMAIN c = CycleFields, c.trades \subseteq Trade,
           c.eligible \subseteq c.trades, Settle(c)
    PROVE  HeldTrades(exitCycle')
<1>1. CASE c.left = {} /\ c.eligible = {}
  BY <1>1 DEF Settle, HeldTrades, Sleeping, CycleFields, Stages
<1>2. CASE ~(c.left = {} /\ c.eligible = {})
  <2> DEFINE d == [c EXCEPT !.pc = IF c.eligible = {} THEN "story" ELSE "judge",
                            !.trade = NoTrade, !.conf = 0, !.closed = NoTrade]
  <2>1. exitCycle' = d
    BY <1>2 DEF Settle
  <2>2. /\ DOMAIN d = CycleFields /\ d.pc \in {"story", "judge"}
        /\ d.trades = c.trades /\ d.eligible = c.eligible
    BY DEF CycleFields
  <2> HIDE DEF d
  <2> QED BY <2>1, <2>2 DEF HeldTrades, Stages
<1> QED BY <1>1, <1>2

LEMMA RowsKeepActions ==
    ASSUME RowActions(verdictRows)
    PROVE  /\ \A trades : Errors(trades) => RowActions(verdictRows')
           /\ \A t, stored : verdictRows' = verdictRows \cup Skipped(t, stored)
                 => RowActions(verdictRows')
           /\ \A t : verdictRows' = verdictRows \cup {VerdictRow(t, "closed")}
                 => RowActions(verdictRows')
  BY DEF RowActions, Errors, Skipped, VerdictRow, Terminal

\* What a step of the worker leaves alone, and what it must show of the rest.
LEMMA WorkerStep ==
    ASSUME ExitTypes, UNCHANGED <<vars, clock, savedGuards>>,
           HeldTrades(exitCycle'), RowActions(verdictRows')
    PROVE  ExitTypes'
<1>1. (TypeOK /\ OrdersSettledOnce)'
  BY EngineKept DEF ExitTypes
<1> QED BY <1>1 DEF ExitTypes

LEMMA BeginTypes ==
    ASSUME ExitTypes, BeginCycle
    PROVE  ExitTypes'
<1> DEFINE held == {positions[s] : s \in {q \in Symbols : IsOpen(q)}}
           d == [Sleeping EXCEPT
                   !.pc = "story", !.cfg = savedGuards, !.now = clock, !.left = Live(clock),
                   !.trades = held]
<1>1. exitCycle' = d /\ verdictRows' = verdictRows /\ UNCHANGED <<vars, clock, savedGuards>>
  BY DEF BeginCycle
<1>2. held \subseteq Trade
  BY OpenIsTrade DEF ExitTypes
<1> HIDE DEF held
<1>3. DOMAIN d = CycleFields /\ d.pc = "story" /\ d.trades = held /\ d.eligible = {}
  BY DEF Sleeping, CycleFields
<1> HIDE DEF d
<1>4. HeldTrades(d)
  BY <1>2, <1>3 DEF HeldTrades, Stages
<1> QED BY <1>1, <1>4, WorkerStep DEF ExitTypes

LEMMA PickTypes ==
    ASSUME ExitTypes, NEW k \in Stories, NEW unread \in SUBSET exitCycle.trades,
           PickStory(k, unread)
    PROVE  ExitTypes'
<1> DEFINE judged == {t \in exitCycle.trades : HasTerminalEarlyExitJudgment(t.id, k)}
           now == (exitCycle.trades \ judged) \cup unread
           managed == savedGuards.managed \cap Guards
           asked == {t \in now : IsStillOpen(t)}
           moved == [exitCycle EXCEPT !.left = @ \ {k}, !.story = k, !.eligible = now]
           c == [moved EXCEPT !.eligible = {}]
           d == [moved EXCEPT !.pc = "core", !.asked = asked, !.guarded = managed]
<1>1. /\ verdictRows' = verdictRows /\ UNCHANGED <<vars, clock, savedGuards>>
      /\ Settle(c) \/ exitCycle' = d
  BY DEF PickStory
<1>2. now \subseteq exitCycle.trades /\ exitCycle.trades \subseteq Trade
  BY DEF ExitTypes, HeldTrades
<1> HIDE DEF now, managed, asked, judged
<1>3. /\ DOMAIN moved = CycleFields /\ moved.trades = exitCycle.trades /\ moved.eligible = now
  BY DEF ExitTypes, HeldTrades, CycleFields
<1> HIDE DEF moved
<1>4. CASE Settle(c)
  <2>1. DOMAIN c = CycleFields /\ c.trades = exitCycle.trades /\ c.eligible = {}
    BY <1>3 DEF CycleFields
  <2> HIDE DEF c
  <2>2. HeldTrades(exitCycle')
    BY <1>2, <1>4, <2>1, SettleKeepsTrades
  <2> QED BY <1>1, <2>2, WorkerStep DEF ExitTypes
<1>5. CASE exitCycle' = d
  <2>1. /\ DOMAIN d = CycleFields /\ d.pc = "core" /\ d.trades = exitCycle.trades
        /\ d.eligible = now
    BY <1>3 DEF CycleFields
  <2> HIDE DEF d
  <2>2. HeldTrades(d)
    BY <1>2, <2>1 DEF HeldTrades, Stages
  <2> QED BY <1>1, <1>5, <2>2, WorkerStep DEF ExitTypes
<1> QED BY <1>1, <1>4, <1>5

\* Some of the trades come off the list, whatever else changes.
LEMMA FewerEligible ==
    ASSUME ExitTypes, NEW c, Settle(c), DOMAIN c = CycleFields,
           c.trades = exitCycle.trades, c.eligible \subseteq exitCycle.eligible
    PROVE  HeldTrades(exitCycle')
<1>1. c.trades \subseteq Trade /\ c.eligible \subseteq c.trades
  BY DEF ExitTypes, HeldTrades
<1> QED BY <1>1, SettleKeepsTrades

LEMMA CoreTypes ==
    ASSUME ExitTypes, CoreFails \/ \E answers \in GuardAnswers : CoreAnswers(answers)
    PROVE  ExitTypes'
<1> DEFINE none == [exitCycle EXCEPT !.eligible = {}]
<1>1. DOMAIN exitCycle = CycleFields /\ RowActions(verdictRows)
  BY DEF ExitTypes, HeldTrades
<1>2. DOMAIN none = CycleFields /\ none.trades = exitCycle.trades /\ none.eligible = {}
  BY <1>1 DEF CycleFields
<1>3. UNCHANGED <<vars, clock, savedGuards>>
  BY DEF CoreFails, CoreAnswers
<1>4. ASSUME Errors(exitCycle.eligible), Settle(none) PROVE ExitTypes'
  <2> HIDE DEF none
  <2>1. HeldTrades(exitCycle')
    BY <1>2, <1>4, FewerEligible
  <2>2. RowActions(verdictRows')
    BY <1>1, <1>4, RowsKeepActions
  <2> QED BY <1>3, <2>1, <2>2, WorkerStep
<1>5. ASSUME NEW on, NEW guards, UNCHANGED verdictRows,
             Settle([exitCycle EXCEPT !.eligible = @ \cap exitCycle.asked,
                                      !.on = on, !.guards = guards])
      PROVE  ExitTypes'
  <2> DEFINE c == [exitCycle EXCEPT !.eligible = @ \cap exitCycle.asked,
                                    !.on = on, !.guards = guards]
  <2>1. /\ DOMAIN c = CycleFields /\ c.trades = exitCycle.trades
        /\ c.eligible \subseteq exitCycle.eligible
    BY <1>1 DEF CycleFields
  <2>2. Settle(c)
    BY <1>5
  <2> HIDE DEF c
  <2>3. HeldTrades(exitCycle')
    BY <2>1, <2>2, FewerEligible
  <2> QED BY <1>1, <1>3, <1>5, <2>3, WorkerStep
<1>6. CASE CoreFails
  BY <1>4, <1>6 DEF CoreFails
<1>7. CASE \E answers \in GuardAnswers : CoreAnswers(answers)
  BY <1>4, <1>5, <1>7 DEF CoreAnswers
<1> QED BY <1>6, <1>7

LEMMA JudgeTypes ==
    ASSUME ExitTypes, NEW t \in exitCycle.eligible,
           \/ NoVerdict(t)
           \/ \E v \in Verdicts, stored \in BOOLEAN : Verdict(t, v, stored)
    PROVE  ExitTypes'
<1> DEFINE rest == [exitCycle EXCEPT !.eligible = @ \ {t}]
<1>1. /\ DOMAIN exitCycle = CycleFields /\ RowActions(verdictRows)
      /\ t \in Trade /\ exitCycle.trades \subseteq Trade
      /\ exitCycle.eligible \subseteq exitCycle.trades
  BY DEF ExitTypes, HeldTrades
<1>2. /\ DOMAIN rest = CycleFields /\ rest.trades = exitCycle.trades
      /\ rest.eligible = exitCycle.eligible \ {t}
  BY <1>1 DEF CycleFields
<1>3. UNCHANGED <<vars, clock, savedGuards>>
  BY DEF NoVerdict, Verdict
<1>4. ASSUME Settle(rest), RowActions(verdictRows') PROVE ExitTypes'
  <2> HIDE DEF rest
  <2>1. HeldTrades(exitCycle')
    BY <1>2, <1>4, FewerEligible
  <2> QED BY <1>3, <1>4, <2>1, WorkerStep
<1>5. ASSUME NEW conf, UNCHANGED verdictRows,
             exitCycle' = [rest EXCEPT !.pc = "guards", !.trade = t, !.conf = conf]
      PROVE  ExitTypes'
  <2> DEFINE d == [rest EXCEPT !.pc = "guards", !.trade = t, !.conf = conf]
  <2> HIDE DEF rest
  <2>1. /\ DOMAIN d = CycleFields /\ d.pc = "guards" /\ d.trade = t
        /\ d.trades = rest.trades /\ d.eligible = rest.eligible
    BY <1>2 DEF CycleFields
  <2>2. exitCycle' = d
    BY <1>5
  <2> HIDE DEF d
  <2>3. HeldTrades(d)
    BY <1>1, <1>2, <2>1 DEF HeldTrades, Stages
  <2> QED BY <1>1, <1>3, <1>5, <2>2, <2>3, WorkerStep
<1>6. CASE NoVerdict(t)
  BY <1>1, <1>4, <1>6 DEF NoVerdict
<1>7. CASE \E v \in Verdicts, stored \in BOOLEAN : Verdict(t, v, stored)
  <2>1. PICK v \in Verdicts, stored \in BOOLEAN : Verdict(t, v, stored)
    BY <1>7
  <2>2. \/ verdictRows' = verdictRows \cup Skipped(t, stored) /\ Settle(rest)
        \/ /\ exitCycle' = [rest EXCEPT !.pc = "guards", !.trade = t, !.conf = Conf(v)]
           /\ UNCHANGED verdictRows
    BY <2>1 DEF Verdict
  <2> HIDE DEF rest
  <2> QED BY <1>1, <1>4, <1>5, <2>2, RowsKeepActions
<1> QED BY <1>6, <1>7

LEMMA GuardsTypes ==
    ASSUME ExitTypes, NEW readsLast \in BOOLEAN, NEW readsCount \in BOOLEAN,
           NEW stored \in BOOLEAN, CheckGuards(readsLast, readsCount, stored)
    PROVE  ExitTypes'
<1> DEFINE d == [exitCycle EXCEPT !.pc = "close", !.blind = ~(readsLast /\ readsCount)]
<1>1. /\ exitCycle.pc = "guards" /\ UNCHANGED <<vars, clock, savedGuards>>
      /\ \/ exitCycle' = d /\ UNCHANGED verdictRows
         \/ /\ verdictRows' = verdictRows \cup Skipped(exitCycle.trade, stored)
            /\ Settle(exitCycle)
  BY DEF CheckGuards
<1>2. /\ DOMAIN exitCycle = CycleFields /\ RowActions(verdictRows)
      /\ exitCycle.trade \in Trade /\ exitCycle.trades \subseteq Trade
      /\ exitCycle.eligible \subseteq exitCycle.trades
  BY <1>1 DEF ExitTypes, HeldTrades
<1>3. CASE exitCycle' = d /\ UNCHANGED verdictRows
  <2>1. /\ DOMAIN d = CycleFields /\ d.pc = "close" /\ d.trade = exitCycle.trade
        /\ d.trades = exitCycle.trades /\ d.eligible = exitCycle.eligible
    BY <1>2 DEF CycleFields
  <2> HIDE DEF d
  <2>2. HeldTrades(d)
    BY <1>2, <2>1 DEF HeldTrades, Stages
  <2> QED BY <1>1, <1>2, <1>3, <2>2, WorkerStep
<1>4. CASE /\ verdictRows' = verdictRows \cup Skipped(exitCycle.trade, stored)
           /\ Settle(exitCycle)
  <2>1. HeldTrades(exitCycle')
    BY <1>2, <1>4, SettleKeepsTrades
  <2>2. RowActions(verdictRows')
    BY <1>2, <1>4, RowsKeepActions
  <2> QED BY <1>1, <2>1, <2>2, WorkerStep
<1> QED BY <1>1, <1>3, <1>4

LEMMA CloseTypes ==
    ASSUME ExitTypes, CloseNow
    PROVE  Next /\ ExitTypes'
<1> DEFINE s == exitCycle.trade.symbol
           d == [exitCycle EXCEPT !.pc = "record", !.closed = positions[s]]
<1>1. /\ exitCycle.pc = "close" /\ ForceClosePosition(s, 0, "NEWS_EARLY_EXIT")
      /\ UNCHANGED <<clock, savedGuards>>
      /\ \/ exitCycle' = d /\ UNCHANGED verdictRows
         \/ Errors({exitCycle.trade}) /\ Settle(exitCycle)
  BY DEF CloseNow
<1>2. /\ DOMAIN exitCycle = CycleFields /\ RowActions(verdictRows)
      /\ exitCycle.trade \in Trade /\ exitCycle.trades \subseteq Trade
      /\ exitCycle.eligible \subseteq exitCycle.trades
  BY <1>1 DEF ExitTypes, HeldTrades
<1>3. s \in Symbols
  BY <1>2 DEF Trade
<1>4. Next
  BY <1>1, <1>3, ForceIsAStep
<1>5. (TypeOK /\ OrdersSettledOnce)'
  BY <1>4, EngineKept DEF ExitTypes
<1>6. CASE exitCycle' = d /\ UNCHANGED verdictRows
  <2>1. /\ DOMAIN d = CycleFields /\ d.pc = "record" /\ d.trade = exitCycle.trade
        /\ d.trades = exitCycle.trades /\ d.eligible = exitCycle.eligible
    BY <1>2 DEF CycleFields
  <2> HIDE DEF d
  <2>2. HeldTrades(d)
    BY <1>2, <2>1 DEF HeldTrades, Stages
  <2> QED BY <1>1, <1>2, <1>4, <1>5, <1>6, <2>2 DEF ExitTypes
<1>7. CASE Errors({exitCycle.trade}) /\ Settle(exitCycle)
  <2>1. HeldTrades(exitCycle') /\ RowActions(verdictRows')
    BY <1>2, <1>7, SettleKeepsTrades, RowsKeepActions
  <2> QED BY <1>1, <1>4, <1>5, <2>1 DEF ExitTypes
<1> QED BY <1>1, <1>6, <1>7

LEMMA RecordTypes ==
    ASSUME ExitTypes, NEW works \in BOOLEAN, RecordEarlyExitClose(works)
    PROVE  ExitTypes'
<1>1. /\ Settle(exitCycle) /\ UNCHANGED <<vars, clock, savedGuards>>
      /\ \/ verdictRows' = verdictRows \cup {VerdictRow(exitCycle.trade, "closed")}
         \/ Errors({exitCycle.trade})
  BY DEF RecordEarlyExitClose
<1>2. HeldTrades(exitCycle')
  BY <1>1, SettleKeepsTrades DEF ExitTypes, HeldTrades
<1>3. RowActions(verdictRows')
  BY <1>1, RowsKeepActions DEF ExitTypes
<1> QED BY <1>1, <1>2, <1>3, WorkerStep

LEMMA BesideTypes ==
    ASSUME ExitTypes,
           \/ TimePasses \/ (\E k \in Stories : Ingest(k))
           \/ (\E sig \in Offers : OpensTrade(sig)) \/ (\E s \in Symbols : OtherCloser(s))
           \/ \E guards \in GuardConfigs : SaveGuards(guards)
    PROVE  [Next]_vars /\ ExitTypes'
<1>1. ASSUME [Next]_vars, clock' \in 0..MaxTime,
             UNCHANGED <<savedGuards, exitCycle, verdictRows>>
      PROVE  [Next]_vars /\ ExitTypes'
  BY <1>1, EngineKept DEF ExitTypes
<1>2. CASE TimePasses
  <2>1. clock' \in 0..MaxTime
    BY <1>2, EarlyExitAssumption DEF TimePasses, ExitTypes
  <2> QED BY <1>1, <1>2, <2>1 DEF TimePasses
<1>3. CASE \E k \in Stories : Ingest(k)
  BY <1>1, <1>3 DEF Ingest, ExitTypes
<1>4. CASE \E sig \in Offers : OpensTrade(sig)
  <2>1. Next /\ UNCHANGED <<clock, savedGuards, exitCycle, verdictRows>>
    BY <1>4 DEF OpensTrade, Next
  <2> QED BY <1>1, <2>1 DEF ExitTypes
<1>5. CASE \E s \in Symbols : OtherCloser(s)
  <2>1. Next /\ UNCHANGED <<clock, savedGuards, exitCycle, verdictRows>>
    BY <1>5, ForceIsAStep DEF OtherCloser
  <2> QED BY <1>1, <2>1 DEF ExitTypes
<1>6. ASSUME NEW guards \in GuardConfigs, SaveGuards(guards)
      PROVE  [Next]_vars /\ ExitTypes'
  <2> DEFINE d == [exitCycle EXCEPT !.torn = exitCycle.pc # "sleep"]
  <2>1. /\ exitCycle' = d /\ savedGuards' = guards /\ UNCHANGED <<vars, clock, verdictRows>>
    BY <1>6 DEF SaveGuards
  <2>2. /\ DOMAIN d = CycleFields /\ d.pc = exitCycle.pc /\ d.trades = exitCycle.trades
        /\ d.eligible = exitCycle.eligible /\ d.trade = exitCycle.trade
    BY DEF ExitTypes, HeldTrades, CycleFields
  <2> HIDE DEF d
  <2>3. HeldTrades(d)
    BY <2>2 DEF ExitTypes, HeldTrades
  <2>4. (TypeOK /\ OrdersSettledOnce)'
    BY <2>1, EngineKept DEF ExitTypes
  <2> QED BY <2>1, <2>3, <2>4 DEF ExitTypes
<1> QED BY <1>2, <1>3, <1>4, <1>5, <1>6

LEMMA ExitTypesInit == ASSUME EarlyExitInit PROVE ExitTypes
<1>1. TypeOK /\ OrdersSettledOnce
  BY TypeInit DEF EarlyExitInit, Init, OrdersSettledOnce, IsOpen
<1>2. clock \in 0..MaxTime /\ savedGuards \in GuardConfigs
  BY EarlyExitAssumption DEF EarlyExitInit
<1>3. HeldTrades(exitCycle) /\ RowActions(verdictRows)
  BY DEF EarlyExitInit, Sleeping, HeldTrades, CycleFields, Stages, RowActions
<1> QED BY <1>1, <1>2, <1>3 DEF ExitTypes

\* Every step of the early exits keeps the shapes, and is a step of the engine
\* or leaves it alone.
LEMMA ExitTypesNext ==
    ASSUME ExitTypes, [EarlyExitNext]_<<vars, exitVars>>
    PROVE  [Next]_vars /\ ExitTypes'
<1>1. CASE UNCHANGED <<vars, exitVars>>
  BY <1>1, EngineKept DEF exitVars, ExitTypes
<1>2. CASE EvaluateCycle
  <2>1. CASE CloseNow
    BY <2>1, CloseTypes
  <2>2. CASE ~CloseNow
    <3>1. UNCHANGED vars
      BY <1>2, <2>2 DEF EvaluateCycle, BeginCycle, PickStory, CoreFails, CoreAnswers, NoVerdict,
                        Verdict, CheckGuards, RecordEarlyExitClose
    <3>2. ExitTypes'
      BY <1>2, <2>2, BeginTypes, PickTypes, CoreTypes, JudgeTypes, GuardsTypes, RecordTypes
         DEF EvaluateCycle
    <3> QED BY <3>1, <3>2
  <2> QED BY <2>1, <2>2
<1>3. CASE ~EvaluateCycle /\ EarlyExitNext
  BY <1>3, BesideTypes DEF EarlyExitNext
<1> QED BY <1>1, <1>2, <1>3

LEMMA ExitTypesFollow == ExitTypes => EarlyExitTypeOK
  BY DEF ExitTypes, HeldTrades, Stages, RowActions, EarlyExitTypeOK

\* The worker, whatever it reads, asks and finds closed, does nothing to the
\* account that the execution engine does not allow.
THEOREM EarlyExitImplementsEngine == EarlyExitSpec => Spec
<1>1. ExitTypes /\ [EarlyExitNext]_<<vars, exitVars>> => [Next]_vars /\ ExitTypes'
  BY ExitTypesNext
<1>2. EarlyExitInit => Init /\ ExitTypes
  BY ExitTypesInit DEF EarlyExitInit
<1> QED BY <1>1, <1>2, PTL DEF EarlyExitSpec, Spec

---------------------------------------------------------------------------
(* Profiles *)

NumbersOf(p) == DOMAIN p = DOMAIN DefaultCryptoProfile /\ \A f \in DOMAIN p : p[f] \in Int

LEMMA CompiledProfiles ==
    /\ NumbersOf(DefaultCryptoProfile) /\ ValidProfile(DefaultCryptoProfile)
    /\ NumbersOf(DefaultCommodityProfile) /\ ValidProfile(DefaultCommodityProfile)
<1>1. NumbersOf(DefaultCryptoProfile)
  BY SMT DEF NumbersOf, DefaultCryptoProfile
<1>2. NumbersOf(DefaultCommodityProfile)
  BY SMT DEF NumbersOf, DefaultCryptoProfile, DefaultCommodityProfile
<1>3. ValidProfile(DefaultCryptoProfile)
  BY SMT DEF ValidProfile, DefaultCryptoProfile
<1>4. ValidProfile(DefaultCommodityProfile)
  BY SMT DEF ValidProfile, DefaultCommodityProfile
<1> QED BY <1>1, <1>2, <1>3, <1>4

LEMMA LoadedProfiles ==
    ASSUME NEW name, NEW base, NumbersOf(base), ValidProfile(base)
    PROVE  NumbersOf(LoadedProfile(name, base)) /\ ValidProfile(LoadedProfile(name, base))
<1> DEFINE merged == MergeProfile(base, ProfileFile[name])
<1>1. ASSUME name \in DOMAIN ProfileFile PROVE NumbersOf(merged)
  <2>1. \A f \in DOMAIN ProfileFile[name] : ProfileFile[name][f] \in Int
    BY <1>1, ProfileFileAssumption
  <2> QED BY <2>1 DEF NumbersOf, MergeProfile
<1> HIDE DEF merged
<1>2. \/ LoadedProfile(name, base) = base
      \/ /\ LoadedProfile(name, base) = merged
         /\ name \in DOMAIN ProfileFile /\ ValidProfile(merged)
  BY DEF LoadedProfile, merged
<1> QED BY <1>1, <1>2

LEMMA ProfileNumbers ==
    ASSUME NEW bucket
    PROVE  LET p == ProfileForBucket(bucket)
           IN  /\ p.slMin \in Int /\ p.slMax \in Int /\ 0 < p.slMin /\ p.slMin <= p.slMax
               /\ p.slAtr \in Int /\ p.slSwing \in Int
               /\ p.tp1Atr \in Int /\ p.tp2Atr \in Int
               /\ p.hourlyVol \in Int /\ p.liqBuffer \in Int /\ p.liqBuffer >= 1
               /\ p.risk \in Int
               /\ DOMAIN p = DOMAIN DefaultCryptoProfile
<1> DEFINE p == ProfileForBucket(bucket)
<1>1. NumbersOf(p) /\ ValidProfile(p)
  BY CompiledProfiles, LoadedProfiles DEF ProfileForBucket
<1> HIDE DEF p
<1>2. {"slMin", "slMax", "slAtr", "slSwing", "tp1Atr", "tp2Atr", "hourlyVol", "liqBuffer",
       "risk"} \subseteq DOMAIN DefaultCryptoProfile
  BY DEF DefaultCryptoProfile
<1>3. /\ p.slMin \in Int /\ p.slMax \in Int /\ 0 < p.slMin /\ p.slMin <= p.slMax
      /\ p.slAtr \in Int /\ p.slSwing \in Int
      /\ p.tp1Atr \in Int /\ p.tp2Atr \in Int
      /\ p.hourlyVol \in Int /\ p.liqBuffer \in Int /\ p.liqBuffer >= 1
      /\ p.risk \in Int
      /\ DOMAIN p = DOMAIN DefaultCryptoProfile
  BY <1>1, <1>2 DEF NumbersOf, ValidProfile
<1> QED BY <1>3 DEF p

---------------------------------------------------------------------------
(* Stop, leverage and margin *)

LEMMA WholeIsPositive == Whole \in Nat \ {0}
  BY SMT DEF Whole

LEMMA StopIsANumber ==
    ASSUME NEW natr \in Nat, NEW bucket
    PROVE  ATRStop(natr, ProfileForBucket(bucket)) \in Int
<1> DEFINE p == ProfileForBucket(bucket)
<1>1. p.slMin \in Int /\ p.slMax \in Int /\ p.slAtr \in Int /\ p.slSwing \in Int
  BY ProfileNumbers
<1> HIDE DEF p
<1>2. ((p.slAtr + p.slSwing) * natr) \div 100 \in Int
  BY <1>1
<1> QED BY <1>1, <1>2, WholeIsPositive DEF ATRStop, Within, p

LEMMA StopWithinBounds ==
    ASSUME NEW natr \in Nat, NEW bucket
    PROVE  StopDistance(natr, ProfileForBucket(bucket)) \in Env.minSL..Env.maxSL
  BY StopIsANumber, EntryRulesAssumption DEF StopDistance, Within

LEMMA ProductsInOrder ==
    ASSUME NEW a \in Int, NEW b \in Int, NEW d \in Nat, a <= b
    PROVE  a * d \in Int /\ b * d \in Int /\ a * d <= b * d
  OBVIOUS

BufferKept(l, sl, bucket) == l * (5000 + ProfileForBucket(bucket).liqBuffer * sl) <= Whole

\* The leverage keeps the buffer, or is the smallest there is.
LEMMA LeverageKeepsBuffer ==
    ASSUME NEW sl \in Nat \ {0}, NEW asked \in Int, NEW bucket
    PROVE  LET p == ProfileForBucket(bucket)
               l == LeverageWithinBuffer(sl, asked, p)
           IN  /\ l \in Nat \ {0}
               /\ l = 1 \/ BufferKept(l, sl, bucket)
<1> DEFINE p == ProfileForBucket(bucket)
           kept == {l \in 1..asked : LiquidationBufferOK(sl, l, p)}
           top == Max(kept)
<1>1. p.liqBuffer \in Int /\ p.liqBuffer >= 1
  BY ProfileNumbers
<1> HIDE DEF p
<1>2. CASE kept = {}
  BY <1>2 DEF LeverageWithinBuffer, p
<1>3. CASE kept # {}
  <2>1. top \in kept
    <3>1. kept \in SUBSET Int /\ \A l \in kept : l <= asked
      OBVIOUS
    <3> HIDE DEF kept
    <3> QED BY <1>3, <3>1, MaxIsMost
  <2>2. LeverageWithinBuffer(sl, asked, p) = top
    BY <1>3 DEF LeverageWithinBuffer
  <2>3. top \in 1..125 /\ LiquidationDistance(top) >= p.liqBuffer * sl
    BY <2>1 DEF LiquidationBufferOK
  <2> HIDE DEF top
  <2> DEFINE far == Whole \div top
             wide == p.liqBuffer * sl
  <2>4. far \in Int /\ top * far <= Whole
    BY <2>3, WholeIsPositive, Division
  <2>5. wide \in Int
    BY <1>1
  <2>6. wide + 5000 <= far
    BY <2>3, <2>4, <2>5 DEF LiquidationDistance
  <2> HIDE DEF far, wide
  <2>7. top * (5000 + wide) <= top * far
    BY <2>3, <2>4, <2>5, <2>6
  <2>8. top * (5000 + wide) <= Whole
    BY <2>3, <2>4, <2>5, <2>7, WholeIsPositive
  <2> QED BY <2>2, <2>3, <2>8 DEF wide, p, BufferKept
<1> QED BY <1>2, <1>3

LEMMA ChosenLeverageKeepsBuffer ==
    ASSUME NEW natr \in Nat, NEW sl \in Nat \ {0}, NEW asked \in Int, NEW bucket
    PROVE  LET p == ProfileForBucket(bucket)
               l == ChosenLeverage(natr, asked, sl, p)
           IN  /\ l \in Nat \ {0}
               /\ l = 1 \/ BufferKept(l, sl, bucket)
<1> DEFINE p == ProfileForBucket(bucket)
           wanted == IF natr > 0 THEN Lower(asked, VolTargetLeverage(natr, asked, p)) ELSE asked
<1>1. p.hourlyVol \in Int
  BY ProfileNumbers
<1> HIDE DEF p
<1>2. wanted \in Int
  <2>1. natr > 0 => p.hourlyVol \div natr \in Int
    BY <1>1
  <2> QED BY <1>1, <2>1 DEF Lower, Higher, VolTargetLeverage
<1>3. ChosenLeverage(natr, asked, sl, p) = LeverageWithinBuffer(sl, wanted, p)
  BY DEF ChosenLeverage
<1> HIDE DEF wanted
<1> QED BY <1>2, <1>3, LeverageKeepsBuffer DEF p

\* The loss at the stop, the cash and the share of the equity all suffice.
Affordable(m, lev, sl, worth, risk, capital) ==
    /\ m * lev * (sl + 1000) <= worth * risk
    /\ m <= capital
    /\ m * Whole <= worth * Env.maxMargin

\* A quotient of the budget, cut at the capital and at the share of the equity.
LEMMA MarginFits ==
    ASSUME NEW worth \in Nat, NEW risk \in Nat \ {0}, NEW capital \in Nat,
           NEW sl \in Nat, NEW lev \in Nat \ {0}
    PROVE  LET m == Lower(PositionMargin(worth, risk, capital, sl, lev),
                          (worth * Env.maxMargin) \div Whole)
           IN  Affordable(m, lev, sl, worth, risk, capital)
<1> DEFINE capped == IF risk <= 0 \/ risk > 100000 THEN 20000 ELSE risk
           stake == worth * capped
           price == (sl + 1000) * lev
           quantity == stake \div price
           share == worth * Env.maxMargin
           m == Lower(Lower(quantity, capital), share \div Whole)
<1>1. capped \in Nat /\ capped <= risk
  OBVIOUS
<1>2. price \in Nat \ {0}
  OBVIOUS
<1>3. PositionMargin(worth, risk, capital, sl, lev) = Lower(quantity, capital)
  BY DEF PositionMargin
<1> HIDE DEF capped
<1>4. stake \in Nat /\ stake <= worth * risk
  BY <1>1
<1>5. share \in Nat
  BY EntryRulesAssumption
<1> HIDE DEF stake, price, share
<1>6. quantity \in Int /\ quantity * price <= stake
  BY <1>2, <1>4, Division
<1>7. share \div Whole \in Int /\ (share \div Whole) * Whole <= share
  BY <1>5, WholeIsPositive, Division
<1> HIDE DEF quantity
<1>8. m \in Int /\ m <= quantity /\ m <= capital /\ m <= share \div Whole
  BY <1>6, <1>7 DEF Lower
<1> HIDE DEF m
<1>9. m * price <= stake
  BY <1>2, <1>4, <1>6, <1>8, ProductsInOrder
<1>10. m * Whole <= share
  BY <1>5, <1>7, <1>8, WholeIsPositive, ProductsInOrder
<1>11. m * lev * (sl + 1000) = m * price
  BY <1>8 DEF price
<1>12. m * lev * (sl + 1000) <= worth * risk
  BY <1>2, <1>4, <1>8, <1>9, <1>11
<1> QED BY <1>3, <1>8, <1>10, <1>12 DEF m, share, Affordable

---------------------------------------------------------------------------
(* The parameters *)

\* A risk floor above half of what a bare score is rounded to, and not above
\* the cap: below that a conviction may be rounded to nothing.
RiskBand == 50 <= Env.minRisk /\ Env.minRisk <= Env.maxRisk

ParamsOK(values) ==
    /\ values["min_rr"] \in Int /\ values["leverage"] \in Int
    /\ values["conviction"] \in Nat \ {0}
    /\ values["atr_regime"].sl \in Int /\ values["atr_regime"].tp \in Int

ScoreOK(a) ==
    /\ IsFiniteSet(DOMAIN a.probs) /\ \A i \in DOMAIN a.probs : a.probs[i] \in Int
    /\ a.score \in Int \cup {NoAnswer}

LEMMA ExpectedIsANumber ==
    ASSUME NEW a, ScoreOK(a), NEW levels \in Seq(Int), Len(levels) >= 2
    PROVE  EvFromAnswer(a, levels) \in Int \cup {Bad}
<1> DEFINE keys == DOMAIN a.probs
           weighed == [k \in keys |-> a.probs[k] * levels[k + 1]]
           top == 100 * (Len(levels) - 1)
           at == a.score \div 100
<1>1. ASSUME keys \subseteq 0..(Len(levels) - 1)
      PROVE  SumFunction(weighed) \div 100 \in Int
  <2>1. \A k \in keys : weighed[k] \in Int
    BY <1>1 DEF ScoreOK
  <2>2. DOMAIN weighed = keys
    OBVIOUS
  <2> HIDE DEF weighed
  <2>3. SumFunction(weighed) \in Int
    BY <2>1, <2>2, SumIsInt DEF SumFunction, ScoreOK
  <2> QED BY <2>3
<1>2. ASSUME a.score \in Int, ~(a.score < 0 \/ a.score > top), a.score # top
      PROVE  levels[at + 1] + ((a.score % 100) * (levels[at + 2] - levels[at + 1])) \div 100 \in Int
  <2>1. at \in Int /\ 0 <= at /\ at + 2 <= Len(levels)
    BY <1>2
  <2>2. levels[at + 1] \in Int /\ levels[at + 2] \in Int
    BY <2>1
  <2>3. a.score % 100 \in Int
    BY <1>2
  <2> HIDE DEF at
  <2> QED BY <2>2, <2>3
<1>3. levels[Len(levels)] \in Int
  OBVIOUS
<1> HIDE DEF weighed, at, top
<1> QED BY <1>1, <1>2, <1>3 DEF EvFromAnswer, ScoreOK, weighed, at, top

LEMMA LevelsAreNumbers ==
    /\ MinRRLevels \in Seq(Int) /\ Len(MinRRLevels) = 4
    /\ ConvictionLevels \in Seq(Int) /\ Len(ConvictionLevels) = 4
    /\ ConfluenceLevels \in Seq(Int) /\ Len(ConfluenceLevels) = 4
  BY DEF MinRRLevels, ConvictionLevels, ConfluenceLevels

LEMMA ConvictionIsPositive ==
    ASSUME RiskBand, NEW a, ScoreOK(a), ClampConviction(a) # Bad
    PROVE  ClampConviction(a) \in Nat \ {0}
<1> DEFINE band == Env.maxRisk - Env.minRisk
           ev == EvFromAnswer(a, ConvictionLevels)
           share(x) == (x * band) \div 100
<1>1. /\ Env.minRisk \in Nat /\ Env.maxRisk \in Nat
      /\ band \in Nat /\ Env.minRisk >= 50 /\ Env.maxRisk >= 50
  BY EntryRulesAssumption DEF RiskBand
<1>2. ev \in Int \cup {Bad}
  BY ExpectedIsANumber, LevelsAreNumbers
<1> HIDE DEF band, ev
<1>3. ASSUME NEW x \in Int, x >= 0 PROVE share(x) \in Nat
  <2>1. x * band \in Nat
    BY <1>1, <1>3
  <2> QED BY <2>1
<1>4. ASSUME NEW x \in Int, x >= 50 PROVE ToTenThousandth(x) \in Nat \ {0}
  BY <1>4 DEF ToTenThousandth
<1>5. CASE RawScoreOnly(a)
  <2>1. a.score \in Int
    BY <1>5 DEF RawScoreOnly, ScoreOK
  <2>2. a.score >= 0 => ToTenThousandth(Env.minRisk + share(a.score)) \in Nat \ {0}
    <3> HIDE DEF share
    <3> SUFFICES ASSUME a.score >= 0
                 PROVE  Env.minRisk + share(a.score) \in Int /\ Env.minRisk + share(a.score) >= 50
      BY <1>4
    <3> QED BY <1>1, <1>3, <2>1
  <2> QED BY <1>1, <1>5, <2>1, <2>2 DEF ClampConviction, band
<1>6. CASE ~RawScoreOnly(a)
  <2>1. ev \in Int
    BY <1>2, <1>6 DEF ClampConviction, ev
  <2>2. ev >= 0 => Lower(Env.minRisk + share(ev), Env.maxRisk) \in Nat \ {0}
    <3> HIDE DEF share
    <3> QED BY <1>1, <1>3, <2>1 DEF Lower
  <2> QED BY <1>1, <1>6, <2>1, <2>2 DEF ClampConviction, band, ev
<1> QED BY <1>5, <1>6

LEMMA ClampedNumbers ==
    ASSUME RiskBand, NEW ans \in Answers, NEW k \in EntryParamKeys,
           ClampParam(k, ans.params[k]) # Bad
    PROVE  LET val == ClampParam(k, ans.params[k])
           IN  /\ k = "min_rr" => val \in Int
               /\ k = "leverage" => val \in Int
               /\ k = "conviction" => val \in Nat \ {0}
               /\ k = "atr_regime" => val.sl \in Int /\ val.tp \in Int
<1> DEFINE a == ans.params[k]
           val == ClampParam(k, a)
<1>1. /\ ScoreOK(a)
      /\ k = "leverage" => a.choice \in Int \cup {NoAnswer}
  BY AnswersAssumption DEF ScoreOK
<1> HIDE DEF a
<1>2. CASE k = "min_rr"
  <2>1. EvFromAnswer(a, MinRRLevels) \in Int \cup {Bad}
    BY <1>1, ExpectedIsANumber, LevelsAreNumbers
  <2>2. val = ClampMinRR(a) /\ val # Bad
    BY <1>2 DEF ClampParam, a
  <2>3. val \in Int
    BY <2>1, <2>2 DEF ClampMinRR, Within
  <2> QED BY <1>2, <2>3 DEF a
<1>3. CASE k = "leverage"
  <2>1. val = ClampLeverage(a)
    BY <1>3 DEF ClampParam
  <2>2. a.score \in Int => a.score \div 100 \in Int
    OBVIOUS
  <2>3. val \in Int
    BY <1>1, <1>3, <2>1, <2>2 DEF ClampLeverage, Within, ScoreOK, a
  <2> QED BY <1>3, <2>3 DEF a
<1>4. CASE k = "conviction"
  <2>1. val = ClampConviction(a) /\ val # Bad
    BY <1>4 DEF ClampParam, a
  <2>2. val \in Nat \ {0}
    BY <1>1, <2>1, ConvictionIsPositive
  <2> QED BY <1>4, <2>2 DEF a
<1>5. CASE k = "atr_regime"
  <2>1. val = ClampAtrRegime(a) /\ val # Bad
    BY <1>5 DEF ClampParam, a
  <2>2. a.choice \in DOMAIN Regimes /\ val = Regimes[a.choice]
    BY <2>1 DEF ClampAtrRegime
  <2>3. val.sl \in Int /\ val.tp \in Int
    BY <2>2 DEF Regimes
  <2> QED BY <1>5, <2>3 DEF a
<1> QED BY <1>2, <1>3, <1>4, <1>5

LEMMA OverridesAreNumbers ==
    /\ OverrideRanges["min_rr"] \subseteq Int
    /\ OverrideRanges["leverage"] \subseteq Int
    /\ OverrideRanges["conviction"] \subseteq Nat \ {0}
    /\ \A p \in OverrideRanges["atr_regime"] : p.sl \in Int /\ p.tp \in Int
<1>1. OverrideRanges["min_rr"] \subseteq Int
  BY DEF OverrideRanges
<1>2. OverrideRanges["leverage"] \subseteq Int
  <2>1. OverrideRanges["leverage"] = 1..125
    BY DEF OverrideRanges
  <2> QED BY <2>1
<1>3. OverrideRanges["conviction"] \subseteq Nat \ {0}
  BY WholeIsPositive DEF OverrideRanges
<1>4. \A p \in OverrideRanges["atr_regime"] : p.sl \in Int /\ p.tp \in Int
  <2> DEFINE R == 1..20 * 100
  <2>1. OverrideRanges["atr_regime"] = [sl : R, tp : R]
    BY DEF OverrideRanges
  <2>2. R \subseteq Int
    OBVIOUS
  <2> HIDE DEF R
  <2>3. \A p \in [sl : R, tp : R] : p.sl \in R /\ p.tp \in R
    OBVIOUS
  <2> QED BY <2>1, <2>2, <2>3, Zenon
<1> QED BY <1>1, <1>2, <1>3, <1>4

LEMMA ResolvedNumbers ==
    ASSUME NEW s \in LiveSettings, NEW ans \in Answers, NEW asked,
           Bad \notin {ResolveEntry(s.over, [k \in asked \cap EntryParamKeys |-> ans.params[k]])[j] :
                         j \in EntryParamKeys}
    PROVE  LET values == ResolveEntry(s.over, [k \in asked \cap EntryParamKeys |-> ans.params[k]])
           IN  /\ RiskBand => ParamsOK(values)
               /\ Unguessed(PackageParamRecord(s.over, values).modes, asked)
<1> DEFINE got == [k \in asked \cap EntryParamKeys |-> ans.params[k]]
           values == ResolveEntry(s.over, got)
<1>1. DOMAIN got = asked \cap EntryParamKeys /\ \A k \in DOMAIN got : got[k] = ans.params[k]
  OBVIOUS
<1> HIDE DEF got
<1>2. \A k \in EntryParamKeys : values[k] = Resolve(s.over, got, k)
  BY DEF ResolveEntry
<1>3. \A k \in EntryParamKeys : values[k] # Bad
  BY DEF got
<1> HIDE DEF values
<1>4. ASSUME NEW k \in EntryParamKeys
      PROVE  \/ values[k] \in OverrideRanges[k] /\ s.over[k] # NoAnswer
             \/ /\ values[k] = ClampParam(k, ans.params[k]) /\ values[k] # Bad
                /\ k \in asked /\ s.over[k] = NoAnswer
  BY <1>1, <1>2, <1>3, LiveSettingsAssumption DEF Resolve
<1>5. {"min_rr", "leverage", "conviction", "atr_regime"} \subseteq EntryParamKeys
  BY DEF EntryParamKeys
<1>6. ASSUME RiskBand PROVE ParamsOK(values)
  <2>1. values["min_rr"] \in Int
    BY <1>4, <1>5, <1>6, OverridesAreNumbers, ClampedNumbers
  <2>2. values["leverage"] \in Int
    BY <1>4, <1>5, <1>6, OverridesAreNumbers, ClampedNumbers
  <2>3. values["conviction"] \in Nat \ {0}
    BY <1>4, <1>5, <1>6, OverridesAreNumbers, ClampedNumbers
  <2>4. values["atr_regime"].sl \in Int /\ values["atr_regime"].tp \in Int
    BY <1>4, <1>5, <1>6, OverridesAreNumbers, ClampedNumbers
  <2> QED BY <2>1, <2>2, <2>3, <2>4 DEF ParamsOK
<1>7. Unguessed(PackageParamRecord(s.over, values).modes, asked)
  <2>1. \A k \in EntryParamKeys :
           PackageParamRecord(s.over, values).modes[k] = "core_managed" => s.over[k] = NoAnswer
    BY DEF PackageParamRecord, ParamMode
  <2> QED BY <1>4, <2>1 DEF Unguessed
<1> QED BY <1>6, <1>7 DEF values, got

---------------------------------------------------------------------------
(* The candidate and the gate *)

LEMMA ClampedTargets ==
    ASSUME NEW tp1 \in Int, NEW tp2 \in Int
    PROVE  LET t == ClampTakeProfits(tp1, tp2)
           IN  /\ t.tp1 \in Env.minTP..Env.maxTP
               /\ t.tp2 # NoAnswer => t.tp2 > t.tp1 /\ t.tp2 <= Env.maxTP
  BY EntryRulesAssumption DEF ClampTakeProfits, Within

LEMMA TargetsAreClamped ==
    ASSUME NEW natr \in Nat, NEW bucket, NEW base \in Int, NEW sl \in Int, NEW minRR \in Int,
           NEW regime, regime.sl \in Int, regime.tp \in Int
    PROVE  \E tp1 \in Int, tp2 \in Int :
              Targets(natr, ProfileForBucket(bucket), base, regime, minRR, sl)
                 = ClampTakeProfits(tp1, tp2)
<1> DEFINE p == ProfileForBucket(bucket)
           q == RegimeProfile(p, regime)
           staged == StagedTargets(natr, q)
           floor == MinReward(minRR, base)
           tp1 == IF natr > 0 THEN staged.tp1 ELSE Higher(staged.tp1, floor)
           tp2 == IF natr > 0 THEN staged.tp2 ELSE Higher(staged.tp2, (floor * 3) \div 2)
           first == Higher(tp1, MinReward(minRR, sl))
<1>1. p.slMin \in Int /\ p.tp1Atr \in Int /\ p.tp2Atr \in Int
      /\ DOMAIN p = DOMAIN DefaultCryptoProfile
  BY ProfileNumbers
<1>2. {"slMin", "tp1Atr", "tp2Atr", "slAtr"} \subseteq DOMAIN p
  BY <1>1 DEF DefaultCryptoProfile
<1> HIDE DEF p
<1>3. q.slMin \in Int /\ q.tp1Atr \in Int /\ q.tp2Atr \in Int
  <2>1. p.tp2Atr > 0 => (regime.tp * p.tp1Atr) \div p.tp2Atr \in Int
    BY <1>1
  <2> QED BY <1>1, <1>2, <2>1 DEF RegimeProfile
<1> HIDE DEF q
<1>4. staged.tp1 \in Int /\ staged.tp2 \in Int
  <2>1. (q.tp1Atr * natr) \div 100 \in Int /\ (q.tp2Atr * natr) \div 100 \in Int
    BY <1>3
  <2> QED BY <1>3, <2>1 DEF StagedTargets
<1>5. floor \in Int /\ MinReward(minRR, sl) \in Int /\ (floor * 3) \div 2 \in Int
  BY DEF MinReward
<1> HIDE DEF staged, floor
<1>6. first \in Int /\ tp2 \in Int
  BY <1>4, <1>5 DEF Higher
<1>7. Targets(natr, p, base, regime, minRR, sl) = ClampTakeProfits(first, tp2)
  BY DEF Targets, floor, staged, q
<1> HIDE DEF first, tp2
<1> QED BY <1>6, <1>7 DEF p

LEMMA LeastOf ==
    ASSUME NEW S \in SUBSET Nat, S # {}
    PROVE  Min(S) \in S
<1>1. \E x \in S : \A y \in S : x <= y
  BY LeastNumber
<1> QED BY <1>1 DEF Min

\* A candidate the gate lets pass does not break its last rule.
LEMMA GateKeepsBuffer ==
    ASSUME NEW long, NEW m, NEW oi, NEW sl, NEW lev, NEW buffer,
           EvaluateEntryGate(long, m, oi, sl, lev, buffer) = "passes"
    PROVE  ~(LiquidationDistance(lev) > 0 /\ LiquidationDistance(lev) < buffer * sl)
<1> DEFINE rules == GateRules(long, m, oi, sl, lev, buffer)
           broken == {i \in 1..Len(rules) : rules[i].hit}
<1>1. Len(rules) = 5
  BY DEF GateRules
<1>2. rules[5].hit <=> LiquidationDistance(lev) > 0 /\ LiquidationDistance(lev) < buffer * sl
  BY DEF GateRules
<1>3. /\ rules[1].rule # "passes" /\ rules[2].rule # "passes" /\ rules[3].rule # "passes"
      /\ rules[4].rule # "passes" /\ rules[5].rule # "passes"
  BY DEF GateRules
<1> HIDE DEF rules
<1>4. broken \subseteq 1..5 /\ broken \in SUBSET Nat
  BY <1>1
<1>5. broken = {}
  <2> SUFFICES ASSUME broken # {} PROVE FALSE
    OBVIOUS
  <2>1. EvaluateEntryGate(long, m, oi, sl, lev, buffer) = rules[Min(broken)].rule
    BY DEF EvaluateEntryGate, rules
  <2> HIDE DEF broken
  <2>2. Min(broken) \in 1..5
    <3>1. Min(broken) \in broken
      BY <1>4, LeastOf
    <3> QED BY <1>4, <3>1
  <2> QED BY <1>3, <2>1, <2>2
<1>6. 5 \in 1..Len(rules)
  BY <1>1
<1>7. ~rules[5].hit
  <2> SUFFICES ASSUME rules[5].hit PROVE FALSE
    OBVIOUS
  <2>1. 5 \in broken
    BY <1>6 DEF broken
  <2> QED BY <1>5, <2>1
<1> QED BY <1>2, <1>7

LeverageOK(s) == BufferKept(s.leverage, s.sl, s.req.bucket)

\* A candidate that was not refused lacks only the gate's word on the leverage.
SoundSoFar(s) ==
    /\ s.sl \in Env.minSL..Env.maxSL
    /\ s.leverage = 1 \/ LeverageOK(s)
    /\ s.tp1 \in Env.minTP..Env.maxTP
    /\ 100 * s.tp1 > s.record.values.min_rr * s.sl - 100
    /\ s.tp2 # NoAnswer => s.tp2 > s.tp1 /\ s.tp2 <= Env.maxTP
    /\ Affordable(s.margin, s.leverage, s.sl, s.req.equity, s.record.values.conviction,
                  s.req.capital)

LEMMA SoundWithLeverage ==
    ASSUME NEW s, SoundSoFar(s), LeverageOK(s)
    PROVE  SoundTrade(s)
  BY DEF SoundSoFar, LeverageOK, BufferKept, Affordable, SoundTrade

LEMMA CandidateIsSound ==
    ASSUME NEW v, v.req \in Requests, ParamsOK(v.params.values),
           Refused(v, Candidate(v)) = "accepted"
    PROVE  SoundSoFar(Candidate(v))
<1> DEFINE c == Candidate(v)
           r == v.req
           p == v.params.values
           prof == ProfileForBucket(r.bucket)
           base == ATRStop(r.natr, prof)
           sl == StopDistance(r.natr, prof)
           lev == ChosenLeverage(r.natr, p.leverage, sl, prof)
           risk == IF p.conviction > 0 THEN p.conviction ELSE prof.risk
           tps == Targets(r.natr, prof, base, p.atr_regime, p.min_rr, sl)
           margin == Lower(PositionMargin(r.equity, risk, r.capital, sl, lev),
                           (r.equity * Env.maxMargin) \div Whole)
<1>1. /\ c.sl = sl /\ c.tp1 = tps.tp1 /\ c.tp2 = tps.tp2 /\ c.leverage = lev
      /\ c.margin = margin /\ c.record = v.params /\ c.asked = v.asked /\ c.req = r
  BY DEF Candidate
<1>2. ~(c.tp1 < MinReward(p.min_rr, c.sl))
  BY DEF Refused
<1>3. r.equity \in Nat /\ r.capital \in Nat /\ r.natr \in Nat
  BY EntryDecisionAssumption
<1>4. /\ p.min_rr \in Int /\ p.leverage \in Int /\ p.conviction \in Nat \ {0}
      /\ p.atr_regime.sl \in Int /\ p.atr_regime.tp \in Int
  BY DEF ParamsOK
<1> HIDE DEF c, r, p
<1>5. base \in Int /\ sl \in Env.minSL..Env.maxSL
  BY <1>3, StopIsANumber, StopWithinBounds
<1> HIDE DEF base, sl
<1>6. sl \in Nat \ {0}
  BY <1>5, EntryRulesAssumption
<1>7. lev \in Nat \ {0} /\ (lev = 1 \/ BufferKept(lev, sl, r.bucket))
  <2>1. r.natr \in Nat /\ p.leverage \in Int /\ sl \in Nat \ {0}
    BY <1>3, <1>4, <1>6
  <2> QED BY <2>1, ChosenLeverageKeepsBuffer
<1> HIDE DEF lev
<1>8. /\ tps.tp1 \in Env.minTP..Env.maxTP
      /\ tps.tp2 # NoAnswer => tps.tp2 > tps.tp1 /\ tps.tp2 <= Env.maxTP
  <2>1. PICK tp1 \in Int, tp2 \in Int : tps = ClampTakeProfits(tp1, tp2)
    BY <1>3, <1>4, <1>5, <1>6, TargetsAreClamped
  <2> HIDE DEF tps
  <2> QED BY <2>1, ClampedTargets
<1> HIDE DEF tps
<1>9. 100 * tps.tp1 > p.min_rr * sl - 100
  <2> DEFINE need == p.min_rr * sl
  <2>1. need \in Int /\ tps.tp1 \in Int
    BY <1>4, <1>6, <1>8, EntryRulesAssumption
  <2>2. ~(tps.tp1 < need \div 100)
    BY <1>1, <1>2 DEF MinReward
  <2> HIDE DEF need
  <2>3. 100 * tps.tp1 > need - 100
    BY <2>1, <2>2
  <2> QED BY <2>3 DEF need
<1>10. risk = p.conviction
  BY <1>4
<1> HIDE DEF risk
<1>11. Affordable(margin, lev, sl, r.equity, p.conviction, r.capital)
  BY <1>3, <1>4, <1>6, <1>7, <1>10, MarginFits
<1> HIDE DEF margin
<1>12. c.record.values = p
  BY <1>1 DEF p
<1>13. c.leverage = 1 \/ LeverageOK(c)
  BY <1>1, <1>7 DEF LeverageOK
<1>14. SoundSoFar(c)
  BY <1>1, <1>5, <1>8, <1>9, <1>11, <1>12, <1>13 DEF SoundSoFar
<1> QED BY <1>1, <1>14 DEF c, r

\* A leverage of one that liquidates inside the buffer does not pass the gate.
LEMMA GatePassesSound ==
    ASSUME NEW s, SoundSoFar(s), NEW long, NEW m, NEW oi,
           EvaluateEntryGate(long, m, oi, s.sl, s.leverage,
                             ProfileForBucket(s.req.bucket).liqBuffer) = "passes"
    PROVE  SoundTrade(s)
<1> DEFINE buffer == ProfileForBucket(s.req.bucket).liqBuffer
<1>1. buffer \in Int
  BY ProfileNumbers
<1>2. ~(LiquidationDistance(s.leverage) > 0 /\ LiquidationDistance(s.leverage) < buffer * s.sl)
  BY GateKeepsBuffer
<1>3. CASE LeverageOK(s)
  BY <1>3, SoundWithLeverage
<1>4. CASE s.leverage = 1
  <2> HIDE DEF buffer
  <2>1. LiquidationDistance(1) = Whole - 5000 /\ Whole - 5000 > 0
    BY SMT DEF LiquidationDistance, Whole
  <2>2. s.sl \in Int
    BY EntryRulesAssumption DEF SoundSoFar
  <2>3. 5000 + buffer * s.sl <= Whole
    <3> DEFINE wide == buffer * s.sl
    <3>1. wide \in Int /\ Whole \in Int
      BY <1>1, <2>2, WholeIsPositive
    <3>2. ~(Whole - 5000 < wide)
      BY <1>2, <1>4, <2>1
    <3> HIDE DEF wide
    <3>3. 5000 + wide <= Whole
      BY <3>1, <3>2
    <3> QED BY <3>3 DEF wide
  <2>4. 1 * (5000 + buffer * s.sl) = 5000 + buffer * s.sl
    BY <1>1, <2>2
  <2>5. LeverageOK(s)
    BY <1>4, <2>3, <2>4 DEF LeverageOK, BufferKept, buffer
  <2> QED BY <2>5, SoundWithLeverage
<1> QED BY <1>3, <1>4 DEF SoundSoFar

---------------------------------------------------------------------------
(* The invariant of the evaluations *)

EvalFields == {"pc", "req", "asked", "thr", "batch", "choice", "conf", "params", "sig", "told"}

\* The core has answered and the candidate is not refused yet.
Weighing == {"escalate", "assemble"}

EvalOK(v) ==
    /\ v.pc \notin {"idle", "done"} => v.req \in Requests
    /\ v.pc \in Weighing => /\ RiskBand => ParamsOK(v.params.values)
                           /\ Unguessed(v.params.modes, v.asked)
    /\ v.pc = "gate" => (RiskBand => SoundSoFar(v.sig)) /\ v.sig.req = v.req
    /\ v.pc \in {"guard", "insert"} => (RiskBand => SoundTrade(v.sig))
    /\ v.pc \in {"gate", "guard", "insert"} => Unguessed(v.sig.record.modes, v.sig.asked)

EvalShapes == DOMAIN evals = Evaluators /\ \A e \in Evaluators : DOMAIN evals[e] = EvalFields

BookIsAList == \E S : book \in Seq(S)

EntryInv ==
    /\ EvalShapes
    /\ \A e \in Evaluators : EvalOK(evals[e])
    /\ BookIsAList
    /\ RiskBand => SavedTradesAreSound
    /\ NothingGuessed

---------------------------------------------------------------------------
(* Steps of an evaluation *)

\* One evaluation moves, the rest and the book stay.
LEMMA EvalMoves ==
    ASSUME EntryInv, NEW e \in Evaluators, DOMAIN evals' = Evaluators,
           \A o \in Evaluators \ {e} : evals'[o] = evals[o],
           DOMAIN evals'[e] = EvalFields, EvalOK(evals'[e]), UNCHANGED book
    PROVE  EntryInv'
<1>1. EvalShapes'
  BY DEF EntryInv, EvalShapes
<1>2. \A o \in Evaluators : EvalOK(evals'[o])
  BY DEF EntryInv
<1>3. BookIsAList' /\ (RiskBand => SavedTradesAreSound') /\ NothingGuessed'
  BY DEF EntryInv, BookIsAList, SavedTradesAreSound, NothingGuessed
<1> QED BY <1>1, <1>2, <1>3 DEF EntryInv

LEMMA WentSteps ==
    ASSUME EvalShapes, NEW e \in Evaluators, NEW pc, Went(e, pc)
    PROVE  /\ DOMAIN evals' = Evaluators
           /\ \A o \in Evaluators \ {e} : evals'[o] = evals[o]
           /\ DOMAIN evals'[e] = EvalFields
           /\ evals'[e].pc = pc
           /\ \A f \in EvalFields \ {"pc"} : evals'[e][f] = evals[e][f]
  BY DEF EvalShapes, Went, EvalFields

LEMMA EndsSteps ==
    ASSUME EntryInv, NEW e \in Evaluators, NEW why, Ends(e, why), UNCHANGED book
    PROVE  EntryInv'
<1>1. /\ DOMAIN evals' = Evaluators
      /\ \A o \in Evaluators \ {e} : evals'[o] = evals[o]
      /\ DOMAIN evals'[e] = EvalFields
      /\ evals'[e].pc = "done"
  BY DEF EntryInv, EvalShapes, Ends, EvalFields
<1>2. EvalOK(evals'[e])
  BY <1>1 DEF EvalOK, Weighing
<1> QED BY <1>1, <1>2, EvalMoves

LEMMA EvaluateStep ==
    ASSUME EntryInv, NEW e \in Evaluators, NEW r \in Requests, Evaluate(e, r)
    PROVE  EntryInv'
<1>1. /\ DOMAIN evals' = Evaluators
      /\ \A o \in Evaluators \ {e} : evals'[o] = evals[o]
      /\ DOMAIN evals'[e] = EvalFields
      /\ evals'[e].pc \in {"done", "classify", "ask"} /\ evals'[e].req = r
      /\ UNCHANGED book
  BY DEF EntryInv, EvalShapes, Evaluate, EvalFields
<1>2. EvalOK(evals'[e])
  BY <1>1 DEF EvalOK, Weighing
<1> QED BY <1>1, <1>2, EvalMoves

LEMMA ClassifyStep ==
    ASSUME EntryInv, NEW e \in Evaluators, Classify(e)
    PROVE  EntryInv'
<1>1. evals[e].pc = "classify" /\ UNCHANGED book
  BY DEF Classify
<1>2. CASE Went(e, "ask")
  <2>1. /\ DOMAIN evals' = Evaluators
        /\ \A o \in Evaluators \ {e} : evals'[o] = evals[o]
        /\ DOMAIN evals'[e] = EvalFields
        /\ evals'[e].pc = "ask" /\ evals'[e].req = evals[e].req
    BY <1>2, WentSteps DEF EntryInv, EvalFields
  <2>2. EvalOK(evals'[e])
    BY <1>1, <2>1 DEF EntryInv, EvalOK, Weighing
  <2> QED BY <1>1, <2>1, <2>2, EvalMoves
<1>3. CASE Ends(e, "error")
  BY <1>1, <1>3, EndsSteps
<1> QED BY <1>2, <1>3 DEF Classify

LEMMA AskStep ==
    ASSUME EntryInv, NEW e \in Evaluators, Ask(e)
    PROVE  EntryInv'
<1>1. evals[e].pc = "ask" /\ UNCHANGED book
  BY DEF Ask
<1>2. CASE Ends(e, "error")
  BY <1>1, <1>2, EndsSteps
<1>3. CASE ~Ends(e, "error")
  <2>1. evals' = [evals EXCEPT ![e].pc = "core", ![e].thr = live.threshold,
                               ![e].asked = EntryQuestions(live.over)]
    BY <1>3 DEF Ask
  <2>2. /\ DOMAIN evals' = Evaluators
        /\ \A o \in Evaluators \ {e} : evals'[o] = evals[o]
        /\ DOMAIN evals'[e] = EvalFields
        /\ evals'[e].pc = "core" /\ evals'[e].req = evals[e].req
    BY <2>1 DEF EntryInv, EvalShapes, EvalFields
  <2>3. EvalOK(evals'[e])
    BY <1>1, <2>2 DEF EntryInv, EvalOK, Weighing
  <2> QED BY <1>1, <2>2, <2>3, EvalMoves
<1> QED BY <1>2, <1>3

\* Whatever settings are in force at the answer, a parameter they leave to the
\* core and that was not asked about fails the evaluation.
LEMMA BatchAnsweredStep ==
    ASSUME EntryInv, live \in LiveSettings, NEW e \in Evaluators, NEW ans \in Answers,
           BatchAnswered(e, ans)
    PROVE  EntryInv'
<1> DEFINE v == evals[e]
           got == [k \in v.asked \cap EntryParamKeys |-> ans.params[k]]
           frames == BucketTimeframes(live, v.req.bucket)
           values == ResolveEntry(live.over, got)
           core == Composed(ans)
           valid == ValidBatch(ans, frames) /\ Bad \notin {values[k] : k \in EntryParamKeys}
           record == PackageParamRecord(live.over, values)
           next == IF ~valid THEN "done" ELSE IF core.conf < v.thr THEN "escalate" ELSE "assemble"
           w == [v EXCEPT !.batch = ans, !.pc = next, !.told = IF valid THEN "pending" ELSE "error",
                          !.choice = IF valid THEN core.choice ELSE @,
                          !.conf = IF valid THEN core.conf ELSE @,
                          !.params = IF valid THEN record ELSE @]
<1>1. v.pc = "core" /\ UNCHANGED book /\ v.req \in Requests /\ DOMAIN v = EvalFields
  BY DEF BatchAnswered, EntryInv, EvalShapes, EvalOK
<1>2. valid => (RiskBand => ParamsOK(values)) /\ Unguessed(record.modes, v.asked)
  <2> SUFFICES ASSUME Bad \notin {values[k] : k \in EntryParamKeys}
               PROVE  (RiskBand => ParamsOK(values)) /\ Unguessed(record.modes, v.asked)
    OBVIOUS
  <2> QED BY ResolvedNumbers
<1>3. record.values = values
  BY DEF PackageParamRecord
<1>4. evals' = [evals EXCEPT ![e] = w]
  BY DEF BatchAnswered, EntryInv, EvalShapes
<1> HIDE DEF got, frames, values, core, valid, record
<1>5. next \in {"done", "escalate", "assemble"} /\ (next # "done" => valid)
  OBVIOUS
<1> HIDE DEF next
<1>6. /\ DOMAIN w = EvalFields /\ w.pc = next /\ w.req = v.req /\ w.asked = v.asked
      /\ valid => w.params = record
  BY <1>1 DEF EvalFields
<1> HIDE DEF w, v
<1>7. EvalOK(w)
  BY <1>1, <1>2, <1>3, <1>5, <1>6 DEF EvalOK, Weighing
<1>8. /\ DOMAIN evals' = Evaluators
      /\ \A o \in Evaluators \ {e} : evals'[o] = evals[o]
      /\ evals'[e] = w
  BY <1>4 DEF EntryInv, EvalShapes
<1> QED BY <1>1, <1>6, <1>7, <1>8, EvalMoves

LEMMA EscalateStep ==
    ASSUME EntryInv, NEW e \in Evaluators, NEW esc, Escalate(e, esc)
    PROVE  EntryInv'
<1>1. evals[e].pc = "escalate" /\ UNCHANGED book
  BY DEF Escalate
<1>2. CASE Ends(e, "error")
  BY <1>1, <1>2, EndsSteps
<1>3. CASE ~Ends(e, "error")
  <2>1. evals' = [evals EXCEPT ![e].pc = "assemble",
                        ![e].choice = IF esc.conf > evals[e].conf THEN esc.choice ELSE @,
                        ![e].conf = Higher(esc.conf, @)]
    BY <1>3 DEF Escalate
  <2>2. /\ DOMAIN evals' = Evaluators
        /\ \A o \in Evaluators \ {e} : evals'[o] = evals[o]
        /\ DOMAIN evals'[e] = EvalFields
        /\ evals'[e].pc = "assemble" /\ evals'[e].req = evals[e].req
        /\ evals'[e].params = evals[e].params /\ evals'[e].asked = evals[e].asked
    BY <2>1 DEF EntryInv, EvalShapes, EvalFields
  <2>3. EvalOK(evals'[e])
    BY <1>1, <2>2 DEF EntryInv, EvalOK, Weighing
  <2> QED BY <1>1, <2>2, <2>3, EvalMoves
<1> QED BY <1>2, <1>3

LEMMA AssembleStep ==
    ASSUME EntryInv, NEW e \in Evaluators, Assemble(e)
    PROVE  EntryInv'
<1> DEFINE v == evals[e]
           c == Candidate(v)
           why == Refused(v, c)
<1>1. v.pc = "assemble" /\ UNCHANGED book
  BY DEF Assemble
<1>2. CASE Ends(e, "hold") \/ Ends(e, why)
  BY <1>1, <1>2, EndsSteps
<1>3. CASE ~(Ends(e, "hold") \/ Ends(e, why))
  <2>1. why = "accepted" /\ evals' = [evals EXCEPT ![e].pc = "gate", ![e].sig = c]
    BY <1>3 DEF Assemble
  <2>2. /\ v.req \in Requests /\ (RiskBand => ParamsOK(v.params.values))
        /\ Unguessed(v.params.modes, v.asked)
    BY <1>1 DEF EntryInv, EvalOK, Weighing
  <2>3. /\ RiskBand => SoundSoFar(c)
        /\ c.req = v.req /\ c.record = v.params /\ c.asked = v.asked
    <3>1. c.req = v.req /\ c.record = v.params /\ c.asked = v.asked
      BY DEF Candidate
    <3> QED BY <2>1, <2>2, <3>1, CandidateIsSound
  <2> HIDE DEF c
  <2>4. /\ DOMAIN evals' = Evaluators
        /\ \A o \in Evaluators \ {e} : evals'[o] = evals[o]
        /\ DOMAIN evals'[e] = EvalFields
        /\ evals'[e].pc = "gate" /\ evals'[e].req = v.req /\ evals'[e].sig = c
    BY <2>1 DEF EntryInv, EvalShapes, EvalFields
  <2>5. EvalOK(evals'[e])
    BY <2>2, <2>3, <2>4 DEF EvalOK, Weighing
  <2> QED BY <1>1, <2>4, <2>5, EvalMoves
<1> QED BY <1>2, <1>3

LEMMA EntryGateStep ==
    ASSUME EntryInv, NEW e \in Evaluators, NEW oi, EntryGate(e, oi)
    PROVE  EntryInv'
<1> DEFINE v == evals[e]
           rule == EvaluateEntryGate(v.sig.dir = "LONG", v.req, oi, v.sig.sl, v.sig.leverage,
                                     ProfileForBucket(v.req.bucket).liqBuffer)
<1>1. v.pc = "gate" /\ UNCHANGED book
  BY DEF EntryGate
<1>2. /\ v.req \in Requests /\ (RiskBand => SoundSoFar(v.sig)) /\ v.sig.req = v.req
      /\ Unguessed(v.sig.record.modes, v.sig.asked)
  BY <1>1 DEF EntryInv, EvalOK
<1>3. CASE rule = "passes"
  <2>1. RiskBand => SoundTrade(v.sig)
    BY <1>2, <1>3, GatePassesSound
  <2>2. Went(e, "guard")
    BY <1>3 DEF EntryGate
  <2>3. /\ DOMAIN evals' = Evaluators
        /\ \A o \in Evaluators \ {e} : evals'[o] = evals[o]
        /\ DOMAIN evals'[e] = EvalFields
        /\ evals'[e].pc = "guard" /\ evals'[e].req = v.req /\ evals'[e].sig = v.sig
    BY <2>2, WentSteps DEF EntryInv, EvalFields
  <2>4. EvalOK(evals'[e])
    BY <1>2, <2>1, <2>3 DEF EvalOK, Weighing
  <2> QED BY <1>1, <2>3, <2>4, EvalMoves
<1>4. CASE rule # "passes"
  <2>1. Ends(e, rule)
    BY <1>4 DEF EntryGate
  <2> QED BY <1>1, <2>1, EndsSteps
<1> QED BY <1>3, <1>4

LEMMA SlotGuardStep ==
    ASSUME EntryInv, NEW e \in Evaluators, SlotGuard(e)
    PROVE  EntryInv'
<1>1. evals[e].pc = "guard" /\ UNCHANGED book
  BY DEF SlotGuard
<1>2. CASE Ends(e, "existing")
  BY <1>1, <1>2, EndsSteps
<1>3. CASE Went(e, "insert")
  <2>1. /\ DOMAIN evals' = Evaluators
        /\ \A o \in Evaluators \ {e} : evals'[o] = evals[o]
        /\ DOMAIN evals'[e] = EvalFields
        /\ evals'[e].pc = "insert" /\ evals'[e].req = evals[e].req /\ evals'[e].sig = evals[e].sig
    BY <1>3, WentSteps DEF EntryInv, EvalFields
  <2>2. EvalOK(evals'[e])
    BY <1>1, <2>1 DEF EntryInv, EvalOK, Weighing
  <2> QED BY <1>1, <2>1, <2>2, EvalMoves
<1> QED BY <1>2, <1>3 DEF SlotGuard

LEMMA InsertStep ==
    ASSUME EntryInv, NEW e \in Evaluators, Insert(e)
    PROVE  EntryInv'
<1>1. CASE Ends(e, "error") /\ UNCHANGED book
  BY <1>1, EndsSteps
<1>2. CASE Ends(e, "saved") /\ book' = Append(book, evals[e].sig)
  <2> DEFINE s == evals[e].sig
             n == Len(book)
  <2>1. (RiskBand => SoundTrade(s)) /\ Unguessed(s.record.modes, s.asked)
    BY DEF Insert, EntryInv, EvalOK
  <2> HIDE DEF s
  <2>2. /\ DOMAIN evals' = Evaluators
        /\ \A o \in Evaluators \ {e} : evals'[o] = evals[o]
        /\ DOMAIN evals'[e] = EvalFields
        /\ evals'[e].pc = "done"
    BY <1>2 DEF EntryInv, EvalShapes, Ends, EvalFields
  <2>3. EvalOK(evals'[e])
    BY <2>2 DEF EvalOK, Weighing
  <2>4. EvalShapes' /\ \A o \in Evaluators : EvalOK(evals'[o])
    BY <2>2, <2>3 DEF EntryInv, EvalShapes
  <2>5. PICK S : book \in Seq(S)
    BY DEF EntryInv, BookIsAList
  <2>6. book \in Seq(S \cup {s})
    BY <2>5
  <2>7. /\ book' \in Seq(S \cup {s}) /\ n \in Nat /\ Len(book') = n + 1
        /\ \A i \in 1..n : book'[i] = book[i]
        /\ book'[n + 1] = s
    BY <1>2, <2>6 DEF s
  <2>8. \A i \in 1..Len(book') : i \in 1..n \/ i = n + 1
    BY <2>7
  <2>9. (RiskBand => SavedTradesAreSound') /\ NothingGuessed'
    <3> HIDE DEF n
    <3>1. ASSUME NEW i \in 1..Len(book')
          PROVE  /\ RiskBand => SoundTrade(book'[i])
                 /\ Unguessed(book'[i].record.modes, book'[i].asked)
      <4>1. CASE i \in 1..n
        BY <2>7, <4>1 DEF EntryInv, SavedTradesAreSound, NothingGuessed, n
      <4>2. CASE i = n + 1
        BY <2>1, <2>7, <4>2
      <4> QED BY <2>8, <4>1, <4>2
    <3> QED BY <3>1 DEF SavedTradesAreSound, NothingGuessed
  <2> QED BY <2>4, <2>7, <2>9 DEF EntryInv, BookIsAList
<1> QED BY <1>1, <1>2 DEF Insert

---------------------------------------------------------------------------
(* The theorems *)

LEMMA EntryInvInit == EntryInit => EntryInv
<1> SUFFICES ASSUME EntryInit PROVE EntryInv
  OBVIOUS
<1>1. DOMAIN evals = Evaluators /\ \A e \in Evaluators : evals[e] = Fresh
  BY DEF EntryInit
<1>2. DOMAIN Fresh = EvalFields /\ Fresh.pc = "idle"
  BY DEF Fresh, EvalFields
<1>3. EvalShapes /\ \A e \in Evaluators : EvalOK(evals[e])
  BY <1>1, <1>2 DEF EvalShapes, EvalOK, Weighing
<1>4. book = <<>> /\ book \in Seq({}) /\ Len(book) = 0
  BY DEF EntryInit
<1>5. BookIsAList /\ SavedTradesAreSound /\ NothingGuessed
  BY <1>4 DEF BookIsAList, SavedTradesAreSound, NothingGuessed
<1> QED BY <1>3, <1>5 DEF EntryInv

LEMMA EntryInvNext ==
    ASSUME EntryInv, live \in LiveSettings, [EntryNext]_entryVars
    PROVE  EntryInv'
<1>1. ASSUME NEW e \in Evaluators, BatchFails(e) \/ EscalationFails(e) PROVE EntryInv'
  BY <1>1, EndsSteps DEF BatchFails, EscalationFails
<1>2. ASSUME NEW e \in Evaluators,
             \/ \E r \in Requests : Evaluate(e, r)
             \/ Classify(e) \/ Ask(e)
             \/ \E ans \in Answers : BatchAnswered(e, ans)
             \/ \E esc \in EscalationAnswers : Escalate(e, esc)
             \/ Assemble(e)
             \/ \E oi \in OpenInterests : EntryGate(e, oi)
             \/ SlotGuard(e) \/ Insert(e)
      PROVE  EntryInv'
  BY <1>2, EvaluateStep, ClassifyStep, AskStep, BatchAnsweredStep, EscalateStep, AssembleStep,
     EntryGateStep, SlotGuardStep, InsertStep
<1>3. ASSUME UNCHANGED <<evals, book>> PROVE EntryInv'
  BY <1>3 DEF EntryInv, EvalShapes, BookIsAList, SavedTradesAreSound, NothingGuessed
<1>4. CASE (\E s \in LiveSettings : SaveLive(s)) \/ CloseSymbol \/ UNCHANGED entryVars
  BY <1>3, <1>4 DEF SaveLive, CloseSymbol, entryVars
<1> QED BY <1>1, <1>2, <1>4 DEF EntryNext

LEMMA LiveStaysSaved ==
    ASSUME live \in LiveSettings, [EntryNext]_entryVars
    PROVE  live' \in LiveSettings
<1>1. CASE \E s \in LiveSettings : SaveLive(s)
  BY <1>1 DEF SaveLive
<1>2. CASE UNCHANGED live
  BY <1>2
<1>3. (\E s \in LiveSettings : SaveLive(s)) \/ UNCHANGED live
  <2>1. ASSUME NEW e \in Evaluators
        PROVE  /\ \A r \in Requests : Evaluate(e, r) => UNCHANGED live
               /\ Classify(e) \/ Ask(e) \/ BatchFails(e) \/ EscalationFails(e) => UNCHANGED live
               /\ Assemble(e) \/ SlotGuard(e) \/ Insert(e) => UNCHANGED live
               /\ \A esc \in EscalationAnswers : Escalate(e, esc) => UNCHANGED live
               /\ \A oi \in OpenInterests : EntryGate(e, oi) => UNCHANGED live
    BY DEF Evaluate, Classify, Ask, BatchFails, EscalationFails, Escalate, Assemble,
           EntryGate, SlotGuard, Insert
  <2>2. ASSUME NEW e \in Evaluators, NEW ans \in Answers, BatchAnswered(e, ans)
        PROVE  UNCHANGED live
    BY <2>2 DEF BatchAnswered
  <2>3. CloseSymbol \/ UNCHANGED entryVars => UNCHANGED live
    BY DEF CloseSymbol, entryVars
  <2> QED BY <2>1, <2>2, <2>3 DEF EntryNext
<1> QED BY <1>1, <1>2, <1>3

THEOREM EntryInvariant == EntrySpec => []EntryInv
<1>1. EntryInit => EntryInv /\ live \in LiveSettings
  BY EntryInvInit DEF EntryInit
<1>2. EntryInv /\ live \in LiveSettings /\ [EntryNext]_entryVars
         => EntryInv' /\ (live \in LiveSettings)'
  BY EntryInvNext, LiveStaysSaved
<1> QED BY <1>1, <1>2, PTL DEF EntrySpec

THEOREM NoGuessIsSaved == EntrySpec => []NothingGuessed
<1>1. EntryInv => NothingGuessed
  BY DEF EntryInv
<1> QED BY <1>1, EntryInvariant, PTL

THEOREM SavedAreSound ==
    ASSUME RiskBand
    PROVE  EntrySpec => []SavedTradesAreSound
<1>1. EntryInv => SavedTradesAreSound
  BY DEF EntryInv
<1> QED BY <1>1, EntryInvariant, PTL

---------------------------------------------------------------------------
(* Types of the entries *)

EvalStages == {"idle", "classify", "ask", "core", "escalate", "assemble", "gate", "guard",
               "insert", "done"}

Inserted == {e \in Evaluators : evals[e].told = "saved"}

BoundsOK ==
    /\ DOMAIN bounds = {"saves", "faults", "closes"}
    /\ bounds.saves \in 0..MaxDeskSaves /\ bounds.faults \in 0..MaxDeskFaults
    /\ bounds.closes \in 0..MaxCloses

\* Each signal of the book has an evaluator that ended with it.
EntryTypes ==
    /\ live \in LiveSettings /\ open \in BOOLEAN /\ BoundsOK
    /\ EvalShapes
    /\ \A e \in Evaluators : /\ evals[e].pc \in EvalStages
                             /\ evals[e].told = "saved" => evals[e].pc = "done"
    /\ BookIsAList /\ Len(book) <= Cardinality(Inserted)

LEMMA InsertedIsFinite ==
    /\ IsFiniteSet(Inserted) /\ Cardinality(Inserted) \in Nat
    /\ Cardinality(Inserted) <= Cardinality(Evaluators)
<1>1. Inserted \subseteq Evaluators /\ IsFiniteSet(Evaluators)
  BY EntryDecisionAssumption DEF Inserted
<1> QED BY <1>1, FS_Subset, FS_CardinalityType

\* An evaluation that is not over moves, and does not end with a signal.
LEMMA EvalTypesMove ==
    ASSUME EntryTypes, NEW e \in Evaluators, evals[e].pc # "done",
           DOMAIN evals' = Evaluators, \A o \in Evaluators \ {e} : evals'[o] = evals[o],
           DOMAIN evals'[e] = EvalFields, evals'[e].pc \in EvalStages,
           evals'[e].told # "saved",
           UNCHANGED <<live, book, open>>, BoundsOK'
    PROVE  EntryTypes'
<1>1. evals[e].told # "saved"
  BY DEF EntryTypes
<1>2. Inserted' = Inserted
  BY <1>1 DEF Inserted
<1>3. EvalShapes'
  BY DEF EntryTypes, EvalShapes
<1>4. BookIsAList' /\ Len(book') <= Cardinality(Inserted')
  BY <1>2 DEF EntryTypes, BookIsAList
<1>5. \A o \in Evaluators : /\ evals'[o].pc \in EvalStages
                            /\ evals'[o].told = "saved" => evals'[o].pc = "done"
  BY DEF EntryTypes
<1> QED BY <1>3, <1>4, <1>5 DEF EntryTypes

LEMMA FaultedBounds ==
    ASSUME BoundsOK, Faulted \/ UNCHANGED bounds
    PROVE  BoundsOK'
  BY EntryDecisionAssumption DEF BoundsOK, Faulted

LEMMA WentTypes ==
    ASSUME EntryTypes, NEW e \in Evaluators, NEW pc \in EvalStages, evals[e].pc # "done",
           Went(e, pc), UNCHANGED <<live, book, open>>, Faulted \/ UNCHANGED bounds
    PROVE  EntryTypes'
<1>1. /\ DOMAIN evals' = Evaluators /\ \A o \in Evaluators \ {e} : evals'[o] = evals[o]
      /\ DOMAIN evals'[e] = EvalFields /\ evals'[e].pc = pc
      /\ evals'[e].told = evals[e].told
  BY WentSteps DEF EntryTypes, EvalFields
<1>2. evals'[e].told # "saved"
  BY <1>1 DEF EntryTypes
<1>3. BoundsOK'
  BY FaultedBounds DEF EntryTypes
<1> QED BY <1>1, <1>2, <1>3, EvalTypesMove

LEMMA EndsShape ==
    ASSUME EvalShapes, NEW e \in Evaluators, NEW why, Ends(e, why)
    PROVE  /\ DOMAIN evals' = Evaluators /\ \A o \in Evaluators \ {e} : evals'[o] = evals[o]
           /\ DOMAIN evals'[e] = EvalFields /\ evals'[e].pc = "done" /\ evals'[e].told = why
  BY DEF EvalShapes, Ends, EvalFields

LEMMA EndsTypes ==
    ASSUME EntryTypes, NEW e \in Evaluators, NEW why, why # "saved", evals[e].pc # "done",
           Ends(e, why), UNCHANGED <<live, book, open>>, Faulted \/ UNCHANGED bounds
    PROVE  EntryTypes'
<1>1. /\ DOMAIN evals' = Evaluators /\ \A o \in Evaluators \ {e} : evals'[o] = evals[o]
      /\ DOMAIN evals'[e] = EvalFields /\ evals'[e].pc = "done" /\ evals'[e].told # "saved"
  BY EndsShape DEF EntryTypes
<1>2. BoundsOK'
  BY FaultedBounds DEF EntryTypes
<1> QED BY <1>1, <1>2, EvalTypesMove DEF EvalStages

LEMMA AskingTypes ==
    ASSUME EntryTypes, NEW e \in Evaluators,
           (\E r \in Requests : Evaluate(e, r)) \/ Classify(e) \/ Ask(e)
    PROVE  EntryTypes'
<1>1. ASSUME NEW r \in Requests, Evaluate(e, r) PROVE EntryTypes'
  <2>1. /\ DOMAIN evals' = Evaluators /\ \A o \in Evaluators \ {e} : evals'[o] = evals[o]
        /\ DOMAIN evals'[e] = EvalFields
        /\ evals'[e].pc \in {"done", "classify", "ask"}
        /\ evals'[e].told \in {"error", "existing", "pending"}
        /\ evals[e].pc = "idle" /\ UNCHANGED <<live, book, open, bounds>>
    BY <1>1 DEF EntryTypes, EvalShapes, Evaluate, EvalFields
  <2>2. evals'[e].pc \in EvalStages /\ evals'[e].told # "saved" /\ BoundsOK'
    BY <2>1 DEF EvalStages, EntryTypes, BoundsOK
  <2> QED BY <2>1, <2>2, EvalTypesMove
<1>2. CASE Classify(e)
  BY <1>2, WentTypes, EndsTypes DEF Classify, EvalStages
<1>3. CASE Ask(e) /\ Ends(e, "error")
  BY <1>3, EndsTypes DEF Ask
<1>4. CASE Ask(e) /\ ~Ends(e, "error")
  <2>1. /\ evals' = [evals EXCEPT ![e].pc = "core", ![e].thr = live.threshold,
                                  ![e].asked = EntryQuestions(live.over)]
        /\ evals[e].pc = "ask" /\ UNCHANGED <<live, book, open, bounds>>
    BY <1>4 DEF Ask
  <2>2. /\ DOMAIN evals' = Evaluators /\ \A o \in Evaluators \ {e} : evals'[o] = evals[o]
        /\ DOMAIN evals'[e] = EvalFields /\ evals'[e].pc = "core"
        /\ evals'[e].told = evals[e].told
    BY <2>1 DEF EntryTypes, EvalShapes, EvalFields
  <2>3. evals'[e].pc \in EvalStages /\ evals'[e].told # "saved" /\ BoundsOK'
    BY <2>1, <2>2 DEF EvalStages, EntryTypes, BoundsOK
  <2> QED BY <2>1, <2>2, <2>3, EvalTypesMove
<1> QED BY <1>1, <1>2, <1>3, <1>4

LEMMA AnsweringTypes ==
    ASSUME EntryTypes, NEW e \in Evaluators,
           \/ \E ans \in Answers : BatchAnswered(e, ans)
           \/ \E esc \in EscalationAnswers : Escalate(e, esc)
           \/ BatchFails(e) \/ EscalationFails(e)
    PROVE  EntryTypes'
<1>1. ASSUME NEW ans \in Answers, BatchAnswered(e, ans) PROVE EntryTypes'
  <2>1. PICK pc, told, choice, conf, params :
           /\ pc \in {"done", "escalate", "assemble"} /\ told \in {"pending", "error"}
           /\ evals' = [evals EXCEPT ![e].batch = ans, ![e].pc = pc, ![e].told = told,
                          ![e].choice = choice, ![e].conf = conf, ![e].params = params]
    <3> DEFINE v == evals[e]
               got == [k \in v.asked \cap EntryParamKeys |-> ans.params[k]]
               frames == BucketTimeframes(live, v.req.bucket)
               values == ResolveEntry(live.over, got)
               core == Composed(ans)
               valid == ValidBatch(ans, frames) /\ Bad \notin {values[k] : k \in EntryParamKeys}
               pc == IF ~valid THEN "done" ELSE IF core.conf < v.thr THEN "escalate" ELSE "assemble"
               told == IF valid THEN "pending" ELSE "error"
    <3>1. evals' = [evals EXCEPT ![e].batch = ans, ![e].pc = pc, ![e].told = told,
                       ![e].choice = IF valid THEN core.choice ELSE @,
                       ![e].conf = IF valid THEN core.conf ELSE @,
                       ![e].params = IF valid THEN PackageParamRecord(live.over, values) ELSE @]
      BY <1>1 DEF BatchAnswered
    <3>2. told \in {"pending", "error"}
      OBVIOUS
    <3> HIDE DEF got, frames, values, core, valid
    <3>3. pc \in {"done", "escalate", "assemble"}
      OBVIOUS
    <3> HIDE DEF pc, told
    <3> QED BY <3>1, <3>2, <3>3
  <2>2. /\ DOMAIN evals' = Evaluators /\ \A o \in Evaluators \ {e} : evals'[o] = evals[o]
        /\ DOMAIN evals'[e] = EvalFields /\ evals'[e].pc = pc /\ evals'[e].told = told
    BY <2>1 DEF EntryTypes, EvalShapes, EvalFields
  <2>3. evals[e].pc = "core" /\ UNCHANGED <<live, book, open, bounds>>
    BY <1>1 DEF BatchAnswered
  <2>4. evals'[e].pc \in EvalStages /\ evals'[e].told # "saved" /\ BoundsOK'
    BY <2>1, <2>2, <2>3 DEF EvalStages, EntryTypes, BoundsOK
  <2> QED BY <2>2, <2>3, <2>4, EvalTypesMove
<1>2. ASSUME NEW esc \in EscalationAnswers, Escalate(e, esc), ~Ends(e, "error") PROVE EntryTypes'
  <2>1. evals' = [evals EXCEPT ![e].pc = "assemble",
                     ![e].choice = IF esc.conf > evals[e].conf THEN esc.choice ELSE @,
                     ![e].conf = Higher(esc.conf, @)]
    BY <1>2 DEF Escalate
  <2>2. /\ DOMAIN evals' = Evaluators /\ \A o \in Evaluators \ {e} : evals'[o] = evals[o]
        /\ DOMAIN evals'[e] = EvalFields /\ evals'[e].pc = "assemble"
        /\ evals'[e].told = evals[e].told
    BY <2>1 DEF EntryTypes, EvalShapes, EvalFields
  <2>3. evals[e].pc = "escalate" /\ UNCHANGED <<live, book, open, bounds>>
    BY <1>2 DEF Escalate
  <2>4. evals'[e].pc \in EvalStages /\ evals'[e].told # "saved" /\ BoundsOK'
    BY <2>2, <2>3 DEF EvalStages, EntryTypes, BoundsOK
  <2> QED BY <2>2, <2>3, <2>4, EvalTypesMove
<1>3. ASSUME NEW esc \in EscalationAnswers, Escalate(e, esc), Ends(e, "error") PROVE EntryTypes'
  BY <1>3, EndsTypes DEF Escalate
<1>4. CASE BatchFails(e) \/ EscalationFails(e)
  BY <1>4, EndsTypes DEF BatchFails, EscalationFails
<1> QED BY <1>1, <1>2, <1>3, <1>4

LEMMA RefusedReasons ==
    ASSUME NEW v, NEW c
    PROVE  Refused(v, c) # "saved"
  BY DEF Refused

LEMMA GateReasons ==
    ASSUME NEW long, NEW m, NEW oi, NEW sl, NEW lev, NEW buffer
    PROVE  EvaluateEntryGate(long, m, oi, sl, lev, buffer) # "saved"
<1> DEFINE rules == GateRules(long, m, oi, sl, lev, buffer)
           broken == {i \in 1..Len(rules) : rules[i].hit}
<1>1. Len(rules) = 5
  BY DEF GateRules
<1>2. /\ rules[1].rule # "saved" /\ rules[2].rule # "saved" /\ rules[3].rule # "saved"
      /\ rules[4].rule # "saved" /\ rules[5].rule # "saved"
  BY DEF GateRules
<1>3. EvaluateEntryGate(long, m, oi, sl, lev, buffer)
         = IF broken = {} THEN "passes" ELSE rules[Min(broken)].rule
  BY DEF EvaluateEntryGate
<1> HIDE DEF rules
<1>4. broken \subseteq 1..5 /\ broken \in SUBSET Nat
  BY <1>1
<1> HIDE DEF broken
<1>5. CASE broken # {}
  <2>1. Min(broken) \in 1..5
    BY <1>4, <1>5, LeastOf
  <2> QED BY <1>2, <1>3, <1>5, <2>1
<1> QED BY <1>3, <1>5

LEMMA DecidingTypes ==
    ASSUME EntryTypes, NEW e \in Evaluators,
           Assemble(e) \/ (\E oi \in OpenInterests : EntryGate(e, oi)) \/ SlotGuard(e)
    PROVE  EntryTypes'
<1>1. CASE Assemble(e)
  <2> DEFINE v == evals[e]
             c == Candidate(v)
             why == Refused(v, c)
  <2>1. /\ v.pc = "assemble" /\ UNCHANGED <<live, book, open, bounds>>
        /\ \/ Ends(e, "hold") \/ Ends(e, why)
           \/ evals' = [evals EXCEPT ![e].pc = "gate", ![e].sig = c]
    BY <1>1 DEF Assemble
  <2>2. why # "saved"
    BY RefusedReasons
  <2> HIDE DEF c, why
  <2>3. CASE Ends(e, "hold") \/ Ends(e, why)
    BY <2>1, <2>2, <2>3, EndsTypes
  <2>4. CASE evals' = [evals EXCEPT ![e].pc = "gate", ![e].sig = c]
    <3>1. /\ DOMAIN evals' = Evaluators /\ \A o \in Evaluators \ {e} : evals'[o] = evals[o]
          /\ DOMAIN evals'[e] = EvalFields /\ evals'[e].pc = "gate"
          /\ evals'[e].told = evals[e].told
      BY <2>4 DEF EntryTypes, EvalShapes, EvalFields
    <3>2. evals'[e].pc \in EvalStages /\ evals'[e].told # "saved" /\ BoundsOK'
      BY <2>1, <3>1 DEF EvalStages, EntryTypes, BoundsOK
    <3> QED BY <2>1, <3>1, <3>2, EvalTypesMove
  <2> QED BY <2>1, <2>3, <2>4
<1>2. ASSUME NEW oi \in OpenInterests, EntryGate(e, oi) PROVE EntryTypes'
  <2> DEFINE v == evals[e]
             rule == EvaluateEntryGate(v.sig.dir = "LONG", v.req, oi, v.sig.sl, v.sig.leverage,
                                       ProfileForBucket(v.req.bucket).liqBuffer)
  <2>1. /\ v.pc = "gate" /\ UNCHANGED <<live, book, open, bounds>>
        /\ Went(e, "guard") \/ Ends(e, rule)
    BY <1>2 DEF EntryGate
  <2>2. rule # "saved"
    BY GateReasons
  <2> HIDE DEF rule
  <2> QED BY <2>1, <2>2, WentTypes, EndsTypes DEF EvalStages
<1>3. CASE SlotGuard(e)
  BY <1>3, WentTypes, EndsTypes DEF SlotGuard, EvalStages
<1> QED BY <1>1, <1>2, <1>3

\* The insert is the one step that lengthens the book, and the evaluator that
\* takes it is through.
LEMMA InsertTypes ==
    ASSUME EntryTypes, NEW e \in Evaluators, Insert(e)
    PROVE  EntryTypes'
<1>1. evals[e].pc = "insert" /\ UNCHANGED live
  BY DEF Insert
<1>2. CASE Ends(e, "error") /\ Faulted /\ UNCHANGED <<book, open>>
  BY <1>1, <1>2, EndsTypes
<1>3. CASE Ends(e, "saved") /\ book' = Append(book, evals[e].sig) /\ open' = TRUE
           /\ UNCHANGED bounds
  <2>1. /\ DOMAIN evals' = Evaluators /\ \A o \in Evaluators \ {e} : evals'[o] = evals[o]
        /\ DOMAIN evals'[e] = EvalFields /\ evals'[e].pc = "done"
        /\ evals'[e].told = "saved"
    BY <1>3, EndsShape DEF EntryTypes
  <2>2. e \notin Inserted
    BY <1>1 DEF Inserted, EntryTypes
  <2>3. Inserted' = Inserted \cup {e}
    BY <2>1 DEF Inserted
  <2>4. Cardinality(Inserted') = Cardinality(Inserted) + 1
    BY <2>2, <2>3, InsertedIsFinite, FS_AddElement
  <2>5. PICK S : book \in Seq(S)
    BY DEF EntryTypes, BookIsAList
  <2>6. book' \in Seq(S \cup {evals[e].sig}) /\ Len(book') = Len(book) + 1 /\ Len(book) \in Nat
    BY <1>3, <2>5
  <2>7. BookIsAList' /\ Len(book') <= Cardinality(Inserted')
    BY <2>4, <2>6, InsertedIsFinite DEF BookIsAList, EntryTypes
  <2>8. EvalShapes' /\ BoundsOK' /\ open' \in BOOLEAN
    BY <1>3, <2>1 DEF EntryTypes, EvalShapes, BoundsOK
  <2>9. \A o \in Evaluators : /\ evals'[o].pc \in EvalStages
                              /\ evals'[o].told = "saved" => evals'[o].pc = "done"
    BY <2>1 DEF EntryTypes, EvalStages
  <2> QED BY <1>1, <2>7, <2>8, <2>9 DEF EntryTypes
<1> QED BY <1>2, <1>3 DEF Insert

LEMMA EntryTypesInit == ASSUME EntryInit PROVE EntryTypes
<1>1. DOMAIN evals = Evaluators /\ \A e \in Evaluators : evals[e] = Fresh
  BY DEF EntryInit
<1>2. DOMAIN Fresh = EvalFields /\ Fresh.pc = "idle" /\ Fresh.told = "pending"
  BY DEF Fresh, EvalFields
<1>3. book = <<>> /\ book \in Seq({}) /\ Len(book) = 0
  BY DEF EntryInit
<1>4. BookIsAList /\ Len(book) <= Cardinality(Inserted)
  BY <1>3, InsertedIsFinite DEF BookIsAList
<1>5. BoundsOK
  BY EntryDecisionAssumption DEF EntryInit, BoundsOK
<1> QED BY <1>1, <1>2, <1>4, <1>5 DEF EntryInit, EntryTypes, EvalShapes, EvalStages

LEMMA EntryTypesNext ==
    ASSUME EntryTypes, [EntryNext]_entryVars
    PROVE  EntryTypes'
<1>1. CASE UNCHANGED entryVars
  BY <1>1 DEF entryVars, EntryTypes, EvalShapes, BoundsOK, BookIsAList, Inserted
<1>2. ASSUME NEW s \in LiveSettings, SaveLive(s) PROVE EntryTypes'
  <2>1. BoundsOK'
    BY <1>2, EntryDecisionAssumption DEF SaveLive, EntryTypes, BoundsOK
  <2> QED BY <1>2, <2>1 DEF SaveLive, EntryTypes, EvalShapes, BookIsAList, Inserted
<1>3. CASE CloseSymbol
  <2>1. BoundsOK'
    BY <1>3, EntryDecisionAssumption DEF CloseSymbol, EntryTypes, BoundsOK
  <2> QED BY <1>3, <2>1 DEF CloseSymbol, EntryTypes, EvalShapes, BookIsAList, Inserted
<1> QED BY <1>1, <1>2, <1>3, AskingTypes, AnsweringTypes, DecidingTypes, InsertTypes DEF EntryNext

LEMMA EntryTypesFollow == EntryTypes => EntryTypeOK
<1> SUFFICES ASSUME EntryTypes PROVE EntryTypeOK
  OBVIOUS
<1>1. Len(book) <= Cardinality(Evaluators)
  <2>1. PICK S : book \in Seq(S)
    BY DEF EntryTypes, BookIsAList
  <2>2. Len(book) \in Nat /\ Cardinality(Evaluators) \in Nat
    BY <2>1, EntryDecisionAssumption, FS_CardinalityType
  <2> QED BY <2>2, InsertedIsFinite DEF EntryTypes
<1> QED BY <1>1, EntryDecisionAssumption DEF EntryTypes, EntryTypeOK, BoundsOK, EvalStages

---------------------------------------------------------------------------
(* What Load and UpsertEnv do *)

\* Loading twice changes nothing that loading once did not: the live
\* configuration may stand in for the file its values came from.
LEMMA LoadsTheSame ==
    ASSUME NEW f, NEW edit
    PROVE  Load(Upsert(Load(f), edit)) = Load(Upsert(f, edit))
<1>1. ASSUME NEW k \in Keys
      PROVE  Load(Upsert(Load(f), edit))[k] = Load(Upsert(f, edit))[k]
  <2>1. CASE k \in DOMAIN edit
    BY <2>1 DEF Load, Upsert
  <2>2. CASE k \notin DOMAIN edit
    <3>1. Upsert(Load(f), edit)[k] = Load(f)[k] /\ Upsert(f, edit)[k] = f[k]
      BY <2>2 DEF Upsert
    <3> QED BY <3>1 DEF Load
  <2> QED BY <2>1, <2>2
<1> QED BY <1>1 DEF Load

LEMMA CredentialsAreRequired ==
    /\ TelegramKeys \subseteq Keys /\ TelegramKeys \subseteq RequiredKeys
    /\ \A f : \A k \in TelegramKeys : Load(f)[k] = f[k]
<1>1. TelegramKeys \subseteq Keys /\ TelegramKeys \subseteq RequiredKeys
  BY DEF Keys, RequiredKeys
<1> QED BY <1>1 DEF Load

---------------------------------------------------------------------------
(* The inductive invariant *)

SaveFields == {"kind", "edit", "enabled", "read", "pc"}

BotHas(f) == bot.token = f["TELEGRAM_BOT_TOKEN"] /\ bot.chat = f["TELEGRAM_CHAT_ID"]

\* The end of the save will make a new bot.
MakesBot(r) == save[r].kind = "put" /\ DOMAIN save[r].edit \cap TelegramKeys # {}

\* How far a save has come, when it is alone: the configuration is what the
\* file held before it, and its last step brings what the file will hold.
Underway(r) ==
    /\ save[r].pc \in {"read", "write", "rewrite", "apply"}
    /\ save[r].pc \in {"read", "write"} =>
          cfg = Load(file) /\ (MakesBot(r) \/ BotHas(Upsert(file, save[r].edit)))
    /\ save[r].pc = "write" => save[r].read = file
    /\ save[r].pc = "rewrite" =>
          /\ cfg = Load(save[r].read)
          /\ MakesBot(r) \/ BotHas(Upsert(save[r].read, save[r].edit))
    /\ save[r].pc = "apply" =>
          /\ Load(Upsert(cfg, save[r].edit)) = Load(file)
          /\ MakesBot(r) \/ BotHas(file)

SaveShapes == DOMAIN save = Saves /\ \A r \in Saves : DOMAIN save[r] = SaveFields

SettingsInv ==
    /\ SaveShapes
    /\ up /\ quiet =>
          /\ \A r, s \in Active : r = s
          /\ Active = {} => cfg = Load(file) /\ BotHas(file)
          /\ \A r \in Active : Underway(r)

---------------------------------------------------------------------------
(* Steps of a save *)

\* A save at work that moves on, or ends with file and configuration agreed.
LEMMA SaveMoves ==
    ASSUME SettingsInv, NEW r \in Active, UNCHANGED <<up, quiet>>,
           DOMAIN save' = Saves, DOMAIN save'[r] = SaveFields,
           \A s \in Saves \ {r} : save'[s] = save[s],
           up /\ quiet /\ Underway(r) =>
               \/ Underway(r)'
               \/ save'[r].pc \in Finished /\ cfg' = Load(file') /\ BotHas(file)'
    PROVE  SettingsInv'
<1>1. r \in Saves /\ save[r].pc \notin Finished
  BY DEF Active
<1>2. SaveShapes'
  BY <1>1 DEF SettingsInv, SaveShapes
<1>3. ASSUME up, quiet
      PROVE  /\ \A q, s \in Active' : q = s
             /\ Active' = {} => cfg' = Load(file') /\ BotHas(file)'
             /\ \A s \in Active' : Underway(s)'
  <2>1. Active = {r} /\ Underway(r)
    BY <1>3 DEF SettingsInv
  <2>2. \A s \in Saves \ {r} : s \notin Active'
    BY <1>1, <2>1 DEF Active
  <2>3. CASE Underway(r)'
    <3>1. r \in Active'
      BY <1>1, <2>3 DEF Underway, Active, Finished
    <3>2. Active' = {r}
      BY <2>2, <3>1 DEF Active
    <3> QED BY <2>3, <3>2
  <2>4. CASE save'[r].pc \in Finished /\ cfg' = Load(file') /\ BotHas(file)'
    <3>1. Active' = {}
      BY <2>2, <2>4 DEF Active
    <3> QED BY <2>4, <3>1
  <2> QED BY <1>3, <2>1, <2>3, <2>4
<1> QED BY <1>2, <1>3 DEF SettingsInv

LEMMA PcStep ==
    ASSUME SaveShapes, NEW r \in Saves, NEW pc, Pc(r, pc)
    PROVE  /\ DOMAIN save' = Saves
           /\ \A s \in Saves \ {r} : save'[s] = save[s]
           /\ DOMAIN save'[r] = SaveFields
           /\ save'[r].pc = pc
           /\ \A f \in SaveFields \ {"pc"} : save'[r][f] = save[r][f]
  BY DEF SaveShapes, Pc, SaveFields

LEMMA ReadFileStep ==
    ASSUME SettingsInv, NEW r \in Saves, ReadFile(r)
    PROVE  SettingsInv'
<1>1. r \in Active
  BY DEF ReadFile, Active, Finished
<1>2. /\ DOMAIN save' = Saves /\ \A s \in Saves \ {r} : save'[s] = save[s]
      /\ DOMAIN save'[r] = SaveFields
      /\ save'[r].pc = "write" /\ save'[r].read = file
      /\ save'[r].kind = save[r].kind /\ save'[r].edit = save[r].edit
  BY DEF ReadFile, SettingsInv, SaveShapes, SaveFields
<1>3. UNCHANGED <<file, up, cfg, bot, quiet>> /\ save[r].pc = "read"
  BY DEF ReadFile
<1>4. Underway(r) => Underway(r)'
  BY <1>2, <1>3 DEF Underway, MakesBot, BotHas
<1> QED BY <1>1, <1>2, <1>3, <1>4, SaveMoves

\* Cut or replaced: what the save has read is what the file held.
LEMMA ReplaceFileStep ==
    ASSUME SettingsInv, NEW r \in Saves, ReplaceFile(r)
    PROVE  SettingsInv'
<1>1. r \in Active /\ save[r].pc = "write"
  BY DEF ReplaceFile, Active, Finished
<1>2. UNCHANGED <<up, cfg, bot, quiet>>
  BY DEF ReplaceFile
<1>3. CASE Mounted
  <2>1. Pc(r, "rewrite")
    BY <1>3 DEF ReplaceFile
  <2>2. /\ DOMAIN save' = Saves /\ \A s \in Saves \ {r} : save'[s] = save[s]
        /\ DOMAIN save'[r] = SaveFields
        /\ save'[r].pc = "rewrite" /\ save'[r].read = save[r].read
        /\ save'[r].kind = save[r].kind /\ save'[r].edit = save[r].edit
    BY <2>1, PcStep DEF SettingsInv, SaveFields
  <2>3. Underway(r) => Underway(r)'
    BY <1>1, <1>2, <2>2 DEF Underway, MakesBot, BotHas
  <2> QED BY <1>1, <1>2, <2>2, <2>3, SaveMoves
<1>4. CASE ~Mounted
  <2>1. Pc(r, "apply") /\ file' = Upsert(save[r].read, save[r].edit)
    BY <1>4 DEF ReplaceFile
  <2>2. /\ DOMAIN save' = Saves /\ \A s \in Saves \ {r} : save'[s] = save[s]
        /\ DOMAIN save'[r] = SaveFields
        /\ save'[r].pc = "apply"
        /\ save'[r].kind = save[r].kind /\ save'[r].edit = save[r].edit
    BY <2>1, PcStep DEF SettingsInv, SaveFields
  <2>3. ASSUME Underway(r) PROVE Underway(r)'
    <3>1. cfg = Load(save[r].read) /\ (MakesBot(r) \/ BotHas(file'))
      BY <1>1, <2>1, <2>3 DEF Underway
    <3>2. Load(Upsert(cfg', save'[r].edit)) = Load(file')
      BY <1>2, <2>1, <2>2, <3>1, LoadsTheSame
    <3>3. MakesBot(r)' \/ BotHas(file)'
      BY <1>2, <2>2, <3>1 DEF MakesBot, BotHas
    <3> QED BY <2>2, <3>2, <3>3 DEF Underway
  <2> QED BY <1>1, <1>2, <2>2, <2>3, SaveMoves
<1> QED BY <1>3, <1>4

LEMMA RewriteFileStep ==
    ASSUME SettingsInv, NEW r \in Saves, RewriteFile(r)
    PROVE  SettingsInv'
<1>1. r \in Active /\ save[r].pc = "rewrite"
  BY DEF RewriteFile, Active, Finished
<1>2. /\ UNCHANGED <<up, cfg, bot, quiet>> /\ Pc(r, "apply")
      /\ file' = Upsert(save[r].read, save[r].edit)
  BY DEF RewriteFile
<1>3. /\ DOMAIN save' = Saves /\ \A s \in Saves \ {r} : save'[s] = save[s]
      /\ DOMAIN save'[r] = SaveFields
      /\ save'[r].pc = "apply"
      /\ save'[r].kind = save[r].kind /\ save'[r].edit = save[r].edit
  BY <1>2, PcStep DEF SettingsInv, SaveFields
<1>4. ASSUME Underway(r) PROVE Underway(r)'
  <2>1. cfg = Load(save[r].read) /\ (MakesBot(r) \/ BotHas(file'))
    BY <1>1, <1>2, <1>4 DEF Underway
  <2>2. Load(Upsert(cfg', save'[r].edit)) = Load(file')
    BY <1>2, <1>3, <2>1, LoadsTheSame
  <2>3. MakesBot(r)' \/ BotHas(file)'
    BY <1>2, <1>3, <2>1 DEF MakesBot, BotHas
  <2> QED BY <1>3, <2>2, <2>3 DEF Underway
<1> QED BY <1>1, <1>2, <1>3, <1>4, SaveMoves

\* The configuration takes the request's keys and is what Load makes of the
\* file; a bot made from it has the file's credentials, which Load leaves alone.
LEMMA ApplyLiveStep ==
    ASSUME SettingsInv, NEW r \in Saves, ApplyLive(r)
    PROVE  SettingsInv'
<1>1. r \in Active /\ save[r].pc = "apply"
  BY DEF ApplyLive, Active, Finished
<1>2. /\ UNCHANGED <<file, up, quiet>> /\ Pc(r, "done")
      /\ cfg' = Load(Upsert(cfg, save[r].edit))
      /\ bot' = IF MakesBot(r) THEN BotFrom(cfg') ELSE bot
  BY DEF ApplyLive, MakesBot
<1>3. /\ DOMAIN save' = Saves /\ \A s \in Saves \ {r} : save'[s] = save[s]
      /\ DOMAIN save'[r] = SaveFields /\ save'[r].pc \in Finished
  BY <1>2, PcStep DEF SettingsInv, Finished
<1>4. ASSUME Underway(r) PROVE cfg' = Load(file') /\ BotHas(file)'
  <2>1. cfg' = Load(file')
    BY <1>1, <1>2, <1>4 DEF Underway
  <2>2. CASE MakesBot(r)
    <3>1. bot' = BotFrom(Load(file'))
      BY <1>2, <2>1, <2>2
    <3>2. bot'.token = Load(file')["TELEGRAM_BOT_TOKEN"]
          /\ bot'.chat = Load(file')["TELEGRAM_CHAT_ID"]
      BY <3>1 DEF BotFrom
    <3> QED BY <2>1, <3>2, CredentialsAreRequired DEF BotHas, TelegramKeys
  <2>3. CASE ~MakesBot(r)
    BY <1>1, <1>2, <1>4, <2>1, <2>3 DEF Underway, BotHas
  <2> QED BY <2>2, <2>3
<1> QED BY <1>1, <1>2, <1>3, <1>4, SaveMoves

LEMMA WriteFailsStep ==
    ASSUME SettingsInv, NEW r \in Saves, WriteFails(r)
    PROVE  SettingsInv'
<1>1. Pc(r, "failed") /\ quiet' = FALSE
  BY DEF WriteFails
<1>2. SaveShapes'
  BY <1>1, PcStep DEF SettingsInv, SaveShapes
<1> QED BY <1>1, <1>2 DEF SettingsInv

---------------------------------------------------------------------------
(* Requests and restarts *)

\* A request that finds no other at work starts from an agreed state.
LEMMA SaveArrives ==
    ASSUME SettingsInv, NEW r \in Saves, up, save[r].pc = "idle", Arrive, UNCHANGED up,
           DOMAIN save' = Saves, DOMAIN save'[r] = SaveFields,
           \A s \in Saves \ {r} : save'[s] = save[s],
           cfg = Load(file) /\ BotHas(file) =>
               \/ Underway(r)'
               \/ save'[r].pc \in Finished /\ cfg' = Load(file') /\ BotHas(file)'
    PROVE  SettingsInv'
<1>1. SaveShapes'
  BY DEF SettingsInv, SaveShapes
<1>2. ASSUME quiet'
      PROVE  /\ \A q, s \in Active' : q = s
             /\ Active' = {} => cfg' = Load(file') /\ BotHas(file)'
             /\ \A s \in Active' : Underway(s)'
  <2>1. quiet /\ Active = {} /\ cfg = Load(file) /\ BotHas(file)
    BY <1>2 DEF Arrive, SettingsInv
  <2>2. \A s \in Saves \ {r} : s \notin Active'
    BY <2>1 DEF Active
  <2>3. CASE Underway(r)'
    <3>1. r \in Active'
      BY <2>3 DEF Underway, Active, Finished
    <3>2. Active' = {r}
      BY <2>2, <3>1 DEF Active
    <3> QED BY <2>3, <3>2
  <2>4. CASE save'[r].pc \in Finished /\ cfg' = Load(file') /\ BotHas(file)'
    <3>1. Active' = {}
      BY <2>2, <2>4 DEF Active
    <3> QED BY <2>4, <3>1
  <2> QED BY <2>1, <2>3, <2>4
<1> QED BY <1>1, <1>2 DEF SettingsInv

LEMMA PutConfigStep ==
    ASSUME SettingsInv, NEW r \in Saves, NEW edit, NEW probed \in BOOLEAN,
           PutConfig(r, edit, probed)
    PROVE  SettingsInv'
<1> DEFINE saved == {k \in DOMAIN edit : k # "TYPESAFE_API_KEY" \/ edit[k] # Blank}
           valid == /\ \A k \in saved : edit[k] \in PageRange(k)
                    /\ "TYPESAFE_API_KEY" \in saved => probed
<1>1. /\ up /\ save[r].pc = "idle" /\ Arrive
      /\ UNCHANGED <<file, up, cfg, bot>>
      /\ save' = [save EXCEPT ![r] = [kind |-> "put", edit |-> Restrict(edit, saved),
                                      enabled |-> TRUE, read |-> <<>>,
                                      pc |-> CASE ~valid -> "refused"
                                               [] valid /\ saved = {} -> "apply"
                                               [] OTHER -> "read"]]
  BY DEF PutConfig
<1> HIDE DEF valid, saved
<1>2. /\ DOMAIN save' = Saves /\ \A s \in Saves \ {r} : save'[s] = save[s]
      /\ DOMAIN save'[r] = SaveFields
      /\ save'[r].kind = "put" /\ save'[r].edit = Restrict(edit, saved)
      /\ \/ save'[r].pc = "refused"
         \/ save'[r].pc = "apply" /\ saved = {}
         \/ save'[r].pc = "read"
  BY <1>1 DEF SettingsInv, SaveShapes, SaveFields
<1>3. ASSUME cfg = Load(file), BotHas(file)
      PROVE  \/ Underway(r)'
             \/ save'[r].pc \in Finished /\ cfg' = Load(file') /\ BotHas(file)'
  <2>1. cfg' = Load(file') /\ BotHas(file)'
    BY <1>1, <1>3 DEF BotHas
  <2>2. CASE save'[r].pc = "refused"
    BY <2>1, <2>2 DEF Finished
  <2>3. CASE save'[r].pc = "apply" /\ saved = {}
    <3>1. DOMAIN save'[r].edit = {}
      BY <1>2, <2>3 DEF Restrict
    <3>2. Load(Upsert(file', save'[r].edit)) = Load(file')
      BY <3>1 DEF Load, Upsert
    <3>3. Load(Upsert(cfg', save'[r].edit)) = Load(file')
      BY <2>1, <3>2, LoadsTheSame
    <3> QED BY <2>1, <2>3, <3>3 DEF Underway
  <2>4. CASE save'[r].pc = "read"
    <3>1. MakesBot(r)' \/ BotHas(Upsert(file, save[r].edit))'
      <4> SUFFICES ASSUME ~MakesBot(r)' PROVE BotHas(Upsert(file, save[r].edit))'
        OBVIOUS
      <4>1. \A k \in TelegramKeys : k \notin DOMAIN save'[r].edit
        BY <1>2 DEF MakesBot
      <4>2. \A k \in TelegramKeys : Upsert(file', save'[r].edit)[k] = file'[k]
        BY <4>1, CredentialsAreRequired DEF Upsert
      <4> QED BY <2>1, <4>2 DEF BotHas, TelegramKeys
    <3> QED BY <2>1, <2>4, <3>1 DEF Underway
  <2> QED BY <1>2, <2>2, <2>3, <2>4
<1> QED BY <1>1, <1>2, <1>3, SaveArrives

\* The bot is changed first, to what the save will put into the file.
LEMMA PostTelegramStep ==
    ASSUME SettingsInv, NEW r \in Saves, NEW edit, NEW enabled \in BOOLEAN,
           PostTelegram(r, edit, enabled)
    PROVE  SettingsInv'
<1> DEFINE full == [k \in TelegramKeys |->
                       IF k \in DOMAIN edit /\ edit[k] # Blank THEN edit[k]
                       ELSE IF k = "TELEGRAM_BOT_TOKEN" THEN bot.token ELSE bot.chat]
<1>1. /\ up /\ save[r].pc = "idle" /\ Arrive /\ UNCHANGED <<file, up, cfg>>
      /\ bot' = [BotFrom(full) EXCEPT !.enabled = enabled]
      /\ save' = [save EXCEPT ![r] = [kind |-> "telegram", edit |-> full,
                                      enabled |-> enabled, read |-> <<>>, pc |-> "read"]]
  BY DEF PostTelegram
<1>2. DOMAIN full = TelegramKeys
  OBVIOUS
<1> HIDE DEF full
<1>3. /\ DOMAIN save' = Saves /\ \A s \in Saves \ {r} : save'[s] = save[s]
      /\ DOMAIN save'[r] = SaveFields
      /\ save'[r].edit = full /\ save'[r].pc = "read"
  BY <1>1 DEF SettingsInv, SaveShapes, SaveFields
<1>4. bot'.token = full["TELEGRAM_BOT_TOKEN"] /\ bot'.chat = full["TELEGRAM_CHAT_ID"]
  BY <1>1 DEF BotFrom
<1>5. \A k \in TelegramKeys : Upsert(file', full)[k] = full[k]
  BY <1>2, CredentialsAreRequired DEF Upsert
<1>6. BotHas(Upsert(file, save[r].edit))'
  BY <1>3, <1>4, <1>5 DEF BotHas, TelegramKeys
<1>7. cfg = Load(file) => Underway(r)'
  BY <1>1, <1>3, <1>6 DEF Underway
<1> QED BY <1>1, <1>3, <1>7, SaveArrives

\* A new process has nothing under way, and what it runs is what it loaded.
LEMMA RebootStep ==
    ASSUME SettingsInv, Reboot
    PROVE  SettingsInv'
<1>1. save' = [r \in Saves |-> IF r \in Active THEN [save[r] EXCEPT !.pc = "cut"] ELSE save[r]]
  BY DEF Reboot
<1>2. SaveShapes'
  BY <1>1 DEF SettingsInv, SaveShapes, SaveFields
<1>3. Active' = {}
  <2>1. ASSUME NEW r \in Saves PROVE save'[r].pc \in Finished
    <3>1. CASE r \in Active
      BY <1>1, <3>1 DEF SettingsInv, SaveShapes, SaveFields, Finished
    <3>2. CASE r \notin Active
      BY <1>1, <3>2 DEF Active
    <3> QED BY <3>1, <3>2
  <2> QED BY <2>1 DEF Active
<1>4. ASSUME up' PROVE cfg' = Load(file') /\ BotHas(file)'
  <2>1. cfg' = Load(file) /\ bot' = BotFrom(cfg') /\ file' = file
    BY <1>4 DEF Reboot
  <2>2. bot'.token = cfg'["TELEGRAM_BOT_TOKEN"] /\ bot'.chat = cfg'["TELEGRAM_CHAT_ID"]
    BY <2>1 DEF BotFrom
  <2> QED BY <2>1, <2>2, CredentialsAreRequired DEF BotHas, TelegramKeys
<1> QED BY <1>2, <1>3, <1>4 DEF SettingsInv

---------------------------------------------------------------------------
(* The theorem *)

LEMMA SettingsInvInit == ASSUME SettingsInit PROVE SettingsInv
<1>1. SaveShapes /\ Active = {}
  BY DEF SettingsInit, NoSave, SaveShapes, SaveFields, Active, Finished
<1>2. cfg = Load(file) /\ bot = BotFrom(cfg)
  BY DEF SettingsInit
<1>3. bot.token = cfg["TELEGRAM_BOT_TOKEN"] /\ bot.chat = cfg["TELEGRAM_CHAT_ID"]
  BY <1>2 DEF BotFrom
<1>4. BotHas(file)
  BY <1>2, <1>3, CredentialsAreRequired DEF BotHas, TelegramKeys
<1> QED BY <1>1, <1>2, <1>4 DEF SettingsInv

LEMMA SettingsInvNext ==
    ASSUME SettingsInv, [SettingsNext]_settingsVars
    PROVE  SettingsInv'
<1>1. ASSUME NEW r \in Saves,
             \/ ReadFile(r) \/ ReplaceFile(r) \/ RewriteFile(r) \/ WriteFails(r) \/ ApplyLive(r)
      PROVE  SettingsInv'
  BY <1>1, ReadFileStep, ReplaceFileStep, RewriteFileStep, WriteFailsStep, ApplyLiveStep
<1>2. ASSUME NEW r \in Saves, NEW edit \in Payloads, NEW b \in BOOLEAN,
             PutConfig(r, edit, b) \/ PostTelegram(r, edit, b)
      PROVE  SettingsInv'
  BY <1>2, PutConfigStep, PostTelegramStep
<1>3. CASE UNCHANGED settingsVars
  BY <1>3 DEF settingsVars, SettingsInv, SaveShapes, Active, Underway, MakesBot, BotHas
<1> QED BY <1>1, <1>2, <1>3, RebootStep DEF SettingsNext

THEOREM SettingsInvariant == SettingsSpec => []SettingsInv
  BY SettingsInvInit, SettingsInvNext, PTL DEF SettingsSpec

\* For any requests, payloads and first file, and for a file replaced in one
\* step or in two: while saves do not overlap, fail or get cut off, the running
\* configuration is what a restart would load.
THEOREM RestartBringsTheSame == SettingsSpec => []ReloadAgrees
<1>1. SettingsInv => ReloadAgrees
  BY DEF SettingsInv, ReloadAgrees, BotHas
<1> QED BY <1>1, SettingsInvariant, PTL

---------------------------------------------------------------------------
(* Types of the settings *)

\* What a save holds: the values it brings, and the file once it has read it.
SaveTypes ==
    /\ SaveShapes
    /\ \A r \in Saves :
          /\ \A k \in DOMAIN save[r].edit : save[r].edit[k] \in Int
          /\ save[r].pc \in {"write", "rewrite"} => save[r].read \in [Keys -> Int]

SettingsTypes == SettingsTypeOK /\ DOMAIN settingsBudget = {"faults", "reboots"} /\ SaveTypes

LEMMA LoadIsTyped ==
    ASSUME NEW f \in [Keys -> Int]
    PROVE  Load(f) \in [Keys -> Int] /\ Load(f)["DEFAULT_LEVERAGE"] # Blank
<1>1. \A k \in Keys : CoreValue(k) \in Int
  BY DEF CoreValue, Blank
<1>2. /\ "DEFAULT_LEVERAGE" \in Keys /\ "DEFAULT_LEVERAGE" \notin RequiredKeys
      /\ CoreValue("DEFAULT_LEVERAGE") # Blank
  BY DEF Keys, ManagedKeys, OverrideKeys, RequiredKeys, ModelKeys, TelegramKeys, CoreValue, Blank
<1>3. Load(f) \in [Keys -> Int]
  BY <1>1 DEF Load
<1>4. Load(f)["DEFAULT_LEVERAGE"] # Blank
  <2>1. \A k \in Keys : Load(f)[k] = IF k \notin RequiredKeys /\ f[k] \in Empty
                                     THEN CoreValue(k) ELSE f[k]
    BY DEF Load
  <2> QED BY <1>2, <2>1 DEF Empty
<1> QED BY <1>3, <1>4

LEMMA UpsertIsTyped ==
    ASSUME NEW f \in [Keys -> Int], NEW edit, \A k \in DOMAIN edit : edit[k] \in Int
    PROVE  Upsert(f, edit) \in [Keys -> Int]
  BY DEF Upsert

LEMMA BotIsTyped ==
    ASSUME NEW f, f["TELEGRAM_BOT_TOKEN"] \in Int, f["TELEGRAM_CHAT_ID"] \in Int
    PROVE  BotFrom(f) \in [token : Int, chat : Int, enabled : BOOLEAN]
  BY DEF BotFrom

LEMMA LoadedBot ==
    ASSUME NEW f \in [Keys -> Int]
    PROVE  BotFrom(Load(f)) \in [token : Int, chat : Int, enabled : BOOLEAN]
<1>1. Load(f) \in [Keys -> Int]
  BY LoadIsTyped
<1>2. "TELEGRAM_BOT_TOKEN" \in Keys /\ "TELEGRAM_CHAT_ID" \in Keys
  BY DEF Keys, RequiredKeys, TelegramKeys
<1> QED BY <1>1, <1>2, BotIsTyped

\* A save moves on: it keeps what it brings.
LEMMA PcKeepsTypes ==
    ASSUME SaveTypes, NEW r \in Saves, NEW pc, Pc(r, pc),
           pc \in {"write", "rewrite"} => save[r].read \in [Keys -> Int]
    PROVE  SaveTypes'
<1>1. /\ DOMAIN save' = Saves /\ \A s \in Saves \ {r} : save'[s] = save[s]
      /\ DOMAIN save'[r] = SaveFields /\ save'[r].pc = pc
      /\ save'[r].edit = save[r].edit /\ save'[r].read = save[r].read
  BY PcStep DEF SaveTypes, SaveFields
<1> QED BY <1>1 DEF SaveTypes, SaveShapes

LEMMA SettingsTypesInit == ASSUME SettingsInit PROVE SettingsTypes
<1>1. FirstFile \in [Keys -> Int] /\ MaxFileFaults \in Nat /\ MaxReboots \in Nat
  BY SettingsAssumption
<1>2. file \in [Keys -> Int] /\ cfg = Load(file) /\ bot = BotFrom(cfg)
  BY <1>1 DEF SettingsInit
<1>3. /\ cfg \in [Keys -> Int] /\ cfg["DEFAULT_LEVERAGE"] # Blank
      /\ bot \in [token : Int, chat : Int, enabled : BOOLEAN]
  BY <1>2, LoadIsTyped, LoadedBot
<1>4. /\ DOMAIN settingsBudget = {"faults", "reboots"}
      /\ settingsBudget.faults \in 0..MaxFileFaults /\ settingsBudget.reboots \in 0..MaxReboots
  BY <1>1 DEF SettingsInit
<1>5. SaveTypes
  BY DEF SettingsInit, NoSave, SaveTypes, SaveShapes, SaveFields
<1> QED BY <1>2, <1>3, <1>4, <1>5 DEF SettingsTypes, SettingsTypeOK

LEMMA SavingTypes ==
    ASSUME SettingsTypes, NEW r \in Saves,
           ReadFile(r) \/ ReplaceFile(r) \/ RewriteFile(r) \/ WriteFails(r) \/ ApplyLive(r)
    PROVE  SettingsTypes'
<1>1. CASE ReadFile(r)
  <2>1. /\ DOMAIN save' = Saves /\ \A s \in Saves \ {r} : save'[s] = save[s]
        /\ DOMAIN save'[r] = SaveFields /\ save'[r].read = file
        /\ save'[r].edit = save[r].edit
    BY <1>1 DEF ReadFile, SettingsTypes, SaveTypes, SaveShapes, SaveFields
  <2>2. SaveTypes'
    BY <2>1 DEF SettingsTypes, SettingsTypeOK, SaveTypes, SaveShapes
  <2> QED BY <1>1, <2>2 DEF ReadFile, SettingsTypes, SettingsTypeOK
<1>2. CASE ReplaceFile(r) /\ Mounted
  <2>1. Pc(r, "rewrite") /\ file' = Emptied /\ save[r].pc = "write"
    BY <1>2 DEF ReplaceFile
  <2>2. SaveTypes'
    BY <2>1, PcKeepsTypes DEF SettingsTypes, SaveTypes
  <2>3. file' \in [Keys -> Int]
    BY <2>1 DEF Emptied, Absent
  <2> QED BY <1>2, <2>2, <2>3 DEF ReplaceFile, SettingsTypes, SettingsTypeOK
<1>3. CASE (ReplaceFile(r) /\ ~Mounted) \/ RewriteFile(r)
  <2>1. /\ Pc(r, "apply") /\ file' = Upsert(save[r].read, save[r].edit)
        /\ save[r].pc \in {"write", "rewrite"}
        /\ UNCHANGED <<up, cfg, bot, copied, quiet, settingsBudget>>
    BY <1>3 DEF ReplaceFile, RewriteFile
  <2>2. SaveTypes'
    BY <2>1, PcKeepsTypes DEF SettingsTypes
  <2>3. file' \in [Keys -> Int]
    BY <2>1, UpsertIsTyped DEF SettingsTypes, SaveTypes
  <2> QED BY <2>1, <2>2, <2>3 DEF SettingsTypes, SettingsTypeOK
<1>4. CASE WriteFails(r)
  <2>1. SaveTypes'
    BY <1>4, PcKeepsTypes DEF WriteFails, SettingsTypes
  <2>2. /\ DOMAIN settingsBudget' = {"faults", "reboots"}
        /\ settingsBudget'.faults \in 0..MaxFileFaults
        /\ settingsBudget'.reboots = settingsBudget.reboots
    BY <1>4, SettingsAssumption DEF WriteFails, SettingsTypes, SettingsTypeOK
  <2> QED BY <1>4, <2>1, <2>2 DEF WriteFails, SettingsTypes, SettingsTypeOK
<1>5. CASE ApplyLive(r)
  <2> DEFINE f == Upsert(cfg, save[r].edit)
  <2>1. f \in [Keys -> Int]
    BY UpsertIsTyped DEF SettingsTypes, SettingsTypeOK, SaveTypes
  <2>2. /\ Pc(r, "done") /\ cfg' = Load(f) /\ bot' \in {BotFrom(Load(f)), bot}
        /\ UNCHANGED <<file, up, copied, quiet, settingsBudget>>
    BY <1>5 DEF ApplyLive
  <2> HIDE DEF f
  <2>3. /\ cfg' \in [Keys -> Int] /\ cfg'["DEFAULT_LEVERAGE"] # Blank
        /\ bot' \in [token : Int, chat : Int, enabled : BOOLEAN]
    BY <2>1, <2>2, LoadIsTyped, LoadedBot DEF SettingsTypes, SettingsTypeOK
  <2>4. SaveTypes'
    BY <2>2, PcKeepsTypes DEF SettingsTypes
  <2> QED BY <2>2, <2>3, <2>4 DEF SettingsTypes, SettingsTypeOK
<1> QED BY <1>1, <1>2, <1>3, <1>4, <1>5

LEMMA PutTypes ==
    ASSUME SettingsTypes, NEW r \in Saves, NEW edit \in Payloads, NEW probed \in BOOLEAN,
           PutConfig(r, edit, probed)
    PROVE  SettingsTypes'
<1>1. PICK saved \in SUBSET DOMAIN edit, pc \in {"refused", "apply", "read"} :
         save' = [save EXCEPT ![r] = [kind |-> "put", edit |-> Restrict(edit, saved),
                                      enabled |-> TRUE, read |-> <<>>, pc |-> pc]]
  <2> DEFINE saved == {k \in DOMAIN edit : k # "TYPESAFE_API_KEY" \/ edit[k] # Blank}
             valid == /\ \A k \in saved : edit[k] \in PageRange(k)
                      /\ "TYPESAFE_API_KEY" \in saved => probed
             pc == CASE ~valid -> "refused"
                     [] valid /\ saved = {} -> "apply"
                     [] OTHER -> "read"
  <2>1. save' = [save EXCEPT ![r] = [kind |-> "put", edit |-> Restrict(edit, saved),
                                     enabled |-> TRUE, read |-> <<>>, pc |-> pc]]
    BY DEF PutConfig
  <2>2. saved \in SUBSET DOMAIN edit
    OBVIOUS
  <2> HIDE DEF valid, saved
  <2>3. pc \in {"refused", "apply", "read"}
    OBVIOUS
  <2> HIDE DEF pc
  <2> QED BY <2>1, <2>2, <2>3
<1>2. /\ DOMAIN save' = Saves /\ \A s \in Saves \ {r} : save'[s] = save[s]
      /\ DOMAIN save'[r] = SaveFields /\ save'[r].edit = Restrict(edit, saved)
      /\ save'[r].pc = pc
  BY <1>1 DEF SettingsTypes, SaveTypes, SaveShapes, SaveFields
<1>3. \A k \in DOMAIN save'[r].edit : save'[r].edit[k] \in Int
  BY <1>1, <1>2, SettingsAssumption DEF Restrict
<1>4. SaveTypes'
  BY <1>2, <1>3 DEF SettingsTypes, SaveTypes, SaveShapes
<1> QED BY <1>4 DEF PutConfig, SettingsTypes, SettingsTypeOK

LEMMA PostTypes ==
    ASSUME SettingsTypes, NEW r \in Saves, NEW edit \in Payloads, NEW enabled \in BOOLEAN,
           PostTelegram(r, edit, enabled)
    PROVE  SettingsTypes'
<1> DEFINE full == [k \in TelegramKeys |->
                       IF k \in DOMAIN edit /\ edit[k] # Blank THEN edit[k]
                       ELSE IF k = "TELEGRAM_BOT_TOKEN" THEN bot.token ELSE bot.chat]
<1>1. /\ UNCHANGED <<file, up, cfg, copied, settingsBudget>>
      /\ bot' = [BotFrom(full) EXCEPT !.enabled = enabled]
      /\ save' = [save EXCEPT ![r] = [kind |-> "telegram", edit |-> full,
                                      enabled |-> enabled, read |-> <<>>, pc |-> "read"]]
  BY DEF PostTelegram
<1>2. DOMAIN full = TelegramKeys /\ \A k \in TelegramKeys : full[k] \in Int
  BY SettingsAssumption DEF SettingsTypes, SettingsTypeOK
<1> HIDE DEF full
<1>3. BotFrom(full) \in [token : Int, chat : Int, enabled : BOOLEAN]
  BY <1>2, BotIsTyped DEF TelegramKeys
<1>4. bot' \in [token : Int, chat : Int, enabled : BOOLEAN]
  BY <1>1, <1>3
<1>5. /\ DOMAIN save' = Saves /\ \A s \in Saves \ {r} : save'[s] = save[s]
      /\ DOMAIN save'[r] = SaveFields /\ save'[r].edit = full /\ save'[r].pc = "read"
  BY <1>1 DEF SettingsTypes, SaveTypes, SaveShapes, SaveFields
<1>6. SaveTypes'
  BY <1>2, <1>5 DEF SettingsTypes, SaveTypes, SaveShapes
<1> QED BY <1>1, <1>4, <1>6 DEF SettingsTypes, SettingsTypeOK

LEMMA RebootTypes ==
    ASSUME SettingsTypes, Reboot
    PROVE  SettingsTypes'
<1>1. /\ cfg' \in {Load(file), cfg} /\ file' = file
      /\ bot' \in {BotFrom(Load(file)), bot}
      /\ cfg' = Load(file) \/ UNCHANGED <<cfg, bot>>
  BY DEF Reboot
<1>2. /\ cfg' \in [Keys -> Int] /\ cfg'["DEFAULT_LEVERAGE"] # Blank
      /\ bot' \in [token : Int, chat : Int, enabled : BOOLEAN]
  BY <1>1, LoadIsTyped, LoadedBot DEF SettingsTypes, SettingsTypeOK
<1>3. /\ DOMAIN settingsBudget' = {"faults", "reboots"}
      /\ settingsBudget'.reboots \in 0..MaxReboots
      /\ settingsBudget'.faults = settingsBudget.faults
  BY SettingsAssumption DEF Reboot, SettingsTypes, SettingsTypeOK
<1>4. SaveTypes'
  <2>1. save' = [r \in Saves |-> IF r \in Active THEN [save[r] EXCEPT !.pc = "cut"] ELSE save[r]]
    BY DEF Reboot
  <2>2. DOMAIN save' = Saves
    BY <2>1
  <2>3. ASSUME NEW r \in Saves
        PROVE  /\ DOMAIN save'[r] = SaveFields /\ save'[r].edit = save[r].edit
               /\ save'[r] = save[r] \/ save'[r].pc = "cut"
    BY <2>1 DEF SettingsTypes, SaveTypes, SaveShapes, SaveFields
  <2> QED BY <2>2, <2>3 DEF SettingsTypes, SaveTypes, SaveShapes
<1> QED BY <1>1, <1>2, <1>3, <1>4 DEF SettingsTypes, SettingsTypeOK

LEMMA SettingsTypesNext ==
    ASSUME SettingsTypes, [SettingsNext]_settingsVars
    PROVE  SettingsTypes'
<1>1. CASE UNCHANGED settingsVars
  BY <1>1 DEF settingsVars, SettingsTypes, SettingsTypeOK, SaveTypes, SaveShapes
<1>2. CASE SettingsNext
  BY <1>2, SavingTypes, PutTypes, PostTypes, RebootTypes DEF SettingsNext
<1> QED BY <1>1, <1>2

---------------------------------------------------------------------------
(* The desk *)

DeskInv == TypesInv /\ ExitTypes /\ EntryTypes /\ SettingsTypes

LEMMA DeskInitOK == DeskInit => DeskInv
<1> SUFFICES ASSUME DeskInit PROVE DeskInv
  OBVIOUS
<1>1. TreasuryInit /\ EarlyExitInit /\ EntryInit /\ SettingsInit
  BY DEF DeskInit
<1>2. TypesInv
  BY <1>1, LedgerInvInit, ReserveInvInit, TypesInit, TreasuryAssumption DEF TypesInv, ReserveInv
<1> QED BY <1>1, <1>2, ExitTypesInit, EntryTypesInit, SettingsTypesInit DEF DeskInv

LEMMA DeskNextOK ==
    ASSUME DeskInv, [DeskNext]_deskVars
    PROVE  DeskInv'
<1>1. /\ [TreasuryNext]_treasuryVars /\ [EarlyExitNext]_<<vars, exitVars>>
      /\ [EntryNext]_entryVars /\ [SettingsNext]_settingsVars
  BY DEF DeskNext, deskVars
<1>2. TypesInv /\ ExitTypes /\ EntryTypes /\ SettingsTypes
  BY DEF DeskInv
<1>3. TypesInv'
  BY <1>1, <1>2, LedgerInvNext, ReserveInvNext, TypesNext, TreasuryAssumption
     DEF TypesInv, ReserveInv
<1> QED BY <1>1, <1>2, <1>3, ExitTypesNext, EntryTypesNext, SettingsTypesNext DEF DeskInv

\* For any number of requests, trades, answers, settings and faults: no journal,
\* row or reserve leaves its shape, whatever the trades a cycle holds come to
\* meanwhile the worker closes by symbols of the account, no more signals are
\* saved than evaluators ended with one, and every live setting is one a
\* process could run on.
THEOREM DeskIsTyped == DeskSpec => []DeskTypeOK
<1>1. DeskInv => DeskTypeOK
  BY TypesFollow, ExitTypesFollow, EntryTypesFollow
     DEF DeskInv, SettingsTypes, DeskTypeOK
<1> QED BY <1>1, DeskInitOK, DeskNextOK, PTL DEF DeskSpec
=============================================================================
