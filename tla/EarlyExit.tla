------------------------------ MODULE EarlyExit ------------------------------
(***************************************************************************)
(* The news-driven early exit: one worker (EarlyExitManager of             *)
(* internal/trader/early_exit.go) takes the open positions and the live    *)
(* news clusters (internal/market/news_cluster.go), asks the decision core *)
(* about every pair, holds its answer against the guards, closes the       *)
(* position in the execution engine, tells Telegram and writes the row     *)
(* (internal/db/early_exit_store.go).  Positions are opened and closed by  *)
(* others between any two of its steps; the core, the store and Telegram   *)
(* may fail at each of their calls.                                        *)
(*                                                                         *)
(* Time is counted in units of which DayLength make a day; probabilities   *)
(* are percentages.                                                        *)
(***************************************************************************)
EXTENDS ExecutionEngine, SequencesExt

CONSTANTS
    Stories,         \* headlines that may form a cluster
    NumericIds,      \* clusters whose hexadecimal id happens to read as decimal
    DayLength,       \* units of a day
    ZoneOffset,      \* how far the process's clock is ahead of UTC, or behind it
    HalfLife,        \* half-life of a cluster; it lives twice as long
    Verdicts,        \* answers about a position: [noul, conf]
    GuardAnswers,    \* what the core may answer for the managed guards
    GuardConfigs,    \* early-exit settings an operator may save
    MaxTime,         \* bound on the clock
    MaxExitCycles,   \* bound: cycles of the worker
    MaxStoreFaults,  \* bound: failed calls of the store
    MaxGuardSaves    \* bound: changes of the settings

Guards == {"minHold", "cooldown", "perDay", "floor"}

GuardConfig == [enabled: BOOLEAN, managed: SUBSET (Guards \cup {"enabled"}),
                minHold: Nat, cooldown: Nat, perDay: Nat, floor: 0..100]

\* noul is the probability of "close now", or Unanswered.
Unanswered == -1

\* A daily budget the operator sets is at least one: the boot
\* (config/early_exit_config.go:58) and the page (system_handlers.go:751) see to it.
ASSUME EarlyExitAssumption ==
    /\ DayLength \in Nat \ {0} /\ ZoneOffset \in Int /\ HalfLife \in Nat \ {0}
    /\ Verdicts \subseteq [noul: Int, conf: Int]
    /\ GuardConfigs \subseteq GuardConfig /\ GuardConfigs # {}
    /\ \A cfg \in GuardConfigs : "perDay" \in cfg.managed \/ cfg.perDay >= 1
    /\ \A answers \in GuardAnswers : \A g \in DOMAIN answers : answers[g] \in Int
    /\ MaxTime \in Nat /\ MaxExitCycles \in Nat /\ MaxStoreFaults \in Nat
    /\ MaxGuardSaves \in Nat

VARIABLES
    clock,           \* the time
    born,            \* EntryTime of each order
    lastSeen,        \* the clusterer: when each story last arrived, or Never
    savedGuards,     \* cfg.EarlyExit of the live configuration, and the manager's copy
    exitCycle,       \* EvaluateCycle
    verdictRows,     \* early_exit_judgments
    exits,           \* history: closes by the worker, in order
    exitBudget       \* cycles, store faults and saves used up

exitVars == <<clock, born, lastSeen, savedGuards, exitCycle,
              verdictRows, exits, exitBudget>>

Never == -1

NoStory == "none"

Terminal == {"closed", "guarded_skip"}

Sleeping ==
    [pc |-> "sleep", cfg |-> CHOOSE g \in GuardConfigs : TRUE, now |-> 0, left |-> {},
     trades |-> {}, story |-> NoStory, eligible |-> {}, asked |-> {}, guarded |-> {}, on |-> FALSE,
     guards |-> <<>>, trade |-> NoTrade, conf |-> 0, closed |-> NoTrade, torn |-> FALSE,
     blind |-> FALSE]

---------------------------------------------------------------------------
(* Clusters, guards and rows *)

\* Clusters(now): those whose last story is at most two half-lives old.
Live(now) == {k \in Stories : lastSeen[k] # Never /\ now - lastSeen[k] <= 2 * HalfLife}

IsEnabled(cfg) == cfg.enabled \/ "enabled" \in cfg.managed

Clamp(x, low, high) == IF x < low THEN low ELSE IF x > high THEN high ELSE x

Clamped(g, x) == CASE g \in {"minHold", "cooldown"} -> Clamp(x, 0, DayLength)
                   [] g = "perDay" -> Clamp(x, 1, 10)
                   [] g = "floor"  -> Clamp(x, 50, 100)

\* The manager copies the configuration, but its map of managed guards is the
\* live one: a save changes that under a cycle that holds the old values.
CycleConfig == [exitCycle.cfg EXCEPT !.managed = savedGuards.managed]

\* Every managed guard needs an answer of this cycle; nothing stands in.
Resolves(cfg, answers) == cfg.managed \cap Guards \subseteq DOMAIN answers

ResolveEarlyExitGuards(cfg, answers) ==
    [g \in Guards |-> IF g \in cfg.managed THEN Clamped(g, answers[g]) ELSE cfg[g]]

\* Mutant of EvaluateEarlyExitGuards: one exit more than the budget.
EvaluateGuardsLoose(on, g, age, lastAge, today, conf) ==
    IF ~on THEN "kill_switch"
    ELSE IF g.minHold > 0 /\ age < g.minHold THEN "min_hold"
    ELSE IF g.cooldown > 0 /\ \E a \in lastAge : a < g.cooldown THEN "cooldown"
    ELSE IF g.perDay > 0 /\ today > g.perDay THEN "budget"
    ELSE IF conf < g.floor THEN "conf_floor" ELSE "pass"

\* The guards in their order; a guard of zero is off.  lastAge is empty when
\* no earlier exit is known.
EvaluateEarlyExitGuards(on, g, age, lastAge, today, conf) ==
    IF ~on THEN "kill_switch"
    ELSE IF g.minHold > 0 /\ age < g.minHold THEN "min_hold"
    ELSE IF g.cooldown > 0 /\ \E a \in lastAge : a < g.cooldown THEN "cooldown"
    ELSE IF g.perDay > 0 /\ today >= g.perDay THEN "budget"
    ELSE IF conf < g.floor THEN "conf_floor" ELSE "pass"

ClosedRows(s) == {r \in verdictRows : r.symbol = s /\ r.action = "closed"}

\* The start of the day the code counts from: midnight of the local date,
\* taken as UTC.
StartOfDay(now) == DayLength * ((now + ZoneOffset) \div DayLength)

CountEarlyExitsToday(s, now) == Cardinality({r \in ClosedRows(s) : r.at >= StartOfDay(now)})

LastExitAge(s, now) ==
    IF ClosedRows(s) = {} THEN {} ELSE {now - Max({r.at : r \in ClosedRows(s)})}

\* Dedup needs a cluster id that parses as a decimal number.
HasTerminalEarlyExitJudgment(id, k) ==
    k \in NumericIds /\ \E r \in verdictRows : r.id = id /\ r.story = k /\ r.action \in Terminal

\* The row of a trade; the cycle tells apart the rows of one pair.
VerdictRow(t, action) ==
    [id |-> t.id, symbol |-> t.symbol, story |-> exitCycle.story, action |-> action,
     at |-> clock, cycle |-> exitBudget.cycles]

Faults(n) ==
    /\ exitBudget.faults + n <= MaxStoreFaults
    /\ exitBudget' = [exitBudget EXCEPT !.faults = @ + n]

\* InsertEarlyExitJudgment, whose error every caller drops.  The loss of an
\* error row is not followed: nothing in the code reads one.
Skipped(t, stored) == IF stored THEN {VerdictRow(t, "guarded_skip")} ELSE {}

Errors(trades) == verdictRows' = verdictRows \cup {VerdictRow(t, "error") : t \in trades}

Lost(stored) == IF stored THEN 0 ELSE 1

---------------------------------------------------------------------------
(* EvaluateCycle *)

\* A cycle with no cluster left is over.
Settle(c) == exitCycle' = IF c.left = {} /\ c.eligible = {} THEN Sleeping
                          ELSE [c EXCEPT !.pc = IF c.eligible = {} THEN "story" ELSE "judge",
                                         !.trade = NoTrade, !.conf = 0, !.closed = NoTrade]

\* The worker copies its settings, the open trades and the live clusters.
BeginCycle ==
    /\ exitCycle.pc = "sleep"
    /\ exitBudget.cycles < MaxExitCycles
    /\ {s \in Symbols : IsOpen(s)} # {} /\ Live(clock) # {}
    /\ exitBudget' = [exitBudget EXCEPT !.cycles = @ + 1]
    /\ exitCycle' = [Sleeping EXCEPT
          !.pc = "story", !.cfg = savedGuards, !.now = clock, !.left = Live(clock),
          !.trades = {positions[s] : s \in {q \in Symbols : IsOpen(q)}}]
    /\ UNCHANGED <<vars, clock, born, lastSeen, savedGuards, verdictRows, exits>>

IsStillOpen(t) == positions[t.symbol] # NoTrade /\ positions[t.symbol].id = t.id

\* The next cluster: the trades not yet judged for it (a failing look-up leaves
\* its trade eligible) and the questions, one for each of them that is still
\* open and one for each managed guard.  Nothing to ask ends the story.
PickStory(k, unread) ==
    LET c == exitCycle
        judged == {t \in c.trades : HasTerminalEarlyExitJudgment(t.id, k)}
        eligible == (c.trades \ judged) \cup unread
        asked == {t \in eligible : IsStillOpen(t)}
        managed == savedGuards.managed \cap Guards
        moved == [c EXCEPT !.left = @ \ {k}, !.story = k, !.eligible = eligible]
    IN  /\ c.pc = "story" /\ k \in c.left
        /\ unread \subseteq judged
        /\ Faults(Cardinality(unread))
        /\ IF eligible = {} \/ (asked = {} /\ managed = {})
           THEN Settle([moved EXCEPT !.eligible = {}])
           ELSE exitCycle' = [moved EXCEPT !.pc = "core", !.asked = asked,
                                               !.guarded = managed]
        /\ UNCHANGED <<vars, clock, born, lastSeen, savedGuards, verdictRows, exits>>

\* The core fails: every eligible trade gets an error row and none is touched.
CoreFails ==
    /\ exitCycle.pc = "core"
    /\ Errors(exitCycle.eligible)
    /\ Settle([exitCycle EXCEPT !.eligible = {}])
    /\ UNCHANGED <<vars, clock, born, lastSeen, savedGuards, exits, exitBudget>>

\* The core answers what it was asked.  A guard that is managed by now without
\* having been asked about fails the story like the core would.
CoreAnswers(answers) ==
    LET cfg == CycleConfig
        got == [g \in exitCycle.guarded \cap DOMAIN answers |-> answers[g]]
    IN  /\ exitCycle.pc = "core"
        /\ IF Resolves(cfg, got)
           THEN /\ Settle([exitCycle EXCEPT !.eligible = @ \cap exitCycle.asked,
                             !.on = IsEnabled(cfg), !.guards = ResolveEarlyExitGuards(cfg, got)])
                /\ UNCHANGED verdictRows
           ELSE Errors(exitCycle.eligible) /\ Settle([exitCycle EXCEPT !.eligible = {}])
        /\ UNCHANGED <<vars, clock, born, lastSeen, savedGuards, exits, exitBudget>>

\* No answer about the trade: it is left alone, without a row.
NoVerdict(t) ==
    /\ exitCycle.pc = "judge" /\ t \in exitCycle.eligible
    /\ Settle([exitCycle EXCEPT !.eligible = @ \ {t}])
    /\ UNCHANGED <<vars, clock, born, lastSeen, savedGuards, verdictRows, exits,
                   exitBudget>>

Noul(v) == IF v.noul = Unanswered THEN v.conf ELSE v.noul
Conf(v) == IF v.conf = 0 THEN Noul(v) ELSE v.conf

\* A weak answer is HOLD; a strong one goes on to the guards.
Verdict(t, v, stored) ==
    LET holds == Noul(v) < exitCycle.guards.floor
        rest == [exitCycle EXCEPT !.eligible = @ \ {t}]
    IN  /\ exitCycle.pc = "judge" /\ t \in exitCycle.eligible
        /\ IF holds
           THEN /\ verdictRows' = verdictRows \cup Skipped(t, stored)
                /\ Faults(Lost(stored))
                /\ Settle(rest)
           ELSE /\ exitCycle' = [rest EXCEPT !.pc = "guards", !.trade = t, !.conf = Conf(v)]
                /\ stored /\ UNCHANGED <<verdictRows, exitBudget>>
        /\ UNCHANGED <<vars, clock, born, lastSeen, savedGuards, exits>>

\* The guards, on what the store says: a look-up that fails reads as "never"
\* and as "none today".
CheckGuards(readsLast, readsCount, stored) ==
    LET c == exitCycle
        t == c.trade
        outcome == EvaluateEarlyExitGuards(
            c.on, c.guards, c.now - born[t.id],
            IF readsLast THEN LastExitAge(t.symbol, c.now) ELSE {},
            IF readsCount THEN CountEarlyExitsToday(t.symbol, c.now) ELSE 0, c.conf)
    IN  /\ c.pc = "guards"
        /\ Faults(Lost(stored) + Lost(readsLast) + Lost(readsCount))
        /\ IF outcome = "pass"
           THEN /\ exitCycle' = [c EXCEPT !.pc = "close", !.blind = ~(readsLast /\ readsCount)]
                /\ stored /\ UNCHANGED verdictRows
           ELSE verdictRows' = verdictRows \cup Skipped(t, stored) /\ Settle(c)
        /\ UNCHANGED <<vars, clock, born, lastSeen, savedGuards, exits>>

\* The close names the symbol, not the trade: whatever the symbol holds now is
\* closed at its latest price.  Nothing there is an error row.
CloseNow ==
    LET c == exitCycle
        s == c.trade.symbol
    IN  /\ c.pc = "close"
        /\ ForceClosePosition(s, 0, "NEWS_EARLY_EXIT")
        /\ IF IsOpen(s)
           THEN /\ exitCycle' = [c EXCEPT !.pc = "record", !.closed = positions[s]]
                /\ exits' = Append(exits,
                      [id |-> positions[s].id, judged |-> c.trade.id, symbol |-> s, at |-> clock,
                       age |-> clock - born[positions[s].id], guards |-> c.guards,
                       torn |-> c.torn, blind |-> c.blind])
                /\ UNCHANGED verdictRows
           ELSE Errors({c.trade}) /\ Settle(c) /\ UNCHANGED exits
        /\ UNCHANGED <<clock, born, lastSeen, savedGuards, exitBudget>>

\* Telegram is told first, whether or not that works; then one transaction
\* writes the row and, if the trade knows its signal, closes that (it never
\* does).  A transaction that fails leaves an error row.
RecordEarlyExitClose(works) ==
    LET c == exitCycle
    IN  /\ c.pc = "record"
        /\ IF works
           THEN verdictRows' = verdictRows \cup {VerdictRow(c.trade, "closed")}
           ELSE Errors({c.trade})
        /\ Faults(Lost(works))
        /\ Settle(c)
        /\ UNCHANGED <<vars, clock, born, lastSeen, savedGuards, exits>>

---------------------------------------------------------------------------
(* What runs beside it *)

\* Ingest: a story opens its cluster or refreshes it.
Ingest(k) ==
    /\ lastSeen[k] # clock
    /\ lastSeen' = [lastSeen EXCEPT ![k] = clock]
    /\ UNCHANGED <<vars, clock, born, savedGuards, exitCycle, verdictRows, exits,
                   exitBudget>>

TimePasses ==
    /\ clock < MaxTime
    /\ clock' = clock + 1
    /\ UNCHANGED <<vars, born, lastSeen, savedGuards, exitCycle, verdictRows, exits,
                   exitBudget>>

OpensTrade(sig) ==
    /\ Open(sig)
    /\ born' = [born EXCEPT ![orderCounter + 1] = clock]
    /\ UNCHANGED <<clock, lastSeen, savedGuards, exitCycle, verdictRows, exits,
                   exitBudget>>

OtherCloser(s) ==
    /\ IsOpen(s)
    /\ ForceClosePosition(s, 0, "TIME_EXIT")
    /\ UNCHANGED <<clock, born, lastSeen, savedGuards, exitCycle, verdictRows, exits,
                   exitBudget>>

\* PUT /system/config changes the live configuration and hands the manager a
\* copy (applyLiveConfigUpdates); a running cycle keeps what it copied before.
SaveGuards(cfg) ==
    /\ exitBudget.saves < MaxGuardSaves
    /\ exitBudget' = [exitBudget EXCEPT !.saves = @ + 1]
    /\ savedGuards' = cfg
    /\ exitCycle' = [exitCycle EXCEPT !.torn = exitCycle.pc # "sleep"]
    /\ UNCHANGED <<vars, clock, born, lastSeen, verdictRows, exits>>

EarlyExitInit ==
    /\ Init
    /\ clock = 0
    /\ born = [i \in 1..(MaxOrders + 1) |-> 0]
    /\ lastSeen = [k \in Stories |-> Never]
    /\ savedGuards \in GuardConfigs
    /\ exitCycle = Sleeping
    /\ verdictRows = {}
    /\ exits = <<>>
    /\ exitBudget = [cycles |-> 0, faults |-> 0, saves |-> 0]

EvaluateCycle ==
    \/ BeginCycle
    \/ \E k \in Stories, unread \in SUBSET exitCycle.trades : PickStory(k, unread)
    \/ CoreFails
    \/ \E answers \in GuardAnswers : CoreAnswers(answers)
    \/ \E t \in exitCycle.eligible :
          \/ NoVerdict(t)
          \/ \E v \in Verdicts, stored \in BOOLEAN : Verdict(t, v, stored)
    \/ \E readsLast, readsCount, stored \in BOOLEAN : CheckGuards(readsLast, readsCount, stored)
    \/ CloseNow
    \/ \E works \in BOOLEAN : RecordEarlyExitClose(works)

EarlyExitNext ==
    \/ EvaluateCycle
    \/ TimePasses
    \/ \E k \in Stories : Ingest(k)
    \/ \E sig \in Offers : OpensTrade(sig)
    \/ \E s \in Symbols : OtherCloser(s)
    \/ \E cfg \in GuardConfigs : SaveGuards(cfg)

EarlyExitSpec == EarlyExitInit /\ [][EarlyExitNext]_<<vars, exitVars>>

---------------------------------------------------------------------------
(* Properties *)

EarlyExitTypeOK ==
    /\ TypeOK
    /\ clock \in 0..MaxTime
    /\ exitCycle.pc \in {"sleep", "story", "core", "judge", "guards", "close", "record"}
    /\ savedGuards \in GuardConfigs
    /\ \A r \in verdictRows : r.action \in Terminal \cup {"error"}

SameDay(a, b) == a \div DayLength = b \div DayLength

Earlier(n) == {m \in 1..(n - 1) : exits[m].symbol = exits[n].symbol}

\* The pace of the exits: an exit whose guards could read their counters, and
\* in whose cycle no save fell, leaves its symbol within the daily budget on
\* that UTC day and not closer than the cooldown to any exit before it, across
\* clusters, cycles, settings and midnight, and however many exits before it
\* were torn or blind.  A row that is lost can let one exit more through.  (On a
\* host whose clock is ahead of UTC the budget is not held: see ZoneOffset.)
PaceHolds ==
    \A n \in {m \in DOMAIN exits : ~exits[m].torn /\ ~exits[m].blind} :
        LET e == exits[n]
        IN  /\ Cardinality({m \in Earlier(n) : SameDay(exits[m].at, e.at)}) + 1
                  <= e.guards.perDay + exitBudget.faults
            /\ exitBudget.faults = 0 =>
                  \A m \in Earlier(n) : e.at - exits[m].at >= e.guards.cooldown

\* "hard safety caps stay code (FR-304): ... max_per_day in [1,10]"
\* (specs/019-offload-phase2/spec.md:8): no exit is made without a daily budget.
\* (A save that takes the budget out of the core's hands during a cycle leaves
\* that cycle with neither the answer nor the new value: its copy says zero,
\* which switches the guard off.)
BudgetStaysOn == \A n \in DOMAIN exits : exits[n].guards.perDay \in 1..10

\* The position that is closed is the one that was judged.  (A newer one of
\* the symbol is closed in its place, however young it is.)
JudgedIsClosed == \A n \in DOMAIN exits : exits[n].id = exits[n].judged

\* A cluster judges a position at most once.  (Cluster ids are hexadecimal,
\* so the look-up is skipped and every cycle judges again.)
JudgedOnce ==
    \A r, q \in verdictRows :
        r.id = q.id /\ r.story = q.story /\ r.action \in Terminal /\ q.action \in Terminal
            => r.cycle = q.cycle

\* "A kill switch (setting) MUST disable early-exit closes entirely"
\* (specs/014-jev-news-early-exit/spec.md:80).  (A running cycle goes on with the
\* switch it copied.)
KillSwitchHolds ==
    [][Len(exits') > Len(exits) => IsEnabled(savedGuards)]_<<vars, exitVars>>
=============================================================================
