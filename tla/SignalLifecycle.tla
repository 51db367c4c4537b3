-------------------------- MODULE SignalLifecycle --------------------------
(***************************************************************************)
(* A futures signal from publication to close, and the position it keeps   *)
(* in the execution engine.  The signal's row lives in PostgreSQL (`book`);*)
(* the position lives in memory (the variables of ExecutionEngine).  Every *)
(* path that ends a signal writes the row first and then calls the engine, *)
(* with no lock over the two, and five kinds of task do so concurrently:   *)
(*   - one goroutine per market tick       (CheckSignalExitForTick)        *)
(*   - the HTTP close request              (CloseFuturesSignalHandler)     *)
(*   - the reconciler, one pass at a time  (ReconcileActiveSignals)        *)
(*   - the daemon, engine only             (ProcessTick)                   *)
(*   - the news early-exit worker          (ProcessEarlyExitVerdict)       *)
(* Evaluators publish rows and open positions; a restart loses the engine  *)
(* and every task, and the boot sequence rebuilds it from the book.        *)
(* One database or engine call is one action; a failed call is an          *)
(* alternative of it, at most MaxFaults times.                             *)
(***************************************************************************)
EXTENDS Decay, Sequences, FiniteSets, Functions

CONSTANTS
    Symbols, Offers, Prices, InitialCash, SpreadDivisor, FeeDivisor,
    MaxOrders, NoTrade,      \* as in ExecutionEngine
    Prof,                    \* decay checkpoints of the signals' timeframe
    MaxAge,                  \* SIGNAL_MAX_AGE_MINUTES, in checkpoints
    Fees,                    \* distance of the break-even stop from the entry
    TickTasks, ManualTasks,  \* goroutines that may close signals at once
    Evaluators,              \* tasks that may publish signals at once
    DaemonOn, EarlyExitOn,   \* whether these two workers run
    MaxSignals, AgeBound, MaxFaults, MaxRestarts    \* bounds of the model

ASSUME LifecycleAssumption ==
    /\ Offers # {}
    /\ Offers \subseteq [symbol: Symbols, long: BOOLEAN, entry: Nat \ {0}, stop: Nat,
                        tp: Nat, leverage: 1..125, margin: Nat]
    /\ Prices \subseteq Nat \ {0}
    /\ Prof \in Profile
    /\ MaxAge \in Nat /\ AgeBound \in Nat
    /\ MaxOrders \in Nat /\ MaxSignals \in Nat
    /\ \A o \in Offers : /\ BreakevenStopPrice(o, Fees) \in Nat \ {0}
                          /\ Tighter(o, BreakevenStopPrice(o, Fees), o.stop)
    /\ IsFiniteSet(TickTasks) /\ IsFiniteSet(ManualTasks) /\ IsFiniteSet(Evaluators)
    /\ TickTasks \cap ManualTasks = {}

Breakeven(o) == [o EXCEPT !.stop = BreakevenStopPrice(o, Fees)]

VARIABLES
    positions, cash, orderCounter, closedTrades,    \* the engine
    book,      \* rows of futures_trade_signals, the oldest first
    quote,     \* freshest cached price of each symbol, 0 when there is none
    closer,    \* the tick and manual close tasks
    rec,       \* the reconciler
    eval,      \* the evaluators
    early,     \* symbols the early-exit worker still has to judge
    phase,     \* how far the process has booted
    revive,    \* rows the boot has listed and not yet given a position
    faults, restarts,
    owner,     \* of each open position: the row it was opened for, and
               \* whether that row was already closed then
    learned,   \* outcomes fed to the sampler, per row
    told       \* resolution messages sent, per row

engineVars == <<positions, cash, orderCounter, closedTrades>>
taskVars   == <<closer, rec, eval, early>>
bootVars   == <<phase, revive, restarts>>
ghostVars  == <<learned, told>>
vars == <<engineVars, book, quote, taskVars, bootVars, faults, owner, ghostVars>>

\* The engine may be handed a row after its stop has moved.  MaxOrders bounds
\* the evaluators' orders; a boot may place MaxSignals more.
E == INSTANCE ExecutionEngine
        WITH Offers <- Offers \cup {Breakeven(o) : o \in Offers},
             MaxOrders <- MaxOrders + MaxSignals

\* The engine's own constants are what ExecutionEngine asks of them.
ASSUME EngineAssumption ==
    /\ InitialCash \in Nat
    /\ SpreadDivisor \in Nat \ {0, 1} /\ FeeDivisor \in Nat \ {0, 1}

\* The levels of a signal lie in order: the stop is a percentage short of the
\* entry, the target beyond it, and the leverage is lowered, or the entry
\* refused, until the liquidation price lies past the stop.
ASSUME LevelsAssumption ==
    \A o \in Offers : /\ Tighter(o, o.entry, o.stop) /\ Tighter(o, o.tp, o.entry)
                      /\ ~Tighter(o, E!LiquidationPrice(o), o.stop)

---------------------------------------------------------------------------
(* The book *)

CloseReasons == {"TAKE_PROFIT", "STOP_LOSS", "TIME_EXIT", "MANUAL_EXIT"}

Row == [terms: Offers, stop: Nat, status: {"ACTIVE", "CLOSED"},
        decay: DecayStates, exit: Nat, reason: CloseReasons \cup {"NONE"},
        resolved: BOOLEAN, age: 0..AgeBound]

Ids == 1..Len(book)
Active(i) == book[i].status = "ACTIVE"
SymbolOf(i) == book[i].terms.symbol

Newest(ids) == CHOOSE i \in ids : \A j \in ids : j <= i

\* Mutant of GetActiveFuturesSignalBySymbol: the status is not filtered.
GetNewestSignalBySymbol(s) ==
    LET ids == {i \in Ids : SymbolOf(i) = s}
    IN  IF ids = {} THEN 0 ELSE Newest(ids)

\* The newest ACTIVE row of a symbol, 0 when there is none.
GetActiveFuturesSignalBySymbol(s) ==
    LET ids == {i \in Ids : SymbolOf(i) = s /\ Active(i)}
    IN  IF ids = {} THEN 0 ELSE Newest(ids)

\* What a reader keeps of a row: the stop and decay state as they were then.
Snapshot(i) == [id |-> i, stop |-> book[i].stop, decay |-> book[i].decay]

\* Snapshots of the ACTIVE rows.  A list is worked off from the newest on.
ListActive == [i \in {j \in Ids : Active(j)} |-> Snapshot(i)]

Current(list)   == list[Newest(DOMAIN list)]
Remaining(list) == Restrict(list, DOMAIN list \ {Newest(DOMAIN list)})

\* Mutant of CloseFuturesSignal: the first reason is kept, the last price wins.
CloseKeepingReason(i, p, reason) ==
    book' = [book EXCEPT ![i].status = "CLOSED", ![i].exit = p,
                         ![i].reason = IF @ = "NONE" THEN reason ELSE @]

\* The updates name the row by id alone: none looks at its status.
CloseFuturesSignal(i, p, reason) ==
    book' = [book EXCEPT ![i].status = "CLOSED", ![i].exit = p, ![i].reason = reason]
UpdateSignalStop(i, stop)   == book' = [book EXCEPT ![i].stop = stop]
UpdateSignalDecay(i, state) == book' = [book EXCEPT ![i].decay = state]
MarkSignalResolved(i)       == book' = [book EXCEPT ![i].resolved = TRUE]

Succeeds == faults' = faults
Fails    == faults < MaxFaults /\ faults' = faults + 1

---------------------------------------------------------------------------
(* The engine, as the server calls it; owner remembers which row a position *)
(* was opened for.                                                          *)

NoOwner == [id |-> 0, late |-> FALSE]

ensureSignalPosition(snap) ==
    LET s == SymbolOf(snap.id)
    IN  /\ E!OpenPositionFromSignal([book[snap.id].terms EXCEPT !.stop = snap.stop])
        /\ owner' = IF ~E!IsOpen(s) /\ positions'[s] # NoTrade
                    THEN [owner EXCEPT ![s] = [id |-> snap.id, late |-> ~Active(snap.id)]]
                    ELSE owner

Disowned == owner' = [s \in Symbols |-> IF positions'[s] = NoTrade THEN NoOwner ELSE owner[s]]

CheckExit(s, p) == E!CheckExit(s, p) /\ Disowned
ForceClosePosition(s, p, reason) == E!ForceClosePosition(s, p, reason) /\ Disowned

---------------------------------------------------------------------------
(* Ticks: IngestTick stores the quote and starts a goroutine.  Before the  *)
(* boot's first pass the initial fetch does the same for every symbol.     *)

Idle == [pc |-> "idle", id |-> 0, symbol |-> CHOOSE s \in Symbols : TRUE,
         px |-> 0, reason |-> "NONE", resolved |-> FALSE]

IngestTick(c, s, p) ==
    /\ phase \in {"boot", "up"}
    /\ closer[c].pc = "idle"
    /\ quote' = [quote EXCEPT ![s] = p]
    /\ closer' = [closer EXCEPT ![c] = [Idle EXCEPT !.pc = "read", !.symbol = s, !.px = p]]
    /\ UNCHANGED <<engineVars, book, rec, eval, early, bootVars, faults, owner, ghostVars>>

\* Reads the newest active row of the symbol and compares its levels with the
\* tick; a failed read ends the goroutine like an uncrossed level.
CheckSignalExitForTick(c) ==
    LET i == GetActiveFuturesSignalBySymbol(closer[c].symbol)
        reason == Resolution(book[i].terms, book[i].stop, closer[c].px)
    IN  /\ closer[c].pc = "read"
        /\ closer' = [closer EXCEPT ![c] =
              IF i # 0 /\ reason # "NONE"
              THEN [@ EXCEPT !.pc = "settle", !.id = i, !.reason = reason,
                             !.resolved = book[i].resolved]
              ELSE Idle]
        /\ UNCHANGED <<engineVars, book, quote, rec, eval, early, bootVars, faults, owner, ghostVars>>

---------------------------------------------------------------------------
(* Manual close: the row is looked up among the ACTIVE ones; the exit price *)
(* is the request's or the live one, and must be positive.                  *)

\* Mutant: the live price is used unseen.
CloseUnpriced(c, i, p) ==
    /\ phase = "up" /\ closer[c].pc = "idle" /\ i \in Ids /\ Active(i)
    /\ closer' = [closer EXCEPT ![c] = [Idle EXCEPT
          !.pc = "settle", !.id = i, !.symbol = SymbolOf(i), !.px = quote[SymbolOf(i)],
          !.reason = "MANUAL_EXIT"]]
    /\ UNCHANGED <<engineVars, book, quote, rec, eval, early, bootVars, faults, owner, ghostVars>>

CloseFuturesSignalHandler(c, i, p) ==
    /\ phase = "up"
    /\ closer[c].pc = "idle"
    /\ i \in Ids /\ Active(i)
    /\ closer' = [closer EXCEPT ![c] = [Idle EXCEPT
          !.pc = "settle", !.id = i, !.symbol = SymbolOf(i), !.px = p,
          !.reason = "MANUAL_EXIT"]]
    /\ UNCHANGED <<engineVars, book, quote, rec, eval, early, bootVars, faults, owner, ghostVars>>

\* settleAndClose: the row is written whatever its status is by now.
CloserSettles(c) ==
    /\ closer[c].pc = "settle"
    /\ \/ /\ Succeeds
          /\ CloseFuturesSignal(closer[c].id, closer[c].px, closer[c].reason)
          /\ closer' = [closer EXCEPT ![c].pc = IF c \in TickTasks THEN "rewrite" ELSE "engine"]
       \/ Fails /\ closer' = [closer EXCEPT ![c] = Idle] /\ UNCHANGED book
    /\ UNCHANGED <<engineVars, quote, rec, eval, early, bootVars, owner, ghostVars>>

\* The tick task writes the same closure a second time; an error is ignored.
TickRewrites(c) ==
    /\ closer[c].pc = "rewrite"
    /\ closer' = [closer EXCEPT ![c].pc = "engine"]
    /\ \/ Succeeds /\ CloseFuturesSignal(closer[c].id, closer[c].px, closer[c].reason)
       \/ Fails /\ UNCHANGED book
    /\ UNCHANGED <<engineVars, quote, rec, eval, early, bootVars, owner, ghostVars>>

\* Mutant of CloserExits: a manual close, too, waits for a level.
CloserChecksExit(c) ==
    /\ closer[c].pc = "engine"
    /\ CheckExit(closer[c].symbol, closer[c].px)
    /\ closer' = [closer EXCEPT ![c].pc = "tell"]
    /\ UNCHANGED <<book, quote, rec, eval, early, bootVars, faults, ghostVars>>

\* A tick closes the position only if one of the position's own levels is
\* crossed; a manual close always does.
CloserExits(c) ==
    /\ closer[c].pc = "engine"
    /\ IF c \in TickTasks
       THEN CheckExit(closer[c].symbol, closer[c].px)
       ELSE ForceClosePosition(closer[c].symbol, closer[c].px, "MANUAL_EXIT")
    /\ closer' = [closer EXCEPT ![c].pc = "tell"]
    /\ UNCHANGED <<book, quote, rec, eval, early, bootVars, faults, ghostVars>>

\* The Telegram message, its mark on the row, and the outcome for the
\* sampler.  A tick task keeps silent when the row it read was marked.
CloserTells(c) ==
    LET silent == c \in TickTasks /\ closer[c].resolved
        i == closer[c].id
    IN  /\ closer[c].pc = "tell"
        /\ learned' = [learned EXCEPT ![i] = @ + 1]
        /\ told' = IF silent THEN told ELSE [told EXCEPT ![i] = @ + 1]
        /\ IF silent THEN UNCHANGED book ELSE MarkSignalResolved(i)
        /\ closer' = [closer EXCEPT ![c] = Idle]
        /\ UNCHANGED <<engineVars, quote, rec, eval, early, bootVars, faults, owner>>

---------------------------------------------------------------------------
(* The reconciler: rec.todo holds the snapshots its pass still has to visit *)
(* and the head is the row it is at.  The stop and decay state it uses are  *)
(* those of the listing, the age and the price those of the visit.          *)

Resting == [pc |-> "idle", todo |-> << >>, px |-> 0, reason |-> "NONE", via |-> "none"]
NextItem == [Resting EXCEPT !.pc = "item", !.todo = Remaining(rec.todo)]
Leaves(p, reason, via) ==
    [rec EXCEPT !.pc = "settle", !.px = p, !.reason = reason, !.via = via]

\* applyDecayState up to its first write.  A stop already past the entry
\* leaves no risk distance, and the function returns before it looks at the
\* clock.  MustFlatten adds nothing for these profiles: its deadline is the
\* horizon.
applyDecayState(r, p) ==
    LET o == book[r.id].terms
        risk == RiskDistance(o, r.stop)
        d == EvaluateDecay(book[r.id].age, Gain(o, p), risk, r.decay, Prof)
    IN  CASE risk <= 0 \/ d.action = "" -> NextItem
          [] risk > 0 /\ d.action = "BREAKEVEN" ->
                IF Tighter(o, BreakevenStopPrice(o, Fees), r.stop)
                THEN [rec EXCEPT !.pc = "stop", !.px = p] ELSE NextItem
          [] OTHER -> Leaves(p, "TIME_EXIT", "decay")

\* Mutant of Visit: a row without a price is skipped whatever its age.
VisitPricedOnly(r, p) ==
    LET hit == Resolution(book[r.id].terms, r.stop, p)
    IN  CASE p = 0 -> NextItem
          [] p > 0 /\ book[r.id].age >= MaxAge -> Leaves(p, "TIME_EXIT", "age")
          [] p > 0 /\ book[r.id].age < MaxAge /\ hit # "NONE" -> Leaves(p, hit, "level")
          [] OTHER -> applyDecayState(r, p)

\* The maximum age first, whatever the price; then the levels; then decay.
Visit(r, p) ==
    LET hit == Resolution(book[r.id].terms, r.stop, p)
        old == book[r.id].age >= MaxAge
    IN  CASE old -> Leaves(p, "TIME_EXIT", "age")
          [] ~old /\ p = 0 -> NextItem
          [] ~old /\ p > 0 /\ hit # "NONE" -> Leaves(p, hit, "level")
          [] OTHER -> applyDecayState(r, p)

recFrame == UNCHANGED <<quote, closer, eval, early, revive, restarts, ghostVars>>

\* A pass lists the ACTIVE rows; when the listing fails there is no pass, and
\* the boot goes on without one.
ReconcileActiveSignals ==
    /\ rec.pc = "idle" /\ phase # "reconcile"
    /\ \/ Succeeds /\ rec' = [Resting EXCEPT !.pc = "item", !.todo = ListActive]
                   /\ phase' = IF phase = "boot" THEN "reconcile" ELSE phase
       \/ Fails /\ rec' = rec
                /\ phase' = IF phase = "boot" THEN "rehydrate" ELSE phase
    /\ UNCHANGED <<engineVars, book, owner>> /\ recFrame

RecVisits ==
    /\ rec.pc = "item" /\ DOMAIN rec.todo # {}
    /\ LET r == Current(rec.todo) IN rec' = Visit(r, quote[SymbolOf(r.id)])
    /\ UNCHANGED <<engineVars, book, owner, phase, faults>> /\ recFrame

\* A failed settlement leaves the row for the next pass, except that a level
\* hit then falls through to decay and a timed exit without a price ignores
\* the error.
RecSettles ==
    /\ rec.pc = "settle"
    /\ LET r == Current(rec.todo) IN
       \/ /\ Succeeds
          /\ CloseFuturesSignal(r.id, rec.px, rec.reason)
          /\ rec' = [rec EXCEPT !.pc = IF rec.via = "level" THEN "rewrite" ELSE "engine"]
       \/ /\ Fails
          /\ UNCHANGED book
          /\ rec' = CASE rec.via = "level" -> applyDecayState(r, rec.px)
                      [] rec.via = "age" /\ rec.px = 0 -> [rec EXCEPT !.pc = "engine"]
                      [] OTHER -> NextItem
    /\ UNCHANGED <<engineVars, owner, phase>> /\ recFrame

RecRewrites ==
    /\ rec.pc = "rewrite"
    /\ rec' = [rec EXCEPT !.pc = "engine"]
    /\ \/ Succeeds /\ CloseFuturesSignal(Current(rec.todo).id, rec.px, rec.reason)
       \/ Fails /\ UNCHANGED book
    /\ UNCHANGED <<engineVars, owner, phase>> /\ recFrame

\* Mutant of RecExits: a timed exit, too, waits for a level.
RecChecksExit ==
    /\ rec.pc = "engine"
    /\ CheckExit(SymbolOf(Current(rec.todo).id), rec.px)
    /\ rec' = IF rec.via = "decay" THEN [rec EXCEPT !.pc = "mark"] ELSE NextItem
    /\ UNCHANGED <<book, phase, faults>> /\ recFrame

RecExits ==
    /\ rec.pc = "engine"
    /\ LET s == SymbolOf(Current(rec.todo).id) IN
       IF rec.via = "level" THEN CheckExit(s, rec.px)
       ELSE ForceClosePosition(s, rec.px, "TIME_EXIT")
    /\ rec' = IF rec.via = "decay" THEN [rec EXCEPT !.pc = "mark"] ELSE NextItem
    /\ UNCHANGED <<book, phase, faults>> /\ recFrame

RecMarks ==
    /\ rec.pc = "mark"
    /\ rec' = NextItem
    /\ \/ Succeeds /\ UpdateSignalDecay(Current(rec.todo).id, "CLOSED")
       \/ Fails /\ UNCHANGED book
    /\ UNCHANGED <<engineVars, owner, phase>> /\ recFrame

\* Protection: the stop of the row, then its decay state.  The position in
\* the engine keeps the stop it was opened with.
RecMovesStop ==
    LET r == Current(rec.todo)
    IN  /\ rec.pc = "stop"
        /\ \/ /\ Succeeds
              /\ UpdateSignalStop(r.id, BreakevenStopPrice(book[r.id].terms, Fees))
              /\ rec' = [rec EXCEPT !.pc = "protect"]
           \/ Fails /\ UNCHANGED book /\ rec' = NextItem
        /\ UNCHANGED <<engineVars, owner, phase>> /\ recFrame

RecSavesDecay ==
    /\ rec.pc = "protect"
    /\ rec' = NextItem
    /\ \/ Succeeds /\ UpdateSignalDecay(Current(rec.todo).id, "BREAKEVEN")
       \/ Fails /\ UNCHANGED book
    /\ UNCHANGED <<engineVars, owner, phase>> /\ recFrame

\* Mutant of RecRests: the boot's pass does not hand back to the boot.
RecRestsAlone ==
    /\ rec.pc = "item" /\ DOMAIN rec.todo = {}
    /\ rec' = Resting
    /\ UNCHANGED <<engineVars, book, owner, faults, phase>> /\ recFrame

RecRests ==
    /\ rec.pc = "item" /\ DOMAIN rec.todo = {}
    /\ rec' = Resting
    /\ phase' = IF phase = "reconcile" THEN "rehydrate" ELSE phase
    /\ UNCHANGED <<engineVars, book, owner, faults>> /\ recFrame

---------------------------------------------------------------------------
(* Evaluators.  The look for an active row and the insert are two calls; a  *)
(* read that fails counts as "none active".                                 *)

NoSnapshot == [id |-> 0, stop |-> 0, decay |-> "NONE"]
Pending == [pc |-> "idle", offer |-> CHOOSE o \in Offers : TRUE, snap |-> NoSnapshot]

Inserting == {e \in Evaluators : eval[e].pc = "insert"}
evalFrame == UNCHANGED <<quote, closer, rec, early, bootVars, ghostVars>>

EvaluateSymbolSignal(e, o) ==
    LET i == GetActiveFuturesSignalBySymbol(o.symbol)
    IN  /\ eval[e].pc = "idle"
        /\ \/ /\ i # 0 /\ Succeeds
              /\ eval' = [eval EXCEPT ![e] = [Pending EXCEPT !.pc = "ensure", !.snap = Snapshot(i)]]
           \/ /\ IF i = 0 THEN Succeeds ELSE Fails
              /\ Len(book) + Cardinality(Inserting) < MaxSignals
              /\ eval' = [eval EXCEPT ![e] = [Pending EXCEPT !.pc = "insert", !.offer = o]]
        /\ UNCHANGED <<engineVars, book, owner>> /\ evalFrame

InsertFuturesSignal(e) ==
    LET o == eval[e].offer
        row == [terms |-> o, stop |-> o.stop, status |-> "ACTIVE", decay |-> "NONE",
                exit |-> 0, reason |-> "NONE", resolved |-> FALSE, age |-> 0]
        snap == [id |-> Len(book) + 1, stop |-> o.stop, decay |-> "NONE"]
    IN  /\ eval[e].pc = "insert"
        /\ \/ /\ Succeeds
              /\ book' = Append(book, row)
              /\ eval' = [eval EXCEPT ![e] = [Pending EXCEPT !.pc = "ensure", !.snap = snap]]
           \/ Fails /\ UNCHANGED book /\ eval' = [eval EXCEPT ![e] = Pending]
        /\ UNCHANGED <<engineVars, owner>> /\ evalFrame

EvaluatorEnsures(e) ==
    /\ eval[e].pc = "ensure"
    /\ orderCounter < MaxOrders
    /\ ensureSignalPosition(eval[e].snap)
    /\ eval' = [eval EXCEPT ![e] = Pending]
    /\ UNCHANGED <<book, faults>> /\ evalFrame

---------------------------------------------------------------------------
(* The engine-only closers *)

engineFrame == UNCHANGED <<book, quote, closer, rec, eval, bootVars, faults, ghostVars>>

ProcessTick(s) ==
    /\ DaemonOn /\ phase = "up" /\ quote[s] > 0
    /\ CheckExit(s, quote[s])
    /\ UNCHANGED early /\ engineFrame

\* A cycle of the early-exit worker: the open trades are listed once, then
\* judged one by one; an exit closes whatever the symbol holds by then, at
\* its entry price.  The trade carries no signal id, so no row is written.
EvaluateCycle ==
    /\ EarlyExitOn /\ early = {}
    /\ early' = {s \in Symbols : E!IsOpen(s)}
    /\ UNCHANGED <<engineVars, owner>> /\ engineFrame

ProcessEarlyExitVerdict(s) ==
    /\ s \in early
    /\ early' = early \ {s}
    /\ \/ ForceClosePosition(s, 0, "NEWS_EARLY_EXIT")
       \/ UNCHANGED <<engineVars, owner>>
    /\ engineFrame

---------------------------------------------------------------------------
(* Boot and restart: reconcile, list the rows still ACTIVE, open their      *)
(* positions, then let the ticks and the HTTP server in.                    *)

bootFrame == UNCHANGED <<book, quote, taskVars, restarts, ghostVars>>

RehydrateLists ==
    /\ phase = "rehydrate"
    /\ \/ Succeeds /\ revive' = ListActive /\ phase' = "opening"
       \/ Fails /\ revive' = << >> /\ phase' = "up"
    /\ UNCHANGED <<engineVars, owner>> /\ bootFrame

RehydrateOpens ==
    /\ phase = "opening"
    /\ UNCHANGED faults /\ bootFrame
    /\ IF DOMAIN revive = {}
       THEN phase' = "up" /\ UNCHANGED <<engineVars, owner, revive>>
       ELSE /\ orderCounter < MaxOrders + MaxSignals
            /\ ensureSignalPosition(Current(revive))
            /\ revive' = Remaining(revive)
            /\ UNCHANGED phase

Booting == [s \in Symbols |-> NoOwner]

\* Mutant of Restart: the capital basis survives although no margin does.
RestartKeepsCash ==
    /\ restarts < MaxRestarts /\ restarts' = restarts + 1
    /\ positions' = [s \in Symbols |-> NoTrade]
    /\ UNCHANGED <<cash, book, quote, faults, ghostVars>>
    /\ orderCounter' = 0 /\ closedTrades' = << >>
    /\ owner' = Booting /\ phase' = "boot" /\ revive' = << >>
    /\ closer' = [c \in TickTasks \cup ManualTasks |-> Idle]
    /\ rec' = Resting /\ eval' = [e \in Evaluators |-> Pending] /\ early' = {}

\* The rows survive, and the quotes if Redis still holds them; everything in
\* memory is gone, tasks between two steps included.
Restart ==
    /\ restarts < MaxRestarts /\ restarts' = restarts + 1
    /\ E!NewExecutionEngine
    /\ owner' = Booting /\ phase' = "boot" /\ revive' = << >>
    /\ closer' = [c \in TickTasks \cup ManualTasks |-> Idle]
    /\ rec' = Resting /\ eval' = [e \in Evaluators |-> Pending] /\ early' = {}
    /\ quote' \in {quote, [s \in Symbols |-> 0]}
    /\ UNCHANGED <<book, faults, ghostVars>>

\* Time passes for every row, up to AgeBound.
Pass ==
    /\ \E i \in Ids : book[i].age < AgeBound
    /\ book' = [i \in Ids |-> [book[i] EXCEPT
                   !.age = IF @ < AgeBound THEN @ + 1 ELSE @]]
    /\ UNCHANGED <<engineVars, quote, taskVars, bootVars, faults, owner, ghostVars>>

---------------------------------------------------------------------------
Init ==
    /\ E!Init
    /\ book = << >> /\ quote = [s \in Symbols |-> 0]
    /\ closer = [c \in TickTasks \cup ManualTasks |-> Idle]
    /\ rec = Resting /\ eval = [e \in Evaluators |-> Pending] /\ early = {}
    /\ phase = "boot" /\ revive = << >> /\ restarts = 0 /\ faults = 0
    /\ owner = Booting
    /\ learned = [i \in 1..MaxSignals |-> 0] /\ told = [i \in 1..MaxSignals |-> 0]

Ticks   == \/ \E c \in TickTasks, s \in Symbols, p \in Prices : IngestTick(c, s, p)
           \/ \E c \in TickTasks : CheckSignalExitForTick(c) \/ TickRewrites(c)
Manual  == \E c \in ManualTasks, i \in Ids, p \in Prices : CloseFuturesSignalHandler(c, i, p)
Closers == \E c \in TickTasks \cup ManualTasks :
               CloserSettles(c) \/ CloserExits(c) \/ CloserTells(c)
RecWorks == RecVisits \/ RecSettles \/ RecRewrites \/ RecExits \/ RecMarks
            \/ RecMovesStop \/ RecSavesDecay \/ RecRests
Evaluates == \E e \in Evaluators :
               \/ \E o \in Offers : EvaluateSymbolSignal(e, o)
               \/ InsertFuturesSignal(e) \/ EvaluatorEnsures(e)
Engine  == \/ \E s \in Symbols : ProcessTick(s) \/ ProcessEarlyExitVerdict(s)
           \/ EvaluateCycle

Next == \/ Ticks \/ Manual \/ Closers \/ Evaluates \/ Engine \/ Restart \/ Pass
        \/ ReconcileActiveSignals \/ RecWorks
        \/ RehydrateLists \/ RehydrateOpens

Spec == Init /\ [][Next]_vars

\* The process keeps running its own code: the reconciler's ticker fires and
\* its pass goes on, the boot goes on, and time passes.  Nothing is assumed of
\* ticks, requests, evaluators, the daemon or the early-exit worker.
Fairness ==
    /\ WF_vars(ReconcileActiveSignals) /\ WF_vars(RecWorks)
    /\ WF_vars(RehydrateLists) /\ WF_vars(RehydrateOpens)
    /\ WF_vars(Pass)

FairSpec == Spec /\ Fairness

---------------------------------------------------------------------------
(* Properties *)

Snap == [id: 0..MaxSignals, stop: Nat, decay: DecayStates]

\* Rows, tasks and ghosts keep their shape; a task that names a row names one
\* that exists.
TypeOK ==
    /\ E!TypeOK
    /\ Len(book) <= MaxSignals /\ \A i \in Ids : book[i] \in Row
    /\ quote \in [Symbols -> Prices \cup {0}]
    /\ \A c \in DOMAIN closer :
          /\ closer[c].pc \in {"idle", "read", "settle", "rewrite", "engine", "tell"}
          /\ closer[c].pc \in {"settle", "rewrite", "engine", "tell"} =>
                closer[c].id \in Ids /\ closer[c].reason # "NONE" /\ closer[c].px > 0
    /\ rec.pc \in {"idle", "item", "settle", "rewrite", "engine", "mark", "stop", "protect"}
    /\ \A i \in DOMAIN rec.todo : i \in Ids /\ rec.todo[i] \in Snap /\ rec.todo[i].id = i
    /\ rec.pc \notin {"idle", "item"} => DOMAIN rec.todo # {}
    /\ \A e \in Evaluators : eval[e].pc = "ensure" => eval[e].snap.id \in Ids
    /\ early \subseteq Symbols
    /\ phase \in {"boot", "reconcile", "rehydrate", "opening", "up"}
    /\ \A s \in Symbols : (owner[s] = NoOwner) = (positions[s] = NoTrade)

\* Every lifecycle step is one step of the execution engine or none: the
\* server never touches the engine's state behind its operations, so all that
\* holds of the engine alone holds here too.
EngineSpec == E!Spec

\* Whatever price would take a position out of the engine also resolves the
\* row it was opened for, so an exit the daemon makes without the book is one
\* the reconciler or a tick will make in the book too.  It rests on the
\* row's stop only ever moving towards the price while the engine's stays.
BookSeesEveryExit ==
    \A s \in Symbols, p \in Prices :
        positions[s] # NoTrade /\ E!Crossed(positions[s], p) # "NONE" =>
            LET row == book[owner[s].id]
            IN  Resolution(row.terms, row.stop, p) # "NONE"

\* What may truthfully be said of a row that closes at this price: a level was
\* crossed; a timed exit happened at the maximum age, at the horizon, or at the
\* flat checkpoint while not in profit; only the maximum age needs no price.
Explains(row, exit, reason) ==
    LET long == row.terms.long
    IN  CASE reason = "TAKE_PROFIT" ->
                IF long THEN exit >= row.terms.tp ELSE exit <= row.terms.tp
          [] reason = "STOP_LOSS" -> IF long THEN exit <= row.stop ELSE exit >= row.stop
          [] reason = "TIME_EXIT" ->
                \/ row.age >= MaxAge
                \/ exit > 0 /\ row.age >= Prof.horizon
                \/ exit > 0 /\ row.age >= Prof.flat /\ Gain(row.terms, exit) <= 0
          [] OTHER -> reason = "MANUAL_EXIT" /\ exit > 0

\* A closed row says truthfully why it closed, whichever of the racing tasks
\* wrote last: the price and the reason come from one task, which measured
\* them against what the row was when it looked.
ClosedRowsExplained ==
    \A i \in Ids : ~Active(i) => Explains(book[i], book[i].exit, book[i].reason)

\* Some task is about to call the engine for symbol s.
ExitPending(s) ==
    \/ \E c \in DOMAIN closer : closer[c].symbol = s /\ closer[c].pc \in {"rewrite", "engine"}
    \/ rec.pc \in {"rewrite", "engine"} /\ SymbolOf(Current(rec.todo).id) = s

\* The only ways a position outlives its row: its closer has not reached the
\* engine yet; the row was already closed when the position was opened; or the
\* row's stop was moved and the engine still has the old one.
OrphansExplained ==
    \A s \in Symbols :
        LET row == book[owner[s].id]
        IN  positions[s] # NoTrade /\ row.status = "CLOSED" =>
                \/ ExitPending(s)
                \/ owner[s].late
                \/ Tighter(row.terms, row.stop, positions[s].stop)

\* A row's outcome is fed to the sampler at most once by each task that closes
\* signals, so once when there is one: the read filters closed rows, and only
\* the tasks that read before the first closure can still write theirs.
LearnedOncePerTask ==
    \A i \in 1..MaxSignals : learned[i] <= Cardinality(DOMAIN closer)

\* Every published signal is eventually closed, with or without a price and
\* whatever the other tasks do: the maximum age ends it.
EverySignalCloses ==
    \A i \in 1..MaxSignals : (Len(book) >= i) ~> (Len(book) >= i /\ book[i].status = "CLOSED")

\* The boot always reaches the state in which ticks and requests are served.
BootCompletes == (phase = "boot") ~> (phase = "up")

---------------------------------------------------------------------------
(* What the repository's texts say and the code does not do *)

AtRest == /\ phase = "up" /\ early = {} /\ rec.pc = "idle"
          /\ \A c \in DOMAIN closer : closer[c].pc = "idle"
          /\ \A e \in Evaluators : eval[e].pc = "idle"

\* README: "signals = positions".  With no task at work, every position
\* belongs to an ACTIVE signal; positions opened for a row that had just been
\* closed are left to RehydratesLiveOnly.
PositionsHaveSignals ==
    AtRest => \A s \in Symbols :
        positions[s] # NoTrade /\ ~owner[s].late => Active(owner[s].id)

\* "so a signal can never exist without its position": with no task at work
\* every ACTIVE signal's symbol has a position.
SignalsHavePositions ==
    AtRest => \A i \in Ids : Active(i) => positions[SymbolOf(i)] # NoTrade

\* "Persist closed judgment row and signal status atomically": an ACTIVE
\* signal is not left behind by an early exit of its position.
EarlyExitClosesSignal ==
    AtRest => \A i \in Ids : Active(i) /\ positions[SymbolOf(i)] = NoTrade =>
        \A k \in 1..Len(closedTrades) :
            closedTrades[k].trade.symbol = SymbolOf(i) =>
                closedTrades[k].reason # "NEWS_EARLY_EXIT"

\* "Broadcast resolution via Telegram Bot if active and not already resolved".
ToldAtMostOnce == \A i \in 1..MaxSignals : told[i] <= 1

\* "already closed: keep the operation idempotent": closing again changes
\* nothing of a closed row.
ClosingIsIdempotent ==
    [][\A i \in Ids : ~Active(i) => /\ book'[i].exit = book[i].exit
                                    /\ book'[i].reason = book[i].reason]_vars

\* "the hard horizon always closes": a row past the horizon whose price is
\* known is eventually closed.
HorizonCloses ==
    \A i \in 1..MaxSignals :
        (/\ Len(book) >= i
         /\ book[i].age >= Prof.horizon
         /\ quote[SymbolOf(i)] > 0)
            ~> (Len(book) >= i /\ book[i].status = "CLOSED")

\* "rehydration only restores genuinely live positions".
RehydratesLiveOnly ==
    [][DOMAIN revive # {} /\ revive' = Remaining(revive) /\ positions' # positions
        => Active(Current(revive).id)]_vars
=============================================================================
