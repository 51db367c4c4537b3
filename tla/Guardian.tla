------------------------------ MODULE Guardian ------------------------------
(***************************************************************************)
(* The position guardian: the daemon (internal/trader/daemon.go) walks the *)
(* symbols once per tick of the feed, lets the execution engine exit what  *)
(* crossed a level, values the portfolio and feeds the circuit breaker     *)
(* (internal/trader/circuit_breaker.go).  Prices come from the quote store *)
(* (internal/trader/providers.go).  Quotes, new positions and other        *)
(* closers move between any two of its steps.                              *)
(***************************************************************************)
EXTENDS ExecutionEngine

CONSTANTS
    Order,             \* config.Symbols: the symbols in the daemon's order
    ConfiguredCapital, \* capital the breaker is created with
    DrawdownPct,       \* drawdown that trips it, out of 100
    Answers,           \* what the exchange may answer a direct query; 0 fails
    MaxQuotes          \* bound: quotes the feed delivers

ASSUME GuardianAssumption ==
    /\ Order \in Seq(Symbols) \ {<<>>}
    /\ \A s \in Symbols : \E i \in 1..Len(Order) : Order[i] = s  \* the whole catalog
    /\ ConfiguredCapital \in Nat
    /\ DrawdownPct \in 1..100
    /\ Answers \subseteq Nat
    /\ MaxQuotes \in Nat

VARIABLES
    quotes,            \* the quote store; 0 when a symbol has no quote
    breaker,           \* peak and current equity, and the latched halt
    tick,              \* the daemon's ProcessTick
    swept,             \* profits handed to the allocator
    still,             \* history: no quote has moved since the tick began
    ticked             \* quotes delivered

engineVars == vars

guardianVars == <<vars, quotes, breaker, tick, swept, still, ticked>>

NoTick == [pc |-> "idle", next |-> 1, prices |-> [s \in Symbols |-> 0], needed |-> {}]

Known(prices) == {s \in Symbols : prices[s] > 0}

---------------------------------------------------------------------------
(* Valuation *)

\* What a position is worth at a price: its margin and its open result.  No
\* friction is taken off before it is closed.
MarkToMarket(t, price) ==
    Margin(t) + t.size * (IF t.long THEN price - t.entry ELSE t.entry - price)

\* A position nobody has a price for counts at its entry.
EquityAt(prices) ==
    cash + SumFunction([s \in Symbols |->
        IF ~IsOpen(s) THEN 0
        ELSE MarkToMarket(positions[s], IF prices[s] > 0 THEN prices[s] ELSE positions[s].entry)])

NewCircuitBreaker ==
    [peak |-> ConfiguredCapital, curr |-> ConfiguredCapital, halted |-> FALSE]

\* A new peak is kept, a drawdown at the limit halts, and nothing here ever
\* clears the halt.
UpdateEquity(eq) ==
    LET peak == IF eq > breaker.peak THEN eq ELSE breaker.peak
        trips == peak > 0 /\ (peak - eq) * 100 >= DrawdownPct * peak
    IN  breaker' = [peak |-> peak, curr |-> eq, halted |-> breaker.halted \/ trips]

\* What GET /portfolio tells about the breaker: its own drawdown against the
\* engine's initial capital, and a constant.
Summary ==
    LET eq == EquityAt(quotes)
        peak == IF InitialCash > eq THEN InitialCash ELSE eq
    IN  [drawdown |-> IF peak > 0 THEN ((peak - eq) * 100) \div peak ELSE 0,
         halted |-> FALSE]

---------------------------------------------------------------------------
(* ProcessTick *)

\* A halted breaker ends the tick before anything is looked at.
BeginTick ==
    /\ tick.pc = "idle"
    /\ ~breaker.halted
    /\ tick' = [NoTick EXCEPT !.pc = "price"]
    /\ still' = TRUE
    /\ UNCHANGED <<vars, quotes, breaker, swept, ticked>>

\* The loop goes on with the next symbol; after the last one the portfolio is
\* valued if any price is known.
Advance(t) ==
    IF t.next < Len(Order) THEN [t EXCEPT !.pc = "price", !.next = @ + 1]
    ELSE IF Known(t.prices) = {} THEN NoTick ELSE [t EXCEPT !.pc = "needed"]

\* GetLatestPrice: the stored quote, or, for a symbol without one, what the
\* exchange answers now.  The answer is stored under the exchange's own
\* spelling of the symbol, where no later look-up finds it.
TickPrice(p) ==
    LET s == Order[tick.next]
    IN  /\ tick.pc = "price"
        /\ IF quotes[s] > 0 THEN p = quotes[s] ELSE p \in Answers
        /\ tick' = IF p = 0 THEN Advance(tick)
                   ELSE [tick EXCEPT !.pc = "exit", !.prices[s] = p]
        /\ UNCHANGED <<vars, quotes, breaker, swept, still, ticked>>

\* Mutant of TickExit: a symbol is left out of the exit check.
TickExitSkipsFirst ==
    LET s == Order[tick.next]
    IN  /\ tick.pc = "exit"
        /\ IF tick.next = 1 THEN UNCHANGED vars ELSE CheckExit(s, tick.prices[s])
        /\ UNCHANGED swept
        /\ tick' = Advance(tick)
        /\ UNCHANGED <<quotes, breaker, still, ticked>>

\* The engine exits the position if the price crossed a level; a profit goes
\* to the allocator's reserve, a loss does not come out of it.
TickExit ==
    LET s == Order[tick.next]
        p == tick.prices[s]
        pnl == RealizedPnL(positions[s], p)
    IN  /\ tick.pc = "exit"
        /\ CheckExit(s, p)
        /\ swept' = IF IsOpen(s) /\ Crossed(positions[s], p) # "NONE" /\ pnl > 0
                    THEN swept + pnl ELSE swept
        /\ tick' = Advance(tick)
        /\ UNCHANGED <<quotes, breaker, still, ticked>>

\* GetTotalEquity, first lock: which open symbols have no price yet.
ReadNeeded ==
    /\ tick.pc = "needed"
    /\ tick' = [tick EXCEPT !.pc = "fetch",
                            !.needed = {s \in Symbols : IsOpen(s)} \ Known(tick.prices)]
    /\ UNCHANGED <<vars, quotes, breaker, swept, still, ticked>>

\* Their prices are fetched with no lock held.
FetchPrice(s, p) ==
    /\ tick.pc = "fetch"
    /\ s \in tick.needed
    /\ IF quotes[s] > 0 THEN p = quotes[s] ELSE p \in Answers
    /\ tick' = [tick EXCEPT !.needed = @ \ {s}, !.prices[s] = p]
    /\ UNCHANGED <<vars, quotes, breaker, swept, still, ticked>>

\* Mutant of Value: the positions of the first lock are valued with the cash
\* of the second, so a position opened in between is only seen in the cash.
ValueTorn ==
    /\ tick.pc = "fetch" /\ tick.needed = {}
    /\ UpdateEquity(cash + SumFunction([s \in Symbols |->
           IF s \in Known(tick.prices) /\ IsOpen(s) /\ positions[s].id < orderCounter
           THEN MarkToMarket(positions[s], tick.prices[s]) ELSE 0]))
    /\ tick' = NoTick
    /\ UNCHANGED <<vars, quotes, swept, still, ticked>>

\* Second lock: cash and positions are read together, then the breaker is fed.
Value ==
    /\ tick.pc = "fetch" /\ tick.needed = {}
    /\ UpdateEquity(EquityAt(tick.prices))
    /\ tick' = NoTick
    /\ UNCHANGED <<vars, quotes, swept, still, ticked>>

---------------------------------------------------------------------------
(* What runs beside it *)

\* IngestTick stores the quote of the feed.
UpdateQuote(s, p) ==
    /\ ticked < MaxQuotes
    /\ ticked' = ticked + 1
    /\ quotes' = [quotes EXCEPT ![s] = p]
    /\ still' = FALSE
    /\ UNCHANGED <<vars, breaker, tick, swept>>

\* Evaluations open positions, the lifecycle's tasks close them.
OthersOpen(sig) == Open(sig) /\ UNCHANGED <<quotes, breaker, tick, swept, still, ticked>>

OthersClose(s) ==
    /\ IsOpen(s)
    /\ ForceClosePosition(s, quotes[s], "MANUAL_EXIT")
    /\ UNCHANGED <<quotes, breaker, tick, swept, still, ticked>>

GuardianInit ==
    /\ Init
    /\ quotes = [s \in Symbols |-> 0]
    /\ breaker = NewCircuitBreaker
    /\ tick = NoTick
    /\ swept = 0
    /\ still = TRUE
    /\ ticked = 0

ProcessTick ==
    \/ BeginTick \/ TickExit \/ ReadNeeded \/ Value
    \/ \E p \in Prices \cup Answers : TickPrice(p)
    \/ \E s \in Symbols, p \in Prices \cup Answers : FetchPrice(s, p)

GuardianNext ==
    \/ ProcessTick
    \/ \E s \in Symbols, p \in Prices : UpdateQuote(s, p)
    \/ \E sig \in Offers : OthersOpen(sig)
    \/ \E s \in Symbols : OthersClose(s)

GuardianSpec == GuardianInit /\ [][GuardianNext]_guardianVars

\* Every tick of the feed runs the daemon, on a goroutine of its own.
GuardianFairness == WF_guardianVars(ProcessTick)

---------------------------------------------------------------------------
(* Properties *)

\* Every variable keeps its shape.
GuardianTypeOK ==
    /\ TypeOK
    /\ quotes \in [Symbols -> Nat]
    /\ breaker \in [peak : Nat, curr : Int, halted : BOOLEAN]
    /\ tick.pc \in {"idle", "price", "exit", "needed", "fetch"}
    /\ tick.next \in 1..Len(Order)
    /\ swept \in Nat

\* The three steps of GetTotalEquity are as good as one: while every symbol
\* has a quote and none moves, the equity the breaker is told is the equity
\* of the engine at that moment, whatever is opened or closed in between.
ReadingIsConsistent ==
    [][/\ tick.pc = "fetch" /\ tick'.pc = "idle"
       /\ still /\ Known(quotes) = Symbols
       => breaker'.curr = EquityAt(quotes)]_guardianVars

\* A portfolio that has never been exposed does not trip the breaker.  (It
\* does when the ledger nets to less than the configured capital.)
HaltNeedsExposure == breaker.halted => orderCounter > 0

\* While the breaker has not halted, a position whose level is crossed at the
\* stored quote does not stay open: the daemon gets to every symbol.
CrossedPositionLeaves ==
    \A s \in Symbols :
        (<>[](IsOpen(s) /\ quotes[s] > 0 /\ Crossed(positions[s], quotes[s]) # "NONE"))
            => <>(breaker.halted)

\* Positions stay guarded after a halt.  (They do not: the tick returns
\* before the exit check.)
GuardedWhenHalted ==
    \A s \in Symbols :
        ~<>[](IsOpen(s) /\ quotes[s] > 0 /\ Crossed(positions[s], quotes[s]) # "NONE")

\* The portfolio summary tells of a halt.  (It never does.)
SummaryTellsHalt == breaker.halted => Summary.halted
=============================================================================
