------------------------------ MODULE Treasury ------------------------------
(***************************************************************************)
(* The investor ledger and the Tier 1 reserve: the tables investors and    *)
(* investor_transactions (internal/db/investor.go), the allocator in       *)
(* memory (internal/trader/allocator.go) and the handlers that keep them   *)
(* in step (internal/server/investor_handlers.go).  A handler reads the    *)
(* reserve, reads the equity, runs one database transaction and then       *)
(* adjusts the allocator, and other handlers run between any two of these. *)
(*                                                                         *)
(* Money and units are whole numbers, percentages are out of 100.  The     *)
(* equity comes from the execution engine, which no handler here changes.  *)
(***************************************************************************)
EXTENDS Integers, FiniteSetsExt

CONSTANTS
    Investors,        \* ids of ledger rows
    Calls,            \* requests to the handlers, each used once
    Amounts,          \* amounts a request may name
    EquityLevels,     \* what the engine's equity may move to
    Profits,          \* profits the daemon may sweep
    InitialCapital,   \* INITIAL_CAPITAL of the environment
    FirstLedgers,     \* ledgers a process may boot over; an inactive row is none
    NavScale,         \* a NAV of 1 is NavScale; the code keeps six digits
    Tier1Pcts,        \* reserve targets the macro regimes set
    MaxMoves,         \* bound: market moves, sweeps and regime changes
    MaxLedgerFaults,  \* bound: failed transactions
    MaxBoots,         \* bound: restarts
    NoCall

DefaultTier1Pct == 15

ASSUME TreasuryAssumption ==
    /\ IsFiniteSet(Investors) /\ IsFiniteSet(Calls)
    /\ Amounts \subseteq Nat \ {0}
    /\ EquityLevels \subseteq Nat
    /\ Profits \subseteq Nat
    /\ InitialCapital \in Nat \ {0}
    /\ NavScale \in Nat \ {0}
    /\ Tier1Pcts \subseteq 0..100
    /\ NoCall \notin Calls
    /\ FirstLedgers \subseteq
          [Investors -> [active: BOOLEAN, deposited: Nat, withdrawn: Nat, units: Nat]]
    /\ \A l \in FirstLedgers, i \in Investors : ~l[i].active => l[i].units = 0

VARIABLES
    ledger,           \* investors: the row of each id
    booked,           \* investor_transactions: the units booked for each id
    rowLock,          \* the transaction holding FOR UPDATE on a row
    equity,           \* GetTotalEquity of the engine
    reserve,          \* tier1Cash
    tier1Pct,         \* config.Tier1TargetPct
    call,             \* the handler of each request
    credited,         \* history: credits to the reserve since the boot
    opening,          \* history: reserve plus withdrawals at the boot
    budget            \* moves, faults and boots used up

treasuryVars == <<ledger, booked, rowLock, equity, reserve, tier1Pct, call,
                  credited, opening, budget>>

Row == [active: BOOLEAN, deposited: Nat, withdrawn: Nat, units: Nat]

NoRow == [active |-> FALSE, deposited |-> 0, withdrawn |-> 0, units |-> 0]

Idle == [op |-> "none", pc |-> "idle"]

Ops == {"deposit", "withdraw", "create", "seed"}

TotalUnits(l)     == SumFunction([i \in Investors |-> l[i].units])
TotalWithdrawn(l) == SumFunction([i \in Investors |-> l[i].withdrawn])
NetCapital(l)     == SumFunction([i \in Investors |-> l[i].deposited - l[i].withdrawn])

---------------------------------------------------------------------------
(* Pricing *)

\* 1 for an empty pool or one without equity, else equity per unit, rounded.
CalculateNAV(eq, units) ==
    IF units <= 0 \/ eq <= 0 THEN NavScale
    ELSE (2 * eq * NavScale + units) \div (2 * units)

\* amount / nav, of a NAV that does not round to zero.
UnitsFor(amount, nav) == (amount * NavScale) \div nav

\* What an investor is shown to own: the row's units at the NAV of now.
CurrentEquity(l, eq, i) == (l[i].units * CalculateNAV(eq, TotalUnits(l))) \div NavScale

---------------------------------------------------------------------------
(* Steps of a handler *)

At(c, pc) == call[c].pc = pc

Goto(c, pc) == call' = [call EXCEPT ![c].pc = pc]

\* The end of a transaction: the lock on the row goes, if it was taken.
Unlock(c) == rowLock' = [i \in Investors |-> IF rowLock[i] = c THEN NoCall ELSE rowLock[i]]

\* A request arrives.  A withdrawal reads the reserve first; a portfolio
\* request that finds no active row seeds one with the configured capital.
Request(c, op, i, a) ==
    /\ At(c, "idle")
    /\ op \in {"create", "seed"} =>
          /\ ~ledger[i].active
          /\ \A d \in Calls : call[d].op \in {"create", "seed"} => call[d].who # i
    /\ call' = [call EXCEPT ![c] =
          [op |-> op, who |-> i, amount |-> IF op = "seed" THEN InitialCapital ELSE a,
           reserve |-> 0, equity |-> 0, nav |-> NavScale, units |-> 0, held |-> 0,
           pc |-> CASE op = "withdraw" -> "gate" [] op = "seed" -> "count"
                    [] OTHER -> "equity"]]
    /\ UNCHANGED <<ledger, booked, rowLock, equity, reserve, tier1Pct, credited,
                   opening, budget>>

\* The gate of a withdrawal: the amount must fit the reserve as it is now.
ReserveGate(c) ==
    /\ At(c, "gate")
    /\ call' = [call EXCEPT ![c].reserve = reserve,
                            ![c].pc = IF call[c].amount > reserve THEN "rejected"
                                                                  ELSE "equity"]
    /\ UNCHANGED <<ledger, booked, rowLock, equity, reserve, tier1Pct, credited,
                   opening, budget>>

ReadEquity(c) ==
    /\ At(c, "equity")
    /\ call' = [call EXCEPT ![c].equity = equity,
                            ![c].pc = IF call[c].op = "create" THEN "sum" ELSE "lock"]
    /\ UNCHANGED <<ledger, booked, rowLock, equity, reserve, tier1Pct, credited,
                   opening, budget>>

\* EnsureDefaultInvestorProfile counts the active rows; one is enough.
CountActive(c) ==
    /\ At(c, "count")
    /\ call' = [call EXCEPT ![c].equity = InitialCapital,
                            ![c].pc = IF \E i \in Investors : ledger[i].active
                                      THEN "done" ELSE "sum"]
    /\ UNCHANGED <<ledger, booked, rowLock, equity, reserve, tier1Pct, credited,
                   opening, budget>>

\* Mutant of LockRow: the row is read without FOR UPDATE.
LockRowUnlocked(c) ==
    /\ At(c, "lock")
    /\ call' = [call EXCEPT ![c].held = ledger[call[c].who].units,
                            ![c].pc = IF ledger[call[c].who].active THEN "sum"
                                                                    ELSE "rejected"]
    /\ UNCHANGED <<ledger, booked, rowLock, equity, reserve, tier1Pct, credited,
                   opening, budget>>

\* SELECT ... FOR UPDATE: waits for the row, reads it, keeps it locked.
LockRow(c) ==
    LET i == call[c].who
    IN  /\ At(c, "lock")
        /\ rowLock[i] = NoCall
        /\ IF ledger[i].active
           THEN /\ rowLock' = [rowLock EXCEPT ![i] = c]
                /\ call' = [call EXCEPT ![c].held = ledger[i].units, ![c].pc = "sum"]
           ELSE Goto(c, "rejected") /\ UNCHANGED rowLock
        /\ UNCHANGED <<ledger, booked, equity, reserve, tier1Pct, credited, opening, budget>>

\* The pool's units are summed from the rows committed by now, under no lock,
\* and price the transaction together with the equity read before it began.
\* At a NAV that rounds to zero the units are infinite: no row holds as many,
\* and the INSERT of a deposit into NUMERIC(24, 8) fails.
SumUnits(c) ==
    LET nav   == CalculateNAV(call[c].equity, TotalUnits(ledger))
        units == IF nav = 0 THEN 0 ELSE UnitsFor(call[c].amount, nav)
        short == nav = 0 \/ (call[c].op = "withdraw" /\ call[c].held < units)
    IN  /\ At(c, "sum")
        /\ call' = [call EXCEPT ![c].nav = nav, ![c].units = units,
                                ![c].pc = IF short THEN "rejected" ELSE "commit"]
        /\ IF short THEN Unlock(c) ELSE UNCHANGED rowLock
        /\ UNCHANGED <<ledger, booked, equity, reserve, tier1Pct, credited, opening, budget>>

\* GREATEST(0, pool_units - redeemed).
Redeemed(units, redeemed) == IF units < redeemed THEN 0 ELSE units - redeemed

\* INSERT of the transaction, UPDATE (or INSERT) of the row and COMMIT.  Only
\* deposits and withdrawals go on to the allocator: a new investor's first
\* deposit does not reach it.
Commit(c) ==
    LET i == call[c].who
        a == call[c].amount
        u == call[c].units
    IN  /\ At(c, "commit")
        /\ CASE call[c].op = "withdraw" ->
                  /\ ledger' = [ledger EXCEPT ![i].withdrawn = @ + a,
                                              ![i].units = Redeemed(@, u)]
                  /\ booked' = [booked EXCEPT ![i] = @ - u]
             [] call[c].op # "withdraw" ->
                  /\ ledger' = [ledger EXCEPT ![i].active = TRUE,
                                              ![i].deposited = @ + a, ![i].units = @ + u]
                  /\ booked' = [booked EXCEPT ![i] = @ + u]
        /\ Unlock(c)
        /\ Goto(c, IF call[c].op \in {"create", "seed"} THEN "done" ELSE "settle")
        /\ UNCHANGED <<equity, reserve, tier1Pct, credited, opening, budget>>

\* Any statement of the transaction fails: it is rolled back.
LedgerFails(c) ==
    /\ call[c].pc \in {"lock", "sum", "commit", "count"}
    /\ budget.faults < MaxLedgerFaults
    /\ budget' = [budget EXCEPT !.faults = @ + 1]
    /\ Unlock(c)
    /\ Goto(c, "rejected")
    /\ UNCHANGED <<ledger, booked, equity, reserve, tier1Pct, credited, opening>>

\* AddCapital: the reserve gets its share of a deposit.
AddCapital(c) ==
    LET share == (call[c].amount * tier1Pct) \div 100
    IN  /\ At(c, "settle") /\ call[c].op = "deposit"
        /\ reserve' = reserve + share
        /\ credited' = credited + share
        /\ Goto(c, "done")
        /\ UNCHANGED <<ledger, booked, rowLock, equity, tier1Pct, opening, budget>>

\* Mutants of DebitTier1Cash: the second look at the reserve is missing, and a
\* refused debit empties the reserve.
DebitUnchecked(c) ==
    /\ At(c, "settle") /\ call[c].op = "withdraw"
    /\ reserve' = reserve - call[c].amount
    /\ Goto(c, "done")
    /\ UNCHANGED <<ledger, booked, rowLock, equity, tier1Pct, credited, opening, budget>>

DebitToZero(c) ==
    /\ At(c, "settle") /\ call[c].op = "withdraw"
    /\ reserve' = IF call[c].amount > reserve THEN 0 ELSE reserve - call[c].amount
    /\ Goto(c, IF call[c].amount > reserve THEN "refused" ELSE "done")
    /\ UNCHANGED <<ledger, booked, rowLock, equity, tier1Pct, credited, opening, budget>>

\* The withdrawal is in the ledger; the reserve is debited if it still covers
\* the amount, and the error is dropped by the handler if it does not.
DebitTier1Cash(c) ==
    /\ At(c, "settle") /\ call[c].op = "withdraw"
    /\ IF call[c].amount > reserve
       THEN Goto(c, "refused") /\ UNCHANGED reserve
       ELSE Goto(c, "done") /\ reserve' = reserve - call[c].amount
    /\ UNCHANGED <<ledger, booked, rowLock, equity, tier1Pct, credited, opening, budget>>

---------------------------------------------------------------------------
(* The rest of the process *)

Spend(kind, max) ==
    /\ budget[kind] < max
    /\ budget' = [budget EXCEPT ![kind] = @ + 1]

MarketMoves(v) ==
    /\ Spend("moves", MaxMoves)
    /\ equity' = v
    /\ UNCHANGED <<ledger, booked, rowLock, reserve, tier1Pct, call, credited, opening>>

\* The daemon closed a trade with a profit.
SweepProfitToTier1(p) ==
    /\ Spend("moves", MaxMoves)
    /\ reserve' = reserve + p
    /\ credited' = credited + p
    /\ UNCHANGED <<ledger, booked, rowLock, equity, tier1Pct, call, opening>>

\* New macro indicators change the targets, never the cash already held.
ApplyMacroRegime(pct) ==
    /\ Spend("moves", MaxMoves)
    /\ tier1Pct' = pct
    /\ UNCHANGED <<ledger, booked, rowLock, equity, reserve, call, credited, opening>>

SeedRow == [active |-> TRUE, deposited |-> InitialCapital, withdrawn |-> 0,
            units |-> InitialCapital]

\* The capital a process starts with: what the ledger nets to, or the
\* configured capital when it nets to nothing or cannot be read.
BootCapital(l) == IF NetCapital(l) > 0 THEN NetCapital(l) ELSE InitialCapital

Reserved(capital) == (capital * DefaultTier1Pct) \div 100

\* The process is gone with its handlers and the debits it refused, the
\* database rolls open transactions back, and a new process reads the ledger.  An empty ledger
\* gets its first row; an unreadable one is left alone.
Restart(readable, i) ==
    LET seeds == readable /\ \A j \in Investors : ~ledger[j].active
        l == IF seeds THEN [ledger EXCEPT ![i] = SeedRow] ELSE ledger
        capital == IF readable THEN BootCapital(l) ELSE InitialCapital
    IN  /\ Spend("boots", MaxBoots)
        /\ ledger' = l
        /\ booked' = IF seeds THEN [booked EXCEPT ![i] = @ + InitialCapital] ELSE booked
        /\ rowLock' = [j \in Investors |-> NoCall]
        /\ call' = [c \in Calls |->
              IF call[c].pc \in {"idle", "done", "rejected"}
              THEN call[c] ELSE [call[c] EXCEPT !.pc = "lost"]]
        /\ equity' = capital
        /\ reserve' = Reserved(capital)
        /\ tier1Pct' = DefaultTier1Pct
        /\ credited' = 0
        /\ opening' = Reserved(capital) + TotalWithdrawn(l)

---------------------------------------------------------------------------
\* A process that has just booted over ledger l.
Booted(l) ==
    /\ ledger = l
    /\ booked = [i \in Investors |-> l[i].units]
    /\ rowLock = [i \in Investors |-> NoCall]
    /\ equity = BootCapital(l)
    /\ reserve = Reserved(BootCapital(l))
    /\ tier1Pct = DefaultTier1Pct
    /\ call = [c \in Calls |-> Idle]
    /\ credited = 0
    /\ opening = Reserved(BootCapital(l)) + TotalWithdrawn(l)
    /\ budget = [moves |-> 0, faults |-> 0, boots |-> 0]

TreasuryInit == \E l \in FirstLedgers : Booted(l)

Step(c) ==
    \/ ReserveGate(c) \/ ReadEquity(c) \/ CountActive(c) \/ LockRow(c) \/ SumUnits(c)
    \/ Commit(c) \/ AddCapital(c) \/ DebitTier1Cash(c)

TreasuryNext ==
    \/ \E c \in Calls : Step(c) \/ LedgerFails(c)
    \/ \E c \in Calls, op \in Ops, i \in Investors, a \in Amounts : Request(c, op, i, a)
    \/ \E v \in EquityLevels : MarketMoves(v)
    \/ \E p \in Profits : SweepProfitToTier1(p)
    \/ \E pct \in Tier1Pcts : ApplyMacroRegime(pct)
    \/ \E readable \in BOOLEAN, i \in Investors : Restart(readable, i)

TreasurySpec == TreasuryInit /\ [][TreasuryNext]_treasuryVars

---------------------------------------------------------------------------
(* Properties *)

\* Every variable keeps its shape; no row holds a negative number of units
\* and the reserve is never overdrawn, whatever the handlers interleave.
TreasuryTypeOK ==
    /\ ledger \in [Investors -> Row]
    /\ booked \in [Investors -> Int]
    /\ rowLock \in [Investors -> Calls \cup {NoCall}]
    /\ equity \in Nat /\ reserve \in Nat /\ tier1Pct \in 0..100
    /\ credited \in Nat /\ opening \in Nat

\* The transactions of an investor add up to the units of the row: a
\* redemption priced from the row it locked never burns more than is there,
\* so the clamp at zero in the UPDATE never hides a difference.
JournalExplainsHoldings == \A i \in Investors : booked[i] = ledger[i].units

\* What a withdrawal the ledger has paid still has to take from the reserve.
Owes(c) == IF call[c].op = "withdraw" /\ call[c].pc \in {"settle", "refused"}
           THEN call[c].amount ELSE 0

\* The reserve in memory and the withdrawals in the database tell one story:
\* since the boot the reserve has lost exactly what the ledger paid out,
\* except the payments whose debit is still to come or was refused.
ReserveMatchesLedger ==
    reserve = opening + credited - TotalWithdrawn(ledger)
              + SumFunction([c \in Calls |-> Owes(c)])

\* The handlers keep the books of InvestorLedger: cut into their steps and run
\* into each other, locks, stale prices, failures and restarts included, they
\* move units and money only as its single steps do.
Books == INSTANCE InvestorLedger
    WITH accounts <- ledger, journal <- booked, cash <- reserve,
         owed <- SumFunction([c \in Calls |-> Owes(c)]), process <- budget.boots

KeepsTheBooks == Books!Spec

\* A debit is refused only after a race: another withdrawal was paid out of
\* the reserve that the refused one had been checked against.
RefusalNeedsRace ==
    \A c \in Calls : call[c].pc = "refused" =>
        \E d \in Calls \ {c} : call[d].op = "withdraw" /\ call[d].pc = "done"

\* The redemption gate of the ledger's description: a withdrawal that the
\* ledger has paid was covered by the reserve.  (Two that race are not.)
RedemptionsCovered == \A c \in Calls : call[c].pc # "refused"

\* "Wall-Street standard zero-dilution" (docs/assets/feature-ledger.svg:30): a
\* deposit takes nothing from what the others are shown to own, rounding aside.
\* (It does: the engine's equity does not rise with the deposit, so the same
\* equity is spread over more units.)
ZeroDilution ==
    [][\A i \in Investors :
         ledger'[i].deposited > ledger[i].deposited /\ equity' = equity =>
            \A j \in Investors \ {i} :
               CurrentEquity(ledger', equity, j) + 1 >= CurrentEquity(ledger, equity, j)
      ]_treasuryVars

\* The foundational profile is seeded once.  (Two requests that both count
\* zero rows seed it twice.)
OneTreasury ==
    Cardinality({c \in Calls : call[c].op = "seed" /\ call[c].pc = "done"
                               /\ ledger[call[c].who].active}) <= 1
=============================================================================
