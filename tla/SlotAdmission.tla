--------------------------- MODULE SlotAdmission ---------------------------
(***************************************************************************)
(* How evaluations of symbols become ACTIVE rows, and what bounds them: the *)
(* checks at the start of EvaluateSymbolSignal, the slot guard right before *)
(* the insert, the per-symbol lock of the scanners and the semaphore of     *)
(* decide-all (internal/server/signal_handlers.go, news_events.go).         *)
(*                                                                          *)
(* Three kinds of task evaluate symbols: workers of decide-all (Batch),     *)
(* single decide requests (Direct), and the news consumer and the backstop  *)
(* sweep (Locked), which hold the symbol's lock for the whole evaluation.   *)
(* The slot guard's mutex covers the guard's two reads but not the insert   *)
(* that follows.                                                            *)
(***************************************************************************)
EXTENDS Integers, Sequences, FiniteSets

CONSTANTS
    Symbols,          \* the universe
    Group,            \* exposure group of each symbol
    Cap,              \* MAX_CONCURRENT_SIGNALS
    Batch, Direct, Locked,   \* the evaluating tasks, by kind
    MaxRows,          \* bound: rows ever inserted
    MaxFaults         \* bound: database calls that fail

Unlocked == Batch \cup Direct
Tasks == Unlocked \cup Locked

ASSUME CapAssumption   == Cap \in Nat \ {0}
ASSUME TasksAssumption == /\ IsFiniteSet(Unlocked) /\ IsFiniteSet(Locked)
                          /\ Unlocked \cap Locked = {}
ASSUME BoundsAssumption == MaxRows \in Nat /\ MaxFaults \in Nat
ASSUME GroupAssumption == DOMAIN Group = Symbols

VARIABLES
    rows,        \* the signals table: symbol, whether ACTIVE, whether dispatched
    announced,   \* entry announcements sent, per row
    pc, sym, row, \* each task: its step, its symbol, the row it will announce
    evalBusy,    \* symbols locked by the scanners (sync.Map evalBusy)
    slotMu,      \* the task holding the slot guard's mutex, or Nobody
    todo,        \* symbols the running batch has not started
    semCap,      \* its semaphore's size
    faults

rowVars  == <<rows, announced>>
taskVars == <<pc, sym, row>>
batchVars == <<todo, semCap>>
vars == <<rowVars, taskVars, evalBusy, slotMu, batchVars, faults>>

Nobody == "nobody"
ASSUME NobodyAssumption == Nobody \notin Tasks

Steps == {"idle", "check", "guard", "cap", "insert", "announce", "mark"}

Active == {i \in 1..Len(rows) : rows[i].active}
ActiveOf(s) == {i \in Active : rows[i].symbol = s}
Correlated(s, t) == Group[s] = Group[t]

Succeeds == faults' = faults
Fails    == faults < MaxFaults /\ faults' = faults + 1

Busy == {t \in Tasks : pc[t] # "idle"}

---------------------------------------------------------------------------
(* Starting an evaluation *)

Begins(t, s) ==
    /\ pc[t] = "idle"
    /\ Len(rows) + Cardinality(Busy) < MaxRows
    /\ pc' = [pc EXCEPT ![t] = "check"]
    /\ sym' = [sym EXCEPT ![t] = s]
    /\ UNCHANGED <<rowVars, row, slotMu>>

\* The semaphore has a place for each free slot, at least 1 and at most 12.  A
\* listing that fails counts every slot as free.
GenerateAllFuturesSignals ==
    LET places(free) == IF free < 1 THEN 1 ELSE IF free > 12 THEN 12 ELSE free
    IN  /\ todo = {} /\ Busy \cap Batch = {}
        /\ todo' = Symbols
        /\ \/ Succeeds /\ semCap' = places(Cap - Cardinality(Active))
           \/ Fails /\ semCap' = places(Cap)
        /\ UNCHANGED <<rowVars, taskVars, evalBusy, slotMu>>

BatchTakes(t, s) ==
    /\ s \in todo /\ Cardinality(Busy \cap Batch) < semCap
    /\ Begins(t, s)
    /\ todo' = todo \ {s}
    /\ UNCHANGED <<evalBusy, semCap, faults>>

\* The batch deadline: what has not started stays SKIPPED; what runs, runs on.
BatchDeadline ==
    /\ todo # {} /\ todo' = {}
    /\ UNCHANGED <<rowVars, taskVars, evalBusy, slotMu, semCap, faults>>

DirectTakes(t, s) ==
    /\ Begins(t, s)
    /\ UNCHANGED <<evalBusy, batchVars, faults>>

\* Mutant of LockedTakes: the lock is not tested.
LockedTakesAnyway(t, s) ==
    /\ Begins(t, s)
    /\ evalBusy' = evalBusy \cup {s}
    /\ UNCHANGED <<batchVars, faults>>

\* lockSymbol: a symbol another scanner is evaluating is skipped.
LockedTakes(t, s) ==
    /\ s \notin evalBusy
    /\ Begins(t, s)
    /\ evalBusy' = evalBusy \cup {s}
    /\ UNCHANGED <<batchVars, faults>>

\* The evaluation returns; a scanner gives up its symbol lock.
Ends(t) ==
    /\ pc' = [pc EXCEPT ![t] = "idle"]
    /\ evalBusy' = IF t \in Locked THEN evalBusy \ {sym[t]} ELSE evalBusy

GoesTo(t, step) == pc' = [pc EXCEPT ![t] = step] /\ UNCHANGED evalBusy

---------------------------------------------------------------------------
(* One evaluation *)

\* The symbol has an active row, a correlated one has, or no slot is free.
Refused(s) ==
    \/ ActiveOf(s) # {}
    \/ \E i \in Active : Correlated(rows[i].symbol, s)
    \/ Cardinality(Active) >= Cap

\* The checks before the decision; a read that fails passes its check.  The
\* decision itself may be to hold.
Check(t) ==
    /\ pc[t] = "check"
    /\ \/ Succeeds /\ Ends(t)
       \/ Succeeds /\ ~Refused(sym[t]) /\ GoesTo(t, "guard")
       \/ Fails /\ GoesTo(t, "guard")
    /\ UNCHANGED <<rowVars, sym, row, slotMu, batchVars>>

\* Mutant of GuardDuplicate: the duplicate read's answer is not used.
GuardDuplicateSkipped(t) ==
    /\ pc[t] = "guard" /\ slotMu = Nobody
    /\ slotMu' = t /\ GoesTo(t, "cap") /\ Succeeds
    /\ UNCHANGED <<rowVars, sym, row, batchVars>>

\* The guard takes its mutex and looks for an active row of the symbol.  One
\* that is found is handed back as the evaluation's result, to be announced
\* like a row of its own; a failed read counts as none found.
GuardDuplicate(t) ==
    /\ pc[t] = "guard" /\ slotMu = Nobody
    /\ \/ /\ Succeeds /\ ActiveOf(sym[t]) # {}
          /\ \E i \in ActiveOf(sym[t]) :
                /\ \A j \in ActiveOf(sym[t]) : j <= i
                /\ row' = [row EXCEPT ![t] = i]
                /\ IF rows[i].dispatched THEN Ends(t) ELSE GoesTo(t, "announce")
          /\ UNCHANGED slotMu
       \/ /\ IF ActiveOf(sym[t]) = {} THEN Succeeds ELSE Fails
          /\ slotMu' = t
          /\ GoesTo(t, "cap")
          /\ UNCHANGED row
    /\ UNCHANGED <<rowVars, sym, batchVars>>

\* Mutants of GuardCap: off by one, and a refusal that keeps the mutex.
GuardCapOffByOne(t) ==
    /\ pc[t] = "cap" /\ slotMu' = Nobody
    /\ Succeeds
    /\ IF Cardinality(Active) > Cap THEN Ends(t) ELSE GoesTo(t, "insert")
    /\ UNCHANGED <<rowVars, sym, row, batchVars>>

GuardCapKeepsMutex(t) ==
    /\ pc[t] = "cap" /\ Succeeds
    /\ IF Cardinality(Active) >= Cap THEN Ends(t) /\ UNCHANGED slotMu
       ELSE GoesTo(t, "insert") /\ slotMu' = Nobody
    /\ UNCHANGED <<rowVars, sym, row, batchVars>>

\* Then it counts the active rows and releases the mutex; a failed count
\* lets the evaluation through.
GuardCap(t) ==
    /\ pc[t] = "cap" /\ slotMu' = Nobody
    /\ \/ /\ Succeeds
          /\ IF Cardinality(Active) >= Cap THEN Ends(t) ELSE GoesTo(t, "insert")
       \/ Fails /\ GoesTo(t, "insert")
    /\ UNCHANGED <<rowVars, sym, row, batchVars>>

\* Mutant of InsertFuturesSignal: a row that was not stored is announced.
InsertAnnouncesUnstored(t) ==
    /\ pc[t] = "insert"
    /\ \/ /\ Succeeds
          /\ rows' = Append(rows, [symbol |-> sym[t], active |-> TRUE, dispatched |-> FALSE])
          /\ announced' = Append(announced, 0)
          /\ row' = [row EXCEPT ![t] = Len(rows) + 1]
       \/ Fails /\ UNCHANGED <<rowVars, row>>
    /\ GoesTo(t, "announce")
    /\ UNCHANGED <<sym, slotMu, batchVars>>

InsertFuturesSignal(t) ==
    /\ pc[t] = "insert"
    /\ \/ /\ Succeeds
          /\ rows' = Append(rows, [symbol |-> sym[t], active |-> TRUE, dispatched |-> FALSE])
          /\ announced' = Append(announced, 0)
          /\ row' = [row EXCEPT ![t] = Len(rows) + 1]
          /\ GoesTo(t, "announce")
       \/ Fails /\ Ends(t) /\ UNCHANGED <<rowVars, row>>
    /\ UNCHANGED <<sym, slotMu, batchVars>>

\* SSE and Telegram; the row the task holds was read before it was marked.
Announce(t) ==
    /\ pc[t] = "announce"
    /\ announced' = [announced EXCEPT ![row[t]] = @ + 1]
    /\ GoesTo(t, "mark")
    /\ UNCHANGED <<rows, sym, row, slotMu, batchVars, faults>>

\* A mark that fails is ignored.
MarkSignalDispatched(t) ==
    /\ pc[t] = "mark"
    /\ \/ Succeeds /\ rows' = [rows EXCEPT ![row[t]].dispatched = TRUE]
       \/ Fails /\ UNCHANGED rows
    /\ Ends(t)
    /\ UNCHANGED <<announced, sym, row, slotMu, batchVars>>

\* A signal is closed by the tasks of SignalLifecycle and frees its slot.
CloseFuturesSignal(i) ==
    /\ i \in Active
    /\ rows' = [rows EXCEPT ![i].active = FALSE]
    /\ UNCHANGED <<announced, taskVars, evalBusy, slotMu, batchVars, faults>>

---------------------------------------------------------------------------
Init ==
    /\ rows = << >> /\ announced = << >>
    /\ pc = [t \in Tasks |-> "idle"]
    /\ sym \in [Tasks -> Symbols] /\ \A t, u \in Tasks : sym[t] = sym[u]
    /\ row = [t \in Tasks |-> 0]
    /\ evalBusy = {} /\ slotMu = Nobody
    /\ todo = {} /\ semCap = 1 /\ faults = 0

Works(t) == \/ Check(t) \/ GuardDuplicate(t) \/ GuardCap(t)
            \/ InsertFuturesSignal(t) \/ Announce(t) \/ MarkSignalDispatched(t)

Starts == \/ GenerateAllFuturesSignals \/ BatchDeadline
          \/ \E t \in Batch, s \in Symbols : BatchTakes(t, s)
          \/ \E t \in Direct, s \in Symbols : DirectTakes(t, s)
          \/ \E t \in Locked, s \in Symbols : LockedTakes(t, s)

Next == \/ Starts
        \/ \E t \in Tasks : Works(t)
        \/ \E i \in 1..Len(rows) : CloseFuturesSignal(i)

Spec == Init /\ [][Next]_vars

\* A goroutine that can go on does, and one waiting for a mutex others keep
\* taking gets it in the end (Go's mutex hands over to a starving waiter).
FairSpec == Spec /\ \A t \in Tasks : SF_vars(Works(t))

---------------------------------------------------------------------------
(* Properties *)

Row == [symbol: Symbols, active: BOOLEAN, dispatched: BOOLEAN]

\* Variables keep their shape; a task about to announce names a row.
TypeOK ==
    /\ rows \in Seq(Row)
    /\ announced \in Seq(Nat) /\ Len(announced) = Len(rows)
    /\ pc \in [Tasks -> Steps]
    /\ sym \in [Tasks -> Symbols]
    /\ row \in [Tasks -> Nat]
    /\ \A t \in Tasks : pc[t] \in {"announce", "mark"} => row[t] \in 1..Len(rows)
    /\ evalBusy \subseteq Symbols
    /\ slotMu \in Tasks \cup {Nobody}
    /\ todo \subseteq Symbols
    /\ semCap \in Nat
    /\ faults \in Nat

\* The cap is overshot, but only by evaluations that stand between the guard
\* and the insert at once: ACTIVE rows never exceed the cap less one plus the
\* number of tasks.  One row more takes two failed reads, since the cap is
\* looked at before the decision and again in the guard.
BoundedOvershoot ==
    Cardinality(Active) <= Cap - 1 + Cardinality(Tasks) + faults \div 2

\* A symbol never has more ACTIVE rows than there are tasks that evaluate it
\* without its lock, plus one for the task that has the lock, plus one for
\* each two failed reads; with scanners alone and a working database, one.
DuplicatesBounded ==
    \A s \in Symbols :
        Cardinality(ActiveOf(s)) <= Cardinality(Unlocked) + 1 + faults \div 2

\* The news consumer and the sweep never evaluate the same symbol at once
\* (spec-020 US-A3), and a symbol is locked only while one of them does.
ScannersNeverOverlap ==
    /\ \A t, u \in Locked : pc[t] # "idle" /\ pc[u] # "idle" /\ sym[t] = sym[u] => t = u
    /\ evalBusy = {sym[t] : t \in Locked \cap Busy}

\* Every evaluation returns: no path through the guard keeps its mutex.
EvaluationsReturn == \A t \in Tasks : (pc[t] # "idle") ~> (pc[t] = "idle")

---------------------------------------------------------------------------
(* What the comments say and the code does not do *)

\* "Limiting in-flight work to the free slots makes that impossible".
CapRespected == Cardinality(Active) <= Cap

\* "producing two OPEN signals for one symbol" is what the guard is there to
\* prevent.
OneActivePerSymbol == \A s \in Symbols : Cardinality(ActiveOf(s)) <= 1

\* "prevent concurrent active signals across correlated assets".
NoCorrelatedPair ==
    \A i, j \in Active : Correlated(rows[i].symbol, rows[j].symbol) => i = j

\* "never announce" what is "already dispatched": a signal is announced once.
AnnouncedAtMostOnce == \A i \in 1..Len(announced) : announced[i] <= 1
=============================================================================
