------------------------ MODULE SlotAdmissionProofs ------------------------
(***************************************************************************)
(* What holds of signal admission for every universe of symbols, every     *)
(* cap and any number of tasks of each kind.                               *)
(***************************************************************************)
EXTENDS SlotAdmission, FiniteSetTheorems, TLAPS

---------------------------------------------------------------------------
(* Finite sets the proofs count *)

LEMMA TasksFinite == IsFiniteSet(Tasks) /\ Cardinality(Tasks) \in Nat
                     /\ Cardinality(Unlocked) \in Nat
  BY TasksAssumption, FS_Union, FS_CardinalityType DEF Tasks

LEMMA ActiveFinite ==
    ASSUME TypeOK
    PROVE  IsFiniteSet(Active) /\ Cardinality(Active) \in Nat
<1>1. Len(rows) \in Nat
  BY DEF TypeOK
<1>2. IsFiniteSet(1..Len(rows))
  BY <1>1, FS_Interval
<1>3. Active \in SUBSET (1..Len(rows))
  BY DEF Active
<1> QED BY <1>2, <1>3, FS_Subset, FS_CardinalityType

---------------------------------------------------------------------------
(* Type correctness *)

\* A step that starts an evaluation keeps the types.
LEMMA BeginsType ==
    ASSUME TypeOK, NEW t \in Tasks, NEW s \in Symbols, Begins(t, s),
           evalBusy' \subseteq Symbols, todo' \subseteq Symbols,
           semCap' = semCap, faults' = faults
    PROVE  TypeOK'
<1>1. pc' \in [Tasks -> Steps] /\ sym' \in [Tasks -> Symbols]
  BY DEF TypeOK, Begins, Steps
<1>2. UNCHANGED <<rows, announced, row, slotMu>>
  BY DEF Begins, rowVars
<1>3. \A u \in Tasks : pc'[u] \in {"announce", "mark"} => row'[u] \in 1..Len(rows')
  BY <1>2 DEF TypeOK, Begins
<1> QED BY <1>1, <1>2, <1>3 DEF TypeOK

\* A task's own step keeps the types if it leaves the rows alone and names a
\* row when it goes on to announce.
LEMMA MoveType ==
    ASSUME TypeOK, NEW t \in Tasks, NEW step \in Steps,
           pc' = [pc EXCEPT ![t] = step], UNCHANGED <<sym, todo, semCap>>,
           rows' \in Seq(Row), announced' \in Seq(Nat),
           Len(announced') = Len(rows'), Len(rows') >= Len(rows),
           row' \in [Tasks -> Nat], \A u \in Tasks \ {t} : row'[u] = row[u],
           step \in {"announce", "mark"} => row'[t] \in 1..Len(rows'),
           evalBusy' \subseteq Symbols, slotMu' \in Tasks \cup {Nobody}, faults' \in Nat
    PROVE  TypeOK'
<1>1. pc' \in [Tasks -> Steps]
  BY DEF TypeOK
<1>2. Len(rows) \in Nat /\ Len(rows') \in Nat
  BY DEF TypeOK
<1>3. \A u \in Tasks : pc'[u] \in {"announce", "mark"} => row'[u] \in 1..Len(rows')
  <2> TAKE u \in Tasks
  <2>1. CASE u = t
    BY <2>1 DEF TypeOK
  <2>2. CASE u # t
    <3>1. pc'[u] = pc[u] /\ row'[u] = row[u]
      BY <2>2 DEF TypeOK
    <3> QED BY <1>2, <3>1 DEF TypeOK
  <2> QED BY <2>1, <2>2
<1> QED BY <1>1, <1>3 DEF TypeOK

\* One that leaves the rows alone keeps the types all the more easily.
LEMMA QuietType ==
    ASSUME TypeOK, NEW t \in Tasks, NEW step \in Steps,
           pc' = [pc EXCEPT ![t] = step], UNCHANGED <<rows, announced, sym, todo, semCap>>,
           row' = row \/ \E i \in 1..Len(rows) : row' = [row EXCEPT ![t] = i],
           step \in {"announce", "mark"} => row'[t] \in 1..Len(rows),
           evalBusy' \subseteq Symbols, slotMu' \in {slotMu, t, Nobody}, faults' \in Nat
    PROVE  TypeOK'
<1>1. rows' \in Seq(Row) /\ announced' \in Seq(Nat) /\ Len(announced') = Len(rows')
      /\ Len(rows) \in Nat /\ Len(rows') = Len(rows)
  BY DEF TypeOK
<1>2. row' \in [Tasks -> Nat] /\ \A u \in Tasks \ {t} : row'[u] = row[u]
  <2>1. row \in [Tasks -> Nat]
    BY DEF TypeOK
  <2>2. CASE row' = row
    BY <2>1, <2>2
  <2>3. CASE \E i \in 1..Len(rows) : row' = [row EXCEPT ![t] = i]
    <3>1. PICK i \in 1..Len(rows) : row' = [row EXCEPT ![t] = i]
      BY <2>3
    <3>2. i \in Nat
      BY <1>1
    <3> QED BY <2>1, <3>1, <3>2
  <2> QED BY <2>2, <2>3
<1>3. slotMu' \in Tasks \cup {Nobody}
  BY DEF TypeOK
<1>4. step \in {"announce", "mark"} => row'[t] \in 1..Len(rows')
  BY <1>1
<1>5. Len(rows') >= Len(rows)
  BY <1>1
<1> QED BY <1>1, <1>2, <1>3, <1>4, <1>5, MoveType

\* Where an evaluation goes on to or ends, the locked symbols stay symbols.
LEMMA BusyType ==
    ASSUME TypeOK, NEW t, NEW step, Ends(t) \/ GoesTo(t, step)
    PROVE  evalBusy' \subseteq Symbols
  BY DEF TypeOK, Ends, GoesTo

LEMMA FaultsType == TypeOK /\ (Succeeds \/ Fails) => faults' \in Nat
  BY DEF TypeOK, Succeeds, Fails

LEMMA TypeInit == Init => TypeOK
  BY DEF Init, TypeOK, Steps, Row

LEMMA StartsType ==
    ASSUME TypeOK, Starts
    PROVE  TypeOK'
<1>1. CASE GenerateAllFuturesSignals
  <2>1. Cap \in Nat /\ Cardinality(Active) \in Nat
    BY CapAssumption, ActiveFinite
  <2>2. semCap' \in Nat
    BY <1>1, <2>1 DEF GenerateAllFuturesSignals
  <2>3. faults' \in Nat
    BY <1>1, FaultsType DEF GenerateAllFuturesSignals
  <2>4. todo' = Symbols /\ UNCHANGED <<rows, announced, pc, sym, row, evalBusy, slotMu>>
    BY <1>1 DEF GenerateAllFuturesSignals, rowVars, taskVars
  <2> QED BY <2>2, <2>3, <2>4 DEF TypeOK
<1>2. CASE BatchDeadline
  BY <1>2 DEF BatchDeadline, TypeOK, rowVars, taskVars
<1>3. ASSUME NEW t \in Batch, NEW s \in Symbols, BatchTakes(t, s)
      PROVE  TypeOK'
  <2>1. t \in Tasks
    BY DEF Tasks, Unlocked
  <2>2. Begins(t, s) /\ evalBusy' = evalBusy /\ todo' = todo \ {s} /\ semCap' = semCap
        /\ faults' = faults
    BY <1>3 DEF BatchTakes
  <2>3. evalBusy' \subseteq Symbols /\ todo' \subseteq Symbols
    BY <2>2 DEF TypeOK
  <2> QED BY <2>1, <2>2, <2>3, BeginsType
<1>4. ASSUME NEW t \in Direct, NEW s \in Symbols, DirectTakes(t, s)
      PROVE  TypeOK'
  <2>1. t \in Tasks
    BY DEF Tasks, Unlocked
  <2>2. Begins(t, s) /\ UNCHANGED <<evalBusy, todo, semCap, faults>>
    BY <1>4 DEF DirectTakes, batchVars
  <2>3. evalBusy' \subseteq Symbols /\ todo' \subseteq Symbols
    BY <2>2 DEF TypeOK
  <2> QED BY <2>1, <2>2, <2>3, BeginsType
<1>5. ASSUME NEW t \in Locked, NEW s \in Symbols, LockedTakes(t, s)
      PROVE  TypeOK'
  <2>1. t \in Tasks
    BY DEF Tasks
  <2>2. Begins(t, s) /\ evalBusy' = evalBusy \cup {s} /\ UNCHANGED <<todo, semCap, faults>>
    BY <1>5 DEF LockedTakes, batchVars
  <2>3. evalBusy' \subseteq Symbols /\ todo' \subseteq Symbols
    BY <2>2 DEF TypeOK
  <2> QED BY <2>1, <2>2, <2>3, BeginsType
<1> QED BY <1>1, <1>2, <1>3, <1>4, <1>5 DEF Starts
\* A row that is active is a row.
LEMMA ActiveIsRow ==
    ASSUME NEW s, NEW i \in ActiveOf(s)
    PROVE  i \in Active /\ i \in 1..Len(rows) /\ rows[i].symbol = s
  BY DEF Active, ActiveOf

LEMMA InsertType ==
    ASSUME TypeOK, NEW t \in Tasks, InsertFuturesSignal(t)
    PROVE  TypeOK'
<1>1. UNCHANGED <<sym, slotMu, todo, semCap>>
  BY DEF InsertFuturesSignal, batchVars
<1>2. slotMu' \in Tasks \cup {Nobody}
  BY <1>1 DEF TypeOK
<1>3. CASE /\ Succeeds
           /\ rows' = Append(rows, [symbol |-> sym[t], active |-> TRUE, dispatched |-> FALSE])
           /\ announced' = Append(announced, 0)
           /\ row' = [row EXCEPT ![t] = Len(rows) + 1]
           /\ GoesTo(t, "announce")
  <2> DEFINE new == [symbol |-> sym[t], active |-> TRUE, dispatched |-> FALSE]
  <2>1. new \in Row
    BY DEF TypeOK, Row
  <2>2. rows' = Append(rows, new)
    BY <1>3
  <2> HIDE DEF new
  <2>3. rows' \in Seq(Row) /\ Len(rows') = Len(rows) + 1 /\ Len(rows) \in Nat
    BY <2>1, <2>2 DEF TypeOK
  <2>4. announced' \in Seq(Nat) /\ Len(announced') = Len(rows')
    BY <1>3, <2>3 DEF TypeOK
  <2>5. row' \in [Tasks -> Nat] /\ row'[t] = Len(rows) + 1
        /\ \A u \in Tasks \ {t} : row'[u] = row[u]
    BY <1>3, <2>3 DEF TypeOK
  <2>6. faults' \in Nat
    BY <1>3, FaultsType
  <2>7. evalBusy' \subseteq Symbols
    BY <1>3, BusyType
  <2>8. pc' = [pc EXCEPT ![t] = "announce"] /\ "announce" \in Steps
    BY <1>3 DEF GoesTo, Steps
  <2>9. row'[t] \in 1..Len(rows')
    BY <2>3, <2>5
  <2>10. Len(rows') >= Len(rows)
    BY <2>3
  <2> QED BY <1>1, <1>2, <2>3, <2>4, <2>5, <2>6, <2>7, <2>8, <2>9, <2>10, MoveType
<1>4. CASE Fails /\ Ends(t) /\ UNCHANGED <<rowVars, row>>
  <2>1. pc' = [pc EXCEPT ![t] = "idle"] /\ "idle" \in Steps
    BY <1>4 DEF Ends, Steps
  <2>2. UNCHANGED <<rows, announced, row>>
    BY <1>4 DEF rowVars
  <2>3. faults' \in Nat /\ evalBusy' \subseteq Symbols
    BY <1>4, FaultsType, BusyType
  <2>4. rows' \in Seq(Row) /\ announced' \in Seq(Nat) /\ Len(announced') = Len(rows')
        /\ row' \in [Tasks -> Nat] /\ Len(rows') >= Len(rows)
    BY <2>2 DEF TypeOK
  <2> QED BY <1>1, <1>2, <2>1, <2>2, <2>3, <2>4, MoveType
<1> QED BY <1>3, <1>4 DEF InsertFuturesSignal

\* The other steps of an evaluation neither add rows nor name new ones, but
\* for the one that hands back an active row it found.
LEMMA WorksType ==
    ASSUME TypeOK, NEW t \in Tasks, Works(t)
    PROVE  TypeOK'
<1>1. CASE InsertFuturesSignal(t)
  BY <1>1, InsertType
<1>2. rows \in Seq(Row) /\ announced \in Seq(Nat) /\ Len(announced) = Len(rows)
      /\ Len(rows) \in Nat /\ row \in [Tasks -> Nat] /\ slotMu \in Tasks \cup {Nobody}
      /\ faults \in Nat
  BY DEF TypeOK
<1>4. CASE Check(t)
  <2>1. UNCHANGED <<rows, announced, sym, row, slotMu, todo, semCap>>
    BY <1>4 DEF Check, rowVars, batchVars
  <2>2. faults' \in Nat /\ evalBusy' \subseteq Symbols
    BY <1>4, FaultsType, BusyType DEF Check
  <2>3. PICK step \in {"idle", "guard"} : pc' = [pc EXCEPT ![t] = step]
    BY <1>4 DEF Check, Ends, GoesTo
  <2>4. step \in Steps
    BY DEF Steps
  <2> QED BY <2>1, <2>2, <2>3, <2>4, QuietType
<1>5. CASE GuardDuplicate(t)
  <2>1. UNCHANGED <<rows, announced, sym, todo, semCap>> /\ slotMu' \in {slotMu, t}
    BY <1>5 DEF GuardDuplicate, rowVars, batchVars
  <2>2. faults' \in Nat /\ evalBusy' \subseteq Symbols
    BY <1>5, FaultsType, BusyType DEF GuardDuplicate
  <2>3. CASE \E i \in ActiveOf(sym[t]) :
               /\ row' = [row EXCEPT ![t] = i]
               /\ IF rows[i].dispatched THEN Ends(t) ELSE GoesTo(t, "announce")
    <3>1. PICK i \in 1..Len(rows) :
             /\ row' = [row EXCEPT ![t] = i]
             /\ IF rows[i].dispatched THEN Ends(t) ELSE GoesTo(t, "announce")
      BY <2>3, ActiveIsRow
    <3>2. PICK step \in {"idle", "announce"} : pc' = [pc EXCEPT ![t] = step]
      BY <3>1 DEF Ends, GoesTo
    <3>3. step \in Steps
      BY DEF Steps
    <3>4. row'[t] \in 1..Len(rows)
      BY <1>2, <3>1
    <3> QED BY <2>1, <2>2, <3>1, <3>2, <3>3, <3>4, QuietType
  <2>4. CASE GoesTo(t, "cap") /\ UNCHANGED row
    <3>1. pc' = [pc EXCEPT ![t] = "cap"] /\ "cap" \in Steps /\ row' = row
      BY <2>4 DEF GoesTo, Steps
    <3> QED BY <2>1, <2>2, <3>1, QuietType
  <2> QED BY <1>5, <2>3, <2>4 DEF GuardDuplicate
<1>6. CASE GuardCap(t)
  <2>1. UNCHANGED <<rows, announced, sym, row, todo, semCap>> /\ slotMu' = Nobody
    BY <1>6 DEF GuardCap, rowVars, batchVars
  <2>2. faults' \in Nat /\ evalBusy' \subseteq Symbols
    BY <1>6, FaultsType, BusyType DEF GuardCap
  <2>3. PICK step \in {"idle", "insert"} : pc' = [pc EXCEPT ![t] = step]
    BY <1>6 DEF GuardCap, Ends, GoesTo
  <2>4. step \in Steps
    BY DEF Steps
  <2> QED BY <2>1, <2>2, <2>3, <2>4, QuietType
<1>7. CASE Announce(t)
  <2>1. UNCHANGED <<rows, sym, row, slotMu, todo, semCap, faults>>
    BY <1>7 DEF Announce, batchVars
  <2>2. pc' = [pc EXCEPT ![t] = "mark"] /\ "mark" \in Steps
    BY <1>7 DEF Announce, GoesTo, Steps
  <2>3. evalBusy' \subseteq Symbols
    BY <1>7, BusyType DEF Announce
  <2>4. row[t] \in 1..Len(rows)
    BY <1>7 DEF Announce, TypeOK
  <2>5. announced' \in Seq(Nat) /\ Len(announced') = Len(announced)
    BY <1>2, <1>7, <2>4 DEF Announce
  <2>6. slotMu' \in Tasks \cup {Nobody} /\ faults' \in Nat /\ rows' \in Seq(Row)
        /\ row' \in [Tasks -> Nat] /\ Len(rows') >= Len(rows)
        /\ Len(announced') = Len(rows') /\ row'[t] \in 1..Len(rows')
        /\ \A u \in Tasks \ {t} : row'[u] = row[u]
    BY <1>2, <2>1, <2>4, <2>5
  <2> QED BY <2>1, <2>2, <2>3, <2>5, <2>6, MoveType
<1>8. CASE MarkSignalDispatched(t)
  <2>1. UNCHANGED <<announced, sym, row, slotMu, todo, semCap>>
    BY <1>8 DEF MarkSignalDispatched, batchVars
  <2>2. pc' = [pc EXCEPT ![t] = "idle"] /\ "idle" \in Steps
    BY <1>8 DEF MarkSignalDispatched, Ends, Steps
  <2>3. evalBusy' \subseteq Symbols
    BY <1>8, BusyType DEF MarkSignalDispatched
  <2>4. faults' \in Nat
    BY <1>8, FaultsType DEF MarkSignalDispatched
  <2>5. row[t] \in 1..Len(rows)
    BY <1>8 DEF MarkSignalDispatched, TypeOK
  <2>6. rows[row[t]] \in Row
    BY <1>2, <2>5
  <2>7. [rows[row[t]] EXCEPT !.dispatched = TRUE] \in Row
    BY <2>6 DEF Row
  <2>8. rows' \in Seq(Row) /\ Len(rows') = Len(rows)
    <3> DEFINE marked == [rows[row[t]] EXCEPT !.dispatched = TRUE]
    <3>1. rows' = [rows EXCEPT ![row[t]] = marked] \/ rows' = rows
      BY <1>8 DEF MarkSignalDispatched
    <3>2. marked \in Row
      BY <2>7
    <3> HIDE DEF marked
    <3> QED BY <1>2, <2>5, <3>1, <3>2
  <2>9. slotMu' \in Tasks \cup {Nobody} /\ announced' \in Seq(Nat)
        /\ row' \in [Tasks -> Nat] /\ Len(rows') >= Len(rows)
        /\ Len(announced') = Len(rows') /\ \A u \in Tasks \ {t} : row'[u] = row[u]
    BY <1>2, <2>1, <2>8
  <2> QED BY <2>1, <2>2, <2>3, <2>4, <2>8, <2>9, MoveType
<1> QED BY <1>1, <1>4, <1>5, <1>6, <1>7, <1>8 DEF Works

LEMMA CloseType ==
    ASSUME TypeOK, NEW i \in 1..Len(rows), CloseFuturesSignal(i)
    PROVE  TypeOK'
<1>1. rows \in Seq(Row) /\ rows[i] \in Row
  BY DEF TypeOK
<1>2. [rows[i] EXCEPT !.active = FALSE] \in Row
  BY <1>1 DEF Row
<1>3. rows' \in Seq(Row) /\ Len(rows') = Len(rows)
  <2> DEFINE closed == [rows[i] EXCEPT !.active = FALSE]
  <2>1. rows' = [rows EXCEPT ![i] = closed] /\ closed \in Row
    BY <1>2 DEF CloseFuturesSignal
  <2> HIDE DEF closed
  <2> QED BY <1>1, <2>1
<1>4. UNCHANGED <<announced, pc, sym, row, evalBusy, slotMu, todo, semCap, faults>>
  BY DEF CloseFuturesSignal, taskVars, batchVars
<1> QED BY <1>3, <1>4 DEF TypeOK

LEMMA TypeStep == TypeOK /\ [Next]_vars => TypeOK'
<1> SUFFICES ASSUME TypeOK, [Next]_vars PROVE TypeOK'
  OBVIOUS
<1>1. CASE UNCHANGED vars
  BY <1>1 DEF TypeOK, vars, rowVars, taskVars, batchVars
<1>2. CASE Next
  BY <1>2, StartsType, WorksType, CloseType DEF Next
<1> QED BY <1>1, <1>2

\* Variables keep their shape; a task about to announce holds a row that was
\* stored or found, never one the database refused.
THEOREM TypeCorrect == Spec => []TypeOK
  BY TypeInit, TypeStep, PTL DEF Spec
---------------------------------------------------------------------------
(* The scanners' lock *)

\* What the lock guarantees, for a task that is not a scanner: its steps do not
\* touch the locked symbols.
LEMMA ScannerFrame ==
    ASSUME TypeOK, ScannersNeverOverlap, evalBusy' = evalBusy,
           \A t \in Locked : sym'[t] = sym[t] /\ (pc'[t] # "idle" <=> pc[t] # "idle")
    PROVE  ScannersNeverOverlap'
<1>1. Locked \subseteq Tasks
  BY DEF Tasks
<1>2. Locked \cap Busy' = Locked \cap Busy
  BY <1>1 DEF Busy
<1> QED BY <1>1, <1>2 DEF ScannersNeverOverlap

\* A scanner that takes a symbol nobody has locked.
LEMMA LockedTakesKeeps ==
    ASSUME TypeOK, ScannersNeverOverlap, NEW t \in Locked, NEW s \in Symbols,
           LockedTakes(t, s)
    PROVE  ScannersNeverOverlap'
<1>1. Locked \subseteq Tasks
  BY DEF Tasks
<1>2. pc[t] = "idle" /\ pc' = [pc EXCEPT ![t] = "check"] /\ sym' = [sym EXCEPT ![t] = s]
      /\ evalBusy' = evalBusy \cup {s} /\ s \notin evalBusy
  BY DEF LockedTakes, Begins
<1>3. pc'[t] = "check" /\ sym'[t] = s
      /\ \A u \in Tasks \ {t} : pc'[u] = pc[u] /\ sym'[u] = sym[u]
  BY <1>1, <1>2 DEF TypeOK
<1>4. \A u \in Locked : pc[u] # "idle" => sym[u] # s
  BY <1>1, <1>2 DEF ScannersNeverOverlap, Busy
<1>5. \A u, v \in Locked : pc'[u] # "idle" /\ pc'[v] # "idle" /\ sym'[u] = sym'[v] => u = v
  BY <1>1, <1>3, <1>4 DEF ScannersNeverOverlap
<1>6. Locked \cap Busy' = (Locked \cap Busy) \cup {t}
  BY <1>1, <1>3 DEF Busy
<1>7. t \notin Busy
  BY <1>2 DEF Busy
<1>8. {sym'[u] : u \in Locked \cap Busy'} = {sym[u] : u \in Locked \cap Busy} \cup {s}
  BY <1>1, <1>3, <1>6, <1>7
<1> QED BY <1>2, <1>5, <1>8 DEF ScannersNeverOverlap

\* A task that goes on keeps its lock; one that ends gives it up.
LEMMA MoveKeeps ==
    ASSUME TypeOK, ScannersNeverOverlap, NEW t \in Tasks, pc[t] # "idle", sym' = sym,
           NEW step \in Steps \ {"idle"}, Ends(t) \/ GoesTo(t, step)
    PROVE  ScannersNeverOverlap'
<1>1. Locked \subseteq Tasks
  BY DEF Tasks
<1>2. CASE GoesTo(t, step)
  <2>1. \A u \in Tasks : pc'[u] # "idle" <=> pc[u] # "idle"
    BY <1>2 DEF GoesTo, TypeOK
  <2> QED BY <1>1, <1>2, <2>1, ScannerFrame DEF GoesTo
<1>3. CASE Ends(t) /\ t \notin Locked
  <2>1. \A u \in Tasks \ {t} : pc'[u] = pc[u]
    BY <1>3 DEF Ends, TypeOK
  <2> QED BY <1>1, <1>3, <2>1, ScannerFrame DEF Ends
<1>4. CASE Ends(t) /\ t \in Locked
  <2>1. pc'[t] = "idle" /\ evalBusy' = evalBusy \ {sym[t]}
        /\ \A u \in Tasks \ {t} : pc'[u] = pc[u]
    BY <1>4 DEF Ends, TypeOK
  <2>2. \A u, v \in Locked : pc'[u] # "idle" /\ pc'[v] # "idle" /\ sym'[u] = sym'[v] => u = v
    BY <1>1, <2>1 DEF ScannersNeverOverlap
  <2>3. Locked \cap Busy' = (Locked \cap Busy) \ {t}
    BY <1>1, <2>1 DEF Busy
  <2>4. \A u \in (Locked \cap Busy) \ {t} : sym[u] # sym[t]
    BY <1>4 DEF ScannersNeverOverlap, Busy
  <2>5. {sym[u] : u \in (Locked \cap Busy) \ {t}} = {sym[u] : u \in Locked \cap Busy} \ {sym[t]}
    BY <2>4
  <2>6. evalBusy' = {sym'[u] : u \in Locked \cap Busy'}
    BY <2>1, <2>3, <2>5 DEF ScannersNeverOverlap
  <2> QED BY <2>2, <2>6 DEF ScannersNeverOverlap
<1> QED BY <1>2, <1>3, <1>4

\* Every step of an evaluation moves a busy task on, or ends it.
LEMMA WorksMoves ==
    ASSUME NEW t \in Tasks, Works(t)
    PROVE  /\ pc[t] # "idle" /\ sym' = sym
           /\ \E step \in Steps \ {"idle"} : Ends(t) \/ GoesTo(t, step)
<1>1. {"guard", "cap", "insert", "announce", "mark"} \subseteq Steps \ {"idle"}
  BY DEF Steps
<1>2. CASE Check(t)
  BY <1>1, <1>2 DEF Check
<1>3. CASE GuardDuplicate(t)
  BY <1>1, <1>3 DEF GuardDuplicate
<1>4. CASE GuardCap(t)
  BY <1>1, <1>4 DEF GuardCap
<1>5. CASE InsertFuturesSignal(t)
  BY <1>1, <1>5 DEF InsertFuturesSignal
<1>6. CASE Announce(t)
  BY <1>1, <1>6 DEF Announce
<1>7. CASE MarkSignalDispatched(t)
  BY <1>1, <1>7 DEF MarkSignalDispatched
<1> QED BY <1>2, <1>3, <1>4, <1>5, <1>6, <1>7 DEF Works

LEMMA LockStep == TypeOK /\ ScannersNeverOverlap /\ [Next]_vars => ScannersNeverOverlap'
<1> SUFFICES ASSUME TypeOK, ScannersNeverOverlap, [Next]_vars
             PROVE  ScannersNeverOverlap'
  OBVIOUS
<1>1. CASE UNCHANGED <<pc, sym, evalBusy>>
  BY <1>1, ScannerFrame
<1>2. ASSUME NEW t \in Unlocked, NEW s \in Symbols, Begins(t, s), evalBusy' = evalBusy
      PROVE  ScannersNeverOverlap'
  <2>1. \A u \in Locked : u \in Tasks /\ u # t
    BY TasksAssumption DEF Tasks
  <2>2. \A u \in Locked : pc'[u] = pc[u] /\ sym'[u] = sym[u]
    BY <1>2, <2>1 DEF Begins, TypeOK
  <2> QED BY <1>2, <2>2, ScannerFrame
<1>3. CASE Starts
  <2>1. CASE GenerateAllFuturesSignals \/ BatchDeadline
    BY <1>1, <2>1 DEF GenerateAllFuturesSignals, BatchDeadline, taskVars
  <2>2. CASE \E t \in Batch, s \in Symbols : BatchTakes(t, s)
    BY <1>2, <2>2 DEF BatchTakes, Unlocked
  <2>3. CASE \E t \in Direct, s \in Symbols : DirectTakes(t, s)
    BY <1>2, <2>3 DEF DirectTakes, Unlocked
  <2>4. CASE \E t \in Locked, s \in Symbols : LockedTakes(t, s)
    BY <2>4, LockedTakesKeeps
  <2> QED BY <1>3, <2>1, <2>2, <2>3, <2>4 DEF Starts
<1>4. CASE \E t \in Tasks : Works(t)
  BY <1>4, WorksMoves, MoveKeeps
<1>5. CASE \E i \in 1..Len(rows) : CloseFuturesSignal(i)
  BY <1>1, <1>5 DEF CloseFuturesSignal, taskVars
<1>6. CASE UNCHANGED vars
  BY <1>1, <1>6 DEF vars, taskVars
<1> QED BY <1>3, <1>4, <1>5, <1>6 DEF Next

\* Two scanners never evaluate one symbol at once, and a symbol is locked
\* exactly while a scanner evaluates it, whichever way the evaluation ends.
THEOREM ScannersApart == Spec => []ScannersNeverOverlap
<1>1. Init => ScannersNeverOverlap
  <2>1. Locked \subseteq Tasks
    BY DEF Tasks
  <2> QED BY <2>1 DEF Init, ScannersNeverOverlap, Busy
<1> QED BY <1>1, LockStep, TypeCorrect, PTL DEF Spec
---------------------------------------------------------------------------
(* Counting what stands between two gates                                  *)
(*                                                                         *)
(* An evaluation passes two gates, Check and one of the guard's reads.  For *)
(* a set X of symbols and the steps S past the second gate, GateInv bounds *)
(* the ACTIVE rows of X together with the evaluations past each gate; fc   *)
(* and fg are the faults that opened the first and the second.             *)

First == {"guard", "cap", "insert"}

ActiveIn(X) == {i \in Active : rows[i].symbol \in X}
InSteps(S, X) == {t \in Tasks : pc[t] \in S /\ sym[t] \in X}

\* a rows, p evaluations past the first gate and q past the second, f faults.
Bounded(a, p, q, f, b) ==
    \E fc, fg \in Nat : fc + fg <= f /\ a + p <= b + fc /\ a + q <= b + fg

GateInv(X, S, b) ==
    Bounded(Cardinality(ActiveIn(X)), Cardinality(InSteps(First, X)),
            Cardinality(InSteps(S, X)), faults, b)

\* What a step may do to them: each sum shrinks or fits the bound, or a fault
\* lets one of the two grow by one.
Moves(a, p, q, f, aa, pp, qq, ff, b) ==
    \/ /\ ff >= f
       /\ aa + pp <= a + p \/ aa + pp <= b
       /\ aa + qq <= a + q \/ aa + qq <= b
    \/ /\ ff = f + 1 /\ aa + pp <= a + p + 1
       /\ aa + qq <= a + q \/ aa + qq <= b
    \/ /\ ff = f + 1 /\ aa + qq <= a + q + 1
       /\ aa + pp <= a + p \/ aa + pp <= b

\* Both counts are numbers.
LEMMA CountsType ==
    ASSUME TypeOK, NEW S, NEW X
    PROVE  /\ IsFiniteSet(ActiveIn(X)) /\ Cardinality(ActiveIn(X)) \in Nat
           /\ IsFiniteSet(InSteps(S, X)) /\ Cardinality(InSteps(S, X)) \in Nat
<1>1. ActiveIn(X) \in SUBSET Active /\ InSteps(S, X) \in SUBSET Tasks
  BY DEF ActiveIn, InSteps
<1> QED BY <1>1, ActiveFinite, TasksFinite, FS_Subset, FS_CardinalityType

\* So they are in the next state.
LEMMA CountsTypeNext ==
    ASSUME TypeOK', NEW S, NEW X
    PROVE  Cardinality(ActiveIn(X)') \in Nat /\ Cardinality(InSteps(S, X)') \in Nat
<1>1. Len(rows') \in Nat
  BY DEF TypeOK
<1>2. IsFiniteSet(1..Len(rows'))
  BY <1>1, FS_Interval
<1>3. ActiveIn(X)' \in SUBSET (1..Len(rows')) /\ InSteps(S, X)' \in SUBSET Tasks
  BY DEF ActiveIn, Active, InSteps
<1> QED BY <1>2, <1>3, TasksFinite, FS_Subset, FS_CardinalityType

\* The task t goes to a step, for the same symbol.
MovesTo(t, step) == pc' = [pc EXCEPT ![t] = step] /\ sym' = sym

\* A task that moves changes the count past a gate by one at the most; up only
\* when it passes the gate for a symbol of X.
LEMMA MoveCounts ==
    ASSUME TypeOK, NEW t \in Tasks, NEW step, MovesTo(t, step), NEW S, NEW X
    PROVE  /\ Cardinality(InSteps(S, X)') <= Cardinality(InSteps(S, X)) + 1
           /\ step \notin S \/ pc[t] \in S \/ sym[t] \notin X
                => Cardinality(InSteps(S, X)') <= Cardinality(InSteps(S, X))
           /\ step \notin S /\ pc[t] \in S /\ sym[t] \in X
                => Cardinality(InSteps(S, X)') = Cardinality(InSteps(S, X)) - 1
<1>1. pc'[t] = step /\ sym' = sym /\ \A u \in Tasks \ {t} : pc'[u] = pc[u]
  BY DEF TypeOK, MovesTo
<1>2. InSteps(S, X)' = IF step \in S /\ sym[t] \in X THEN InSteps(S, X) \cup {t}
                                                   ELSE InSteps(S, X) \ {t}
  BY <1>1 DEF InSteps
<1>3. t \in InSteps(S, X) <=> pc[t] \in S /\ sym[t] \in X
  BY DEF InSteps
<1>4. IsFiniteSet(InSteps(S, X)) /\ Cardinality(InSteps(S, X)) \in Nat
  BY CountsType
<1>5. Cardinality(InSteps(S, X) \cup {t}) =
        IF t \in InSteps(S, X) THEN Cardinality(InSteps(S, X))
        ELSE Cardinality(InSteps(S, X)) + 1
  BY <1>4, FS_AddElement
<1>6. IsFiniteSet(InSteps(S, X) \ {t}) /\
      Cardinality(InSteps(S, X) \ {t}) =
        IF t \in InSteps(S, X) THEN Cardinality(InSteps(S, X)) - 1
        ELSE Cardinality(InSteps(S, X))
  BY <1>4, FS_RemoveElement
<1>7. Cardinality(InSteps(S, X) \ {t}) \in Nat
  BY <1>6, FS_CardinalityType
<1> HIDE DEF InSteps
<1>8. CASE step \in S /\ sym[t] \in X
  BY <1>2, <1>3, <1>4, <1>5, <1>8
<1>9. CASE ~(step \in S /\ sym[t] \in X)
  BY <1>2, <1>3, <1>4, <1>6, <1>7, <1>9
<1> QED BY <1>8, <1>9

\* The arithmetic of one step: both sums stay or stay under the bound, or a
\* fault lets one of them grow by one.
LEMMA GateArithmetic ==
    ASSUME NEW a \in Nat, NEW p \in Nat, NEW q \in Nat, NEW f \in Nat,
           NEW aa \in Nat, NEW pp \in Nat, NEW qq \in Nat, NEW ff \in Nat, NEW b \in Nat,
           Bounded(a, p, q, f, b), Moves(a, p, q, f, aa, pp, qq, ff, b)
    PROVE  Bounded(aa, pp, qq, ff, b)
<1>1. PICK fc \in Nat, fg \in Nat : fc + fg <= f /\ a + p <= b + fc /\ a + q <= b + fg
  BY DEF Bounded
<1>2. CASE /\ ff >= f
           /\ aa + pp <= a + p \/ aa + pp <= b
           /\ aa + qq <= a + q \/ aa + qq <= b
  <2>1. fc + fg <= ff /\ aa + pp <= b + fc /\ aa + qq <= b + fg
    BY <1>1, <1>2
  <2> QED BY <2>1 DEF Bounded
<1>3. CASE /\ ff = f + 1 /\ aa + pp <= a + p + 1
           /\ aa + qq <= a + q \/ aa + qq <= b
  <2>1. (fc + 1) + fg <= ff /\ aa + pp <= b + (fc + 1) /\ aa + qq <= b + fg
    BY <1>1, <1>3
  <2>2. fc + 1 \in Nat
    OBVIOUS
  <2> QED BY <2>1, <2>2 DEF Bounded
<1>4. CASE /\ ff = f + 1 /\ aa + qq <= a + q + 1
           /\ aa + pp <= a + p \/ aa + pp <= b
  <2>1. fc + (fg + 1) <= ff /\ aa + pp <= b + fc /\ aa + qq <= b + (fg + 1)
    BY <1>1, <1>4
  <2>2. fg + 1 \in Nat
    OBVIOUS
  <2> QED BY <2>1, <2>2 DEF Bounded
<1> QED BY <1>2, <1>3, <1>4 DEF Moves

\* A row that is inserted is one active row more, of its own symbol.
LEMMA InsertCounts ==
    ASSUME TypeOK, NEW s, NEW X,
           rows' = Append(rows, [symbol |-> s, active |-> TRUE, dispatched |-> FALSE])
    PROVE  Cardinality(ActiveIn(X)') =
             IF s \in X THEN Cardinality(ActiveIn(X)) + 1 ELSE Cardinality(ActiveIn(X))
<1> DEFINE n == Len(rows)
           new == [symbol |-> s, active |-> TRUE, dispatched |-> FALSE]
<1>1. n \in Nat /\ Len(rows') = n + 1 /\ rows'[n + 1] = new
      /\ \A i \in 1..n : rows'[i] = rows[i]
  BY DEF TypeOK
<1>2. new.symbol = s /\ new.active
  OBVIOUS
<1> HIDE DEF new
<1>3. ActiveIn(X) = {i \in 1..n : rows[i].active /\ rows[i].symbol \in X}
  BY DEF ActiveIn, Active
<1>4. ActiveIn(X)' = {i \in 1..(n + 1) : rows'[i].active /\ rows'[i].symbol \in X}
  BY <1>1 DEF ActiveIn, Active
<1> HIDE DEF n
<1>5. \A i \in 1..(n + 1) : i \in 1..n \/ i = n + 1
  BY <1>1
<1>6. n + 1 \notin ActiveIn(X)
  BY <1>1, <1>3
<1>7. ActiveIn(X)' = IF s \in X THEN ActiveIn(X) \cup {n + 1} ELSE ActiveIn(X)
  BY <1>1, <1>2, <1>3, <1>4, <1>5
<1> QED BY <1>6, <1>7, CountsType, FS_AddElement

\* Rows that keep their symbols, and become active never, are no more than
\* they were.
LEMMA QuietCounts ==
    ASSUME TypeOK, TypeOK', NEW X, Len(rows') = Len(rows),
           \A i \in 1..Len(rows) : rows'[i].symbol = rows[i].symbol,
           \A i \in 1..Len(rows) : rows'[i].active => rows[i].active
    PROVE  Cardinality(ActiveIn(X)') <= Cardinality(ActiveIn(X))
<1>1. ActiveIn(X) = {i \in 1..Len(rows) : rows[i].active /\ rows[i].symbol \in X}
  BY DEF ActiveIn, Active
<1>2. ActiveIn(X)' = {i \in 1..Len(rows) : rows'[i].active /\ rows'[i].symbol \in X}
  BY DEF ActiveIn, Active
<1>3. ASSUME NEW i \in ActiveIn(X)' PROVE i \in ActiveIn(X)
  <2>1. i \in 1..Len(rows) /\ rows'[i].active /\ rows'[i].symbol \in X
    BY <1>2, <1>3
  <2> QED BY <1>1, <2>1
<1>4. ActiveIn(X)' \in SUBSET ActiveIn(X)
  BY <1>3
<1> QED BY <1>4, CountsType, FS_Subset

\* The invariant of the two gates, for one set of symbols and one second gate:
\* while the first gate, and the second, let nobody through for X unless the
\* rows of X and all that may stand past the gate (m) fit the bound, the
\* invariant stays.
LEMMA GateStep ==
    ASSUME TypeOK, TypeOK', NEW X, NEW S \in {{"insert"}, {"cap", "insert"}},
           NEW b \in Nat, NEW m \in Nat, GateInv(X, S, b), Next,
           Cardinality(InSteps(First, X)') <= m, Cardinality(InSteps(S, X)') <= m,
           \A t \in Tasks : sym[t] \in X /\ ~Refused(sym[t])
              => Cardinality(ActiveIn(X)) + m <= b,
           "cap" \notin S => (Cardinality(Active) < Cap => Cardinality(ActiveIn(X)) + m <= b),
           "cap" \in S => \A t \in Tasks : sym[t] \in X /\ ActiveOf(sym[t]) = {}
              => Cardinality(ActiveIn(X)) + m <= b
    PROVE  GateInv(X, S, b)'
<1> DEFINE a == Cardinality(ActiveIn(X))
           p == Cardinality(InSteps(First, X))
           q == Cardinality(InSteps(S, X))
           aa == Cardinality(ActiveIn(X)')
           pp == Cardinality(InSteps(First, X)')
           qq == Cardinality(InSteps(S, X)')
           Fits == Moves(a, p, q, faults, aa, pp, qq, faults', b)
<1>1. a \in Nat /\ p \in Nat /\ q \in Nat /\ faults \in Nat
  BY CountsType DEF TypeOK
<1>2. aa \in Nat /\ pp \in Nat /\ qq \in Nat /\ faults' \in Nat
  BY CountsTypeNext DEF TypeOK
<1>3. SUFFICES Fits
  <2> HIDE DEF a, p, q, aa, pp, qq
  <2>1. Bounded(a, p, q, faults, b)
    BY DEF GateInv, a, p, q
  <2>2. Fits => Bounded(aa, pp, qq, faults', b)
    BY <1>1, <1>2, <2>1, GateArithmetic
  <2> QED BY <2>2 DEF GateInv, aa, pp, qq
<1>4. "idle" \notin First /\ "check" \notin First /\ "announce" \notin First
      /\ "mark" \notin First /\ {"guard", "cap", "insert"} = First
      /\ S \subseteq First /\ "guard" \notin S /\ "insert" \in S
  BY DEF First
<1>5. ASSUME rows' = rows PROVE aa = a
  BY <1>5 DEF ActiveIn, Active
<1>6. CASE Starts
  <2>1. rows' = rows /\ faults' >= faults
    BY <1>1, <1>6 DEF Starts, GenerateAllFuturesSignals, BatchDeadline, BatchTakes, DirectTakes,
         LockedTakes, Begins, Succeeds, Fails, rowVars, batchVars
  <2>2. InSteps(First, X)' = InSteps(First, X) /\ InSteps(S, X)' = InSteps(S, X)
    <3>1. CASE UNCHANGED <<pc, sym>>
      BY <3>1 DEF InSteps
    <3>2. ASSUME NEW t \in Tasks, NEW s \in Symbols, Begins(t, s)
          PROVE  InSteps(First, X)' = InSteps(First, X) /\ InSteps(S, X)' = InSteps(S, X)
      <4>1. pc[t] = "idle" /\ pc'[t] = "check"
            /\ \A u \in Tasks \ {t} : pc'[u] = pc[u] /\ sym'[u] = sym[u]
        BY <3>2 DEF Begins, TypeOK
      <4> QED BY <1>4, <4>1 DEF InSteps
    <3> QED BY <1>6, <3>1, <3>2 DEF Starts, GenerateAllFuturesSignals, BatchDeadline,
                 BatchTakes, DirectTakes, LockedTakes, taskVars, Tasks, Unlocked
  <2> HIDE DEF a, aa
  <2> QED BY <1>1, <1>5, <2>1, <2>2 DEF Moves
<1>7. CASE \E i \in 1..Len(rows) : CloseFuturesSignal(i)
  <2>1. PICK i \in 1..Len(rows) : CloseFuturesSignal(i)
    BY <1>7
  <2>2. rows' = [rows EXCEPT ![i].active = FALSE] /\ UNCHANGED <<pc, sym, faults>>
    BY <2>1 DEF CloseFuturesSignal, taskVars
  <2>3. rows \in Seq(Row) /\ \A j \in 1..Len(rows) : rows[j] \in Row
    BY DEF TypeOK
  <2>4. /\ Len(rows') = Len(rows)
        /\ \A j \in 1..Len(rows) : rows'[j].symbol = rows[j].symbol
        /\ \A j \in 1..Len(rows) : rows'[j].active => rows[j].active
    BY <2>2, <2>3 DEF Row
  <2>5. aa <= a
    BY <2>4, QuietCounts
  <2>6. InSteps(First, X)' = InSteps(First, X) /\ InSteps(S, X)' = InSteps(S, X)
    BY <2>2 DEF InSteps
  <2> HIDE DEF a, aa
  <2> QED BY <1>1, <1>2, <2>2, <2>5, <2>6 DEF Moves
<1>8. ASSUME NEW t \in Tasks, NEW step, pc' = [pc EXCEPT ![t] = step], sym' = sym
      PROVE  /\ pp <= p + 1 /\ qq <= q + 1
             /\ step \notin First \/ pc[t] \in First \/ sym[t] \notin X => pp <= p
             /\ step \notin S \/ pc[t] \in S \/ sym[t] \notin X => qq <= q
             /\ step \notin First /\ pc[t] \in First /\ sym[t] \in X => pp = p - 1
             /\ step \notin S /\ pc[t] \in S /\ sym[t] \in X => qq = q - 1
  <2>0. MovesTo(t, step)
    BY <1>8 DEF MovesTo
  <2>1. /\ pp <= p + 1
        /\ step \notin First \/ pc[t] \in First \/ sym[t] \notin X => pp <= p
        /\ step \notin First /\ pc[t] \in First /\ sym[t] \in X => pp = p - 1
    BY <2>0, MoveCounts
  <2>2. /\ qq <= q + 1
        /\ step \notin S \/ pc[t] \in S \/ sym[t] \notin X => qq <= q
        /\ step \notin S /\ pc[t] \in S /\ sym[t] \in X => qq = q - 1
    BY <2>0, MoveCounts
  <2> QED BY <2>1, <2>2
<1>9. ASSUME NEW t \in Tasks, Works(t) PROVE Fits
  <2> HIDE DEF a, p, q, aa, pp, qq
  <2>1. sym' = sym
    BY <1>9, WorksMoves
  <2>2. CASE Check(t)
    <3>1. rows' = rows /\ pc[t] = "check"
      BY <2>2 DEF Check, rowVars
    <3>2. CASE Succeeds /\ Ends(t)
      <4>1. pc' = [pc EXCEPT ![t] = "idle"] /\ faults' = faults
        BY <3>2 DEF Ends, Succeeds
      <4>2. pp <= p /\ qq <= q
        BY <1>4, <1>8, <2>1, <4>1
      <4> QED BY <1>1, <1>2, <1>5, <3>1, <4>1, <4>2 DEF Moves
    <3>3. CASE Succeeds /\ ~Refused(sym[t]) /\ GoesTo(t, "guard")
      <4>1. pc' = [pc EXCEPT ![t] = "guard"] /\ faults' = faults
        BY <3>3 DEF GoesTo, Succeeds
      <4>2. sym[t] \in X => aa + pp <= b
        <5>1. sym[t] \in X => a + m <= b
          BY <3>3 DEF a
        <5>2. pp <= m
          BY DEF pp
        <5> QED BY <1>1, <1>2, <1>5, <3>1, <5>1, <5>2
      <4>3. qq <= q /\ (sym[t] \notin X => pp <= p)
        BY <1>4, <1>8, <2>1, <4>1
      <4> QED BY <1>1, <1>2, <1>5, <3>1, <4>1, <4>2, <4>3 DEF Moves
    <3>4. CASE Fails /\ GoesTo(t, "guard")
      <4>1. pc' = [pc EXCEPT ![t] = "guard"] /\ faults' = faults + 1
        BY <3>4 DEF GoesTo, Fails
      <4>2. qq <= q /\ pp <= p + 1
        BY <1>4, <1>8, <2>1, <4>1
      <4> QED BY <1>1, <1>2, <1>5, <3>1, <4>1, <4>2 DEF Moves
    <3> QED BY <2>2, <3>2, <3>3, <3>4 DEF Check
  <2>3. CASE GuardDuplicate(t)
    <3>1. rows' = rows /\ pc[t] = "guard"
      BY <2>3 DEF GuardDuplicate, rowVars
    <3>2. CASE /\ Succeeds
               /\ \E i \in ActiveOf(sym[t]) :
                     IF rows[i].dispatched THEN Ends(t) ELSE GoesTo(t, "announce")
      <4>1. faults' = faults /\ \E step \in {"idle", "announce"} : pc' = [pc EXCEPT ![t] = step]
        BY <3>2 DEF Ends, GoesTo, Succeeds
      <4>2. pp <= p /\ qq <= q
        BY <1>4, <1>8, <2>1, <4>1
      <4> QED BY <1>1, <1>2, <1>5, <3>1, <4>1, <4>2 DEF Moves
    <3>3. CASE ActiveOf(sym[t]) = {} /\ Succeeds /\ GoesTo(t, "cap")
      <4>1. pc' = [pc EXCEPT ![t] = "cap"] /\ faults' = faults
        BY <3>3 DEF GoesTo, Succeeds
      <4>2. pp <= p /\ ("cap" \notin S \/ sym[t] \notin X => qq <= q)
        BY <1>4, <1>8, <2>1, <3>1, <4>1
      <4>3. "cap" \in S /\ sym[t] \in X => aa + qq <= b
        <5>1. "cap" \in S /\ sym[t] \in X => a + m <= b
          BY <3>3 DEF a
        <5>2. qq <= m
          BY DEF qq
        <5> QED BY <1>1, <1>2, <1>5, <3>1, <5>1, <5>2
      <4> QED BY <1>1, <1>2, <1>5, <3>1, <4>1, <4>2, <4>3 DEF Moves
    <3>4. CASE Fails /\ GoesTo(t, "cap")
      <4>1. pc' = [pc EXCEPT ![t] = "cap"] /\ faults' = faults + 1
        BY <3>4 DEF GoesTo, Fails
      <4>2. pp <= p /\ qq <= q + 1
        BY <1>4, <1>8, <2>1, <3>1, <4>1
      <4> QED BY <1>1, <1>2, <1>5, <3>1, <4>1, <4>2 DEF Moves
    <3> QED BY <2>3, <3>2, <3>3, <3>4 DEF GuardDuplicate
  <2>4. CASE GuardCap(t)
    <3>1. rows' = rows /\ pc[t] = "cap"
      BY <2>4 DEF GuardCap, rowVars
    <3>2. CASE Succeeds /\ Ends(t)
      <4>1. pc' = [pc EXCEPT ![t] = "idle"] /\ faults' = faults
        BY <3>2 DEF Ends, Succeeds
      <4>2. pp <= p /\ qq <= q
        BY <1>4, <1>8, <2>1, <4>1
      <4> QED BY <1>1, <1>2, <1>5, <3>1, <4>1, <4>2 DEF Moves
    <3>3. CASE Succeeds /\ Cardinality(Active) < Cap /\ GoesTo(t, "insert")
      <4>1. pc' = [pc EXCEPT ![t] = "insert"] /\ faults' = faults
        BY <3>3 DEF GoesTo, Succeeds
      <4>2. pp <= p /\ ("cap" \in S => qq <= q)
        BY <1>4, <1>8, <2>1, <3>1, <4>1
      <4>3. "cap" \notin S => aa + qq <= b
        <5>1. "cap" \notin S => a + m <= b
          BY <3>3 DEF a
        <5>2. qq <= m
          BY DEF qq
        <5> QED BY <1>1, <1>2, <1>5, <3>1, <5>1, <5>2
      <4> QED BY <1>1, <1>2, <1>5, <3>1, <4>1, <4>2, <4>3 DEF Moves
    <3>4. CASE Fails /\ GoesTo(t, "insert")
      <4>1. pc' = [pc EXCEPT ![t] = "insert"] /\ faults' = faults + 1
        BY <3>4 DEF GoesTo, Fails
      <4>2. pp <= p /\ qq <= q + 1
        BY <1>4, <1>8, <2>1, <3>1, <4>1
      <4> QED BY <1>1, <1>2, <1>5, <3>1, <4>1, <4>2 DEF Moves
    <3>5. Cardinality(Active) \in Nat /\ Cap \in Nat
      BY ActiveFinite, CapAssumption
    <3>6. Cardinality(Active) >= Cap \/ Cardinality(Active) < Cap
      BY <3>5
    <3> QED BY <2>4, <3>2, <3>3, <3>4, <3>6 DEF GuardCap
  <2>5. CASE InsertFuturesSignal(t)
    <3>1. pc[t] = "insert"
      BY <2>5 DEF InsertFuturesSignal
    <3>2. CASE /\ Succeeds
               /\ rows' = Append(rows, [symbol |-> sym[t], active |-> TRUE, dispatched |-> FALSE])
               /\ GoesTo(t, "announce")
      <4>1. pc' = [pc EXCEPT ![t] = "announce"] /\ faults' = faults
        BY <3>2 DEF GoesTo, Succeeds
      <4>2. aa = IF sym[t] \in X THEN a + 1 ELSE a
        BY <3>2, InsertCounts DEF a, aa
      <4>3. IF sym[t] \in X THEN pp = p - 1 /\ qq = q - 1 ELSE pp <= p /\ qq <= q
        BY <1>4, <1>8, <2>1, <3>1, <4>1
      <4> QED BY <1>1, <1>2, <4>1, <4>2, <4>3 DEF Moves
    <3>3. CASE Fails /\ Ends(t) /\ rows' = rows
      <4>1. pc' = [pc EXCEPT ![t] = "idle"] /\ faults' = faults + 1
        BY <3>3 DEF Ends, Fails
      <4>2. pp <= p /\ qq <= q
        BY <1>4, <1>8, <2>1, <4>1
      <4> QED BY <1>1, <1>2, <1>5, <3>3, <4>1, <4>2 DEF Moves
    <3> QED BY <2>5, <3>2, <3>3 DEF InsertFuturesSignal, rowVars
  <2>6. CASE Announce(t)
    <3>1. rows' = rows /\ faults' = faults /\ pc' = [pc EXCEPT ![t] = "mark"]
      BY <2>6 DEF Announce, GoesTo
    <3>2. pp <= p /\ qq <= q
      BY <1>4, <1>8, <2>1, <3>1
    <3> QED BY <1>1, <1>2, <1>5, <3>1, <3>2 DEF Moves
  <2>7. CASE MarkSignalDispatched(t)
    <3>1. pc' = [pc EXCEPT ![t] = "idle"] /\ faults' >= faults
      BY <1>1, <2>7 DEF MarkSignalDispatched, Ends, Succeeds, Fails
    <3>2. rows' = rows \/ rows' = [rows EXCEPT ![row[t]].dispatched = TRUE]
      BY <2>7 DEF MarkSignalDispatched
    <3>3. rows \in Seq(Row) /\ \A j \in 1..Len(rows) : rows[j] \in Row
      BY DEF TypeOK
    <3>4. /\ Len(rows') = Len(rows)
          /\ \A j \in 1..Len(rows) : rows'[j].symbol = rows[j].symbol
          /\ \A j \in 1..Len(rows) : rows'[j].active => rows[j].active
      BY <3>2, <3>3 DEF Row
    <3>5. aa <= a
      BY <3>4, QuietCounts DEF a, aa
    <3>6. pp <= p /\ qq <= q
      BY <1>4, <1>8, <2>1, <3>1
    <3> QED BY <1>1, <1>2, <3>1, <3>5, <3>6 DEF Moves
  <2> QED BY <1>9, <2>2, <2>3, <2>4, <2>5, <2>6, <2>7 DEF Works
<1> QED BY <1>6, <1>7, <1>9 DEF Next

---------------------------------------------------------------------------
(* The bounds *)

\* The cap: every symbol, and the guard's count as the second gate.
OvershootInv == GateInv(Symbols, {"insert"}, Cap - 1 + Cardinality(Tasks))

\* Duplicates: one symbol, and the guard's look for a row as the second gate.
DuplicatesInv == \A s \in Symbols : GateInv({s}, {"cap", "insert"}, Cardinality(Unlocked) + 1)

\* Half of the faults at the most can have opened both gates.
LEMMA HalfTheFaults ==
    ASSUME NEW a \in Nat, NEW p \in Nat, NEW q \in Nat, NEW f \in Nat, NEW b \in Nat,
           Bounded(a, p, q, f, b)
    PROVE  a <= b + f \div 2
<1>1. PICK fc \in Nat, fg \in Nat : fc + fg <= f /\ a + p <= b + fc /\ a + q <= b + fg
  BY DEF Bounded
<1>2. a <= b + fc /\ a <= b + fg
  BY <1>1
<1>3. 2 * (a - b) <= f
  BY <1>1, <1>2
<1> QED BY <1>3

\* With nothing active and nobody past a gate, any bound will do.
LEMMA GateStart ==
    ASSUME Init, NEW X, NEW S \in {{"insert"}, {"cap", "insert"}}, NEW b \in Nat
    PROVE  GateInv(X, S, b)
<1>1. ActiveIn(X) = {} /\ InSteps(First, X) = {} /\ InSteps(S, X) = {}
  BY DEF Init, ActiveIn, Active, InSteps, First
<1>2. Cardinality(ActiveIn(X)) = 0 /\ Cardinality(InSteps(First, X)) = 0
      /\ Cardinality(InSteps(S, X)) = 0 /\ faults = 0
  BY <1>1, FS_EmptySet DEF Init
<1>3. 0 + 0 <= 0 /\ 0 + 0 <= b + 0
  OBVIOUS
<1> QED BY <1>2, <1>3 DEF GateInv, Bounded

\* With every symbol counted, the rows counted are the active ones.
LEMMA ActiveInAll == TypeOK => ActiveIn(Symbols) = Active
<1> SUFFICES ASSUME TypeOK, NEW i \in Active PROVE rows[i].symbol \in Symbols
  BY DEF ActiveIn
<1>1. i \in 1..Len(rows)
  BY DEF Active
<1>2. rows[i] \in Row
  BY <1>1 DEF TypeOK
<1> QED BY <1>2 DEF Row

LEMMA OvershootStep ==
    ASSUME TypeOK, TypeOK', OvershootInv, Next
    PROVE  OvershootInv'
<1> DEFINE n == Cardinality(Tasks)
           b == Cap - 1 + n
<1>1. n \in Nat /\ b \in Nat /\ Cap \in Nat
  BY TasksFinite, CapAssumption
<1>2. InSteps(First, Symbols)' \in SUBSET Tasks /\ InSteps({"insert"}, Symbols)' \in SUBSET Tasks
  BY DEF InSteps
<1>3. Cardinality(InSteps(First, Symbols)') <= n
      /\ Cardinality(InSteps({"insert"}, Symbols)') <= n
  BY <1>2, TasksFinite, FS_Subset
<1>4. Cardinality(Active) < Cap => Cardinality(ActiveIn(Symbols)) + n <= b
  <2>1. Cardinality(Active) \in Nat
    BY ActiveFinite
  <2> QED BY <1>1, <2>1, ActiveInAll
<1>5. \A t \in Tasks : ~Refused(sym[t]) => Cardinality(Active) < Cap
  BY <1>1, ActiveFinite DEF Refused
<1>6. "cap" \notin {"insert"}
  OBVIOUS
<1> HIDE DEF n, b
<1>7. GateInv(Symbols, {"insert"}, b)
  BY DEF OvershootInv, n, b
<1>8. GateInv(Symbols, {"insert"}, b)'
  BY <1>1, <1>3, <1>4, <1>5, <1>6, <1>7, GateStep
<1> QED BY <1>8 DEF OvershootInv, n, b

\* The ACTIVE rows never exceed the cap less one plus the number of tasks, and
\* one more for every two failed reads.
THEOREM OvershootBounded == Spec => []BoundedOvershoot
<1>1. Init => OvershootInv
  <2>1. Cap - 1 + Cardinality(Tasks) \in Nat
    BY TasksFinite, CapAssumption
  <2> QED BY <2>1, GateStart DEF OvershootInv
<1>2. TypeOK /\ TypeOK' /\ OvershootInv /\ [Next]_vars => OvershootInv'
  <2>1. UNCHANGED vars /\ OvershootInv => OvershootInv'
    BY DEF vars, rowVars, taskVars, OvershootInv, GateInv, ActiveIn, Active, InSteps, First
  <2> QED BY <2>1, OvershootStep
<1>3. TypeOK /\ OvershootInv => BoundedOvershoot
  <2> SUFFICES ASSUME TypeOK, OvershootInv PROVE BoundedOvershoot
    OBVIOUS
  <2> DEFINE b == Cap - 1 + Cardinality(Tasks)
  <2>1. b \in Nat
    BY TasksFinite, CapAssumption
  <2> HIDE DEF b
  <2>2. Cardinality(Active) <= b + faults \div 2
    <3>1. Bounded(Cardinality(Active), Cardinality(InSteps(First, Symbols)),
                  Cardinality(InSteps({"insert"}, Symbols)), faults, b)
      BY ActiveInAll DEF OvershootInv, GateInv, b
    <3>2. Cardinality(Active) \in Nat /\ faults \in Nat
      BY ActiveFinite DEF TypeOK
    <3> QED BY <2>1, <3>1, <3>2, CountsType, HalfTheFaults
  <2> QED BY <2>2 DEF BoundedOvershoot, b
<1> QED BY <1>1, <1>2, <1>3, TypeCorrect, PTL DEF Spec

\* At most one task past a gate for s is a scanner.
LEMMA OneScanner ==
    ASSUME TypeOK', ScannersNeverOverlap', NEW s, NEW S, S \subseteq First
    PROVE  Cardinality(InSteps(S, {s})') <= Cardinality(Unlocked) + 1
<1>1. IsFiniteSet(Unlocked) /\ Cardinality(Unlocked) \in Nat
  BY TasksAssumption, TasksFinite
<1>2. \A t, u \in InSteps(S, {s})' : t \in Locked /\ u \in Locked => t = u
  <2>1. \A t \in InSteps(S, {s})' : pc'[t] # "idle" /\ sym'[t] = s
    BY DEF InSteps, First
  <2> QED BY <2>1 DEF ScannersNeverOverlap
<1>3. PICK w : InSteps(S, {s})' \subseteq Unlocked \cup {w}
  <2>1. InSteps(S, {s})' \subseteq Unlocked \cup Locked
    BY DEF InSteps, Tasks
  <2>2. CASE \E w \in InSteps(S, {s})' : w \in Locked
    BY <1>2, <2>1, <2>2
  <2>3. CASE ~\E w \in InSteps(S, {s})' : w \in Locked
    BY <2>1, <2>3
  <2> QED BY <2>2, <2>3
<1>4. IsFiniteSet(Unlocked \cup {w})
      /\ Cardinality(Unlocked \cup {w}) <= Cardinality(Unlocked) + 1
      /\ Cardinality(Unlocked \cup {w}) \in Nat
  BY <1>1, FS_AddElement, FS_CardinalityType
<1>5. Cardinality(InSteps(S, {s})') <= Cardinality(Unlocked \cup {w})
  BY <1>3, <1>4, FS_Subset
<1>6. Cardinality(InSteps(S, {s})') \in Nat
  BY CountsTypeNext
<1> QED BY <1>1, <1>4, <1>5, <1>6

\* With one symbol counted, the rows counted are that symbol's.
LEMMA ActiveInOne == \A s : ActiveIn({s}) = ActiveOf(s)
  BY DEF ActiveIn, ActiveOf

LEMMA DuplicatesStep ==
    ASSUME TypeOK, TypeOK', ScannersNeverOverlap', DuplicatesInv, Next
    PROVE  DuplicatesInv'
<1> DEFINE b == Cardinality(Unlocked) + 1
           S == {"cap", "insert"}
<1>1. b \in Nat
  BY TasksFinite
<1> SUFFICES ASSUME NEW s \in Symbols PROVE GateInv({s}, S, b)'
  BY DEF DuplicatesInv
<1>2. Cardinality(InSteps(First, {s})') <= b /\ Cardinality(InSteps(S, {s})') <= b
  BY OneScanner DEF First
<1>3. \A t \in Tasks : sym[t] \in {s} /\ ActiveOf(sym[t]) = {}
                       => Cardinality(ActiveIn({s})) + b <= b
  BY <1>1, ActiveInOne, FS_EmptySet
<1>4. \A t \in Tasks : ~Refused(sym[t]) => ActiveOf(sym[t]) = {}
  BY DEF Refused
<1>5. "cap" \in S /\ S \in {{"insert"}, {"cap", "insert"}}
  OBVIOUS
<1> HIDE DEF b, S
<1>6. GateInv({s}, S, b)
  BY DEF DuplicatesInv, b, S
<1> QED BY <1>1, <1>2, <1>3, <1>4, <1>5, <1>6, GateStep

\* The ACTIVE rows of a symbol never exceed the tasks that work without its
\* lock and one more, and one more for every two failed reads.
THEOREM DuplicatesAreBounded == Spec => []DuplicatesBounded
<1>1. Init => DuplicatesInv
  <2>1. Cardinality(Unlocked) + 1 \in Nat
    BY TasksFinite
  <2> QED BY <2>1, GateStart DEF DuplicatesInv
<1>2. TypeOK /\ TypeOK' /\ ScannersNeverOverlap' /\ DuplicatesInv /\ [Next]_vars
        => DuplicatesInv'
  <2>1. UNCHANGED vars /\ DuplicatesInv => DuplicatesInv'
    BY DEF vars, rowVars, taskVars, DuplicatesInv, GateInv, ActiveIn, Active, InSteps, First
  <2> QED BY <2>1, DuplicatesStep
<1>3. TypeOK /\ DuplicatesInv => DuplicatesBounded
  <2> SUFFICES ASSUME TypeOK, DuplicatesInv, NEW s \in Symbols
               PROVE  Cardinality(ActiveOf(s)) <= Cardinality(Unlocked) + 1 + faults \div 2
    BY DEF DuplicatesBounded
  <2> DEFINE b == Cardinality(Unlocked) + 1
  <2>1. b \in Nat
    BY TasksFinite
  <2> HIDE DEF b
  <2>2. Bounded(Cardinality(ActiveOf(s)), Cardinality(InSteps(First, {s})),
                Cardinality(InSteps({"cap", "insert"}, {s})), faults, b)
    BY ActiveInOne DEF DuplicatesInv, GateInv, b
  <2>3. Cardinality(ActiveOf(s)) \in Nat /\ faults \in Nat
    <3>1. Cardinality(ActiveIn({s})) \in Nat
      BY CountsType
    <3> QED BY <3>1, ActiveInOne DEF TypeOK
  <2>4. Cardinality(ActiveOf(s)) <= b + faults \div 2
    BY <2>1, <2>2, <2>3, CountsType, HalfTheFaults
  <2> QED BY <2>4 DEF b
<1> QED BY <1>1, <1>2, <1>3, TypeCorrect, ScannersApart, PTL DEF Spec
=============================================================================
