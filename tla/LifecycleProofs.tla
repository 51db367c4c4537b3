--------------------------- MODULE LifecycleProofs ---------------------------
(***************************************************************************)
(* What holds of the signal lifecycle for any symbols, offers and prices,  *)
(* and any number of tick tasks, close requests and evaluators: why closed *)
(* rows closed, that it implements the execution engine, which positions   *)
(* outlive their rows, how often an outcome is learned, and the types.     *)
(***************************************************************************)
EXTENDS SignalLifecycle, SequenceTheorems, FiniteSetTheorems, WellFoundedInduction, TLAPS

---------------------------------------------------------------------------
(* The newest row of a list *)

\* Sets of naturals have a least element: what the library proves of `less'
\* as a relation.
LEMMA Least ==
    ASSUME NEW T \in SUBSET Nat, T # {}
    PROVE  \E x \in T : \A y \in T : x <= y
<1> DEFINE less == OpToRel(<, Nat)
<1>1. IsWellFoundedOn(less, Nat)
  BY NatLessThanWellFounded
<1>2. ASSUME NEW x \in Nat, NEW y \in Nat, x < y PROVE <<x, y>> \in less
  BY <1>2 DEF OpToRel
<1> HIDE DEF less
<1>3. PICK x \in T : \A y \in T : ~(<<y, x>> \in less)
  BY <1>1, WFMin
<1>4. ASSUME NEW y \in T PROVE x <= y
  <2>1. x \in Nat /\ y \in Nat
    OBVIOUS
  <2>2. CASE y < x
    <3>1. <<y, x>> \in less
      BY <1>2, <2>1, <2>2
    <3>2. <<y, x>> \notin less
      BY <1>3
    <3> QED BY <3>1, <3>2
  <2> QED BY <2>1, <2>2
<1> QED BY <1>4

LEMMA NewestIsThere ==
    ASSUME NEW n \in Nat, NEW T \in SUBSET (1..n), T # {}
    PROVE  Newest(T) \in T
<1> DEFINE U == {u \in 0..n : n - u \in T}
<1>1. U \in SUBSET Nat
  OBVIOUS
<1>2. U # {}
  <2>1. PICK x \in T : TRUE
    OBVIOUS
  <2>2. n - x \in 0..n /\ n - (n - x) = x
    OBVIOUS
  <2> QED BY <2>2
<1>3. PICK u \in U : \A v \in U : u <= v
  BY <1>1, <1>2, Least
<1>4. ASSUME NEW y \in T PROVE y <= n - u
  <2>1. y \in 1..n /\ n - y \in 0..n /\ n - (n - y) = y
    OBVIOUS
  <2>2. n - y \in U
    BY <2>1
  <2>3. u <= n - y /\ u \in 0..n
    BY <1>3, <2>2
  <2> QED BY <2>1, <2>3
<1>5. \E x \in T : \A y \in T : y <= x
  BY <1>4
<1> QED BY <1>5 DEF Newest

---------------------------------------------------------------------------
(* The inductive invariant, said of a book b and of what its readers hold  *)

Tasks == TickTasks \cup ManualTasks

StopsOf(o) == {o.stop, BreakevenStopPrice(o, Fees)}

\* A stop moves towards the price or not at all.
NotWider(o, new, old) == new = old \/ Tighter(o, new, old)

\* A closed row is explained; a stop is where it was published or at break-even.
RowOK(r) ==
    /\ r \in Row
    /\ r.stop \in StopsOf(r.terms)
    /\ r.status # "ACTIVE" => Explains(r, r.exit, r.reason)

Rows(b) == b \in Seq(Row) /\ \A i \in 1..Len(b) : RowOK(b[i])

\* A snapshot is of a row, whose stop may have moved since.
SnapOf(b, r) ==
    /\ r = [id |-> r.id, stop |-> r.stop, decay |-> r.decay] /\ r.decay \in DecayStates
    /\ r.id \in 1..Len(b)
    /\ r.stop \in StopsOf(b[r.id].terms)
    /\ NotWider(b[r.id].terms, b[r.id].stop, r.stop)

ListOf(b, list) == \A i \in DOMAIN list : SnapOf(b, list[i]) /\ list[i].id = i

Closing == {"settle", "rewrite", "engine", "tell"}

CloserRec == [pc: {"idle", "read"} \cup Closing, id: Nat,
              symbol: Symbols, px: Prices \cup {0}, reason: CloseReasons \cup {"NONE"},
              resolved: BOOLEAN]

\* What a task is about to write, or has written, explains the row it names.
CloserOf(b, t) ==
    /\ t \in CloserRec
    /\ t.pc # "idle" => t.px \in Prices
    /\ t.pc \in Closing => /\ t.id \in 1..Len(b) /\ b[t.id].terms.symbol = t.symbol
                            /\ t.reason \in CloseReasons
                            /\ Explains(b[t.id], t.px, t.reason)
    /\ t.pc \in Closing \ {"settle"} => b[t.id].status # "ACTIVE"

\* The two levels of a row, the only reasons a tick task closes for.
Levels == {"TAKE_PROFIT", "STOP_LOSS"}

ClosersOf(b, cl) ==
    /\ DOMAIN cl = Tasks
    /\ \A c \in Tasks : CloserOf(b, cl[c])
    /\ \A c \in TickTasks : cl[c].pc \in Closing => cl[c].reason \in Levels

RecFields == {"pc", "todo", "px", "reason", "via"}
RecPlaces == {"idle", "item", "settle", "rewrite", "engine", "mark", "stop", "protect"}

\* So does what the reconciler writes of the row it is at.
RecOf(b, rc) ==
    /\ DOMAIN rc = RecFields /\ rc.pc \in RecPlaces
    /\ ListOf(b, rc.todo) /\ DOMAIN rc.todo \subseteq 1..Len(b)
    /\ rc.px \in Prices \cup {0}
    /\ rc.via \in {"level", "decay"} => rc.px \in Prices
    /\ rc.pc \notin {"idle", "item"} => DOMAIN rc.todo # {}
    /\ rc.pc \in {"settle", "rewrite", "engine"} =>
          /\ rc.reason \in IF rc.via = "level" THEN Levels ELSE CloseReasons
          /\ Explains(b[Current(rc.todo).id], rc.px, rc.reason)

EvalOf(b, v) ==
    /\ v.offer \in Offers
    /\ v.pc = "ensure" => SnapOf(b, v.snap)

EvalsOf(b, ev) == DOMAIN ev = Evaluators /\ \A e \in Evaluators : EvalOf(b, ev[e])

LifecycleInv ==
    /\ Rows(book)
    /\ quote \in [Symbols -> Prices \cup {0}]
    /\ orderCounter \in Nat
    /\ ClosersOf(book, closer)
    /\ RecOf(book, rec)
    /\ EvalsOf(book, eval)
    /\ ListOf(book, revive) /\ DOMAIN revive \subseteq 1..Len(book)
    /\ early \subseteq Symbols

---------------------------------------------------------------------------
(* Rows only change in ways that keep what was said of them true *)

\* The rows there were are there, a little older perhaps, with the same terms
\* and a stop that is not wider, and the closed ones stay closed.
Grows(b, c) ==
    /\ Len(b) <= Len(c)
    /\ \A i \in 1..Len(b) : /\ c[i].terms = b[i].terms
                            /\ c[i].age >= b[i].age
                            /\ NotWider(b[i].terms, c[i].stop, b[i].stop)
                            /\ b[i].status # "ACTIVE" => c[i].status # "ACTIVE"

LEMMA OfferType ==
    ASSUME NEW o \in Offers
    PROVE  /\ o.symbol \in Symbols /\ o.long \in BOOLEAN /\ o.entry \in Nat /\ o.stop \in Nat
           /\ o.tp \in Nat /\ BreakevenStopPrice(o, Fees) \in Nat \ {0}
           /\ Tighter(o, BreakevenStopPrice(o, Fees), o.stop)
  BY LifecycleAssumption

LEMMA RowOf ==
    ASSUME NEW b, Rows(b), NEW i \in 1..Len(b)
    PROVE  /\ RowOK(b[i]) /\ b[i] \in Row /\ i \in Nat /\ Len(b) \in Nat
           /\ b[i].terms \in Offers /\ b[i].age \in Nat /\ b[i].stop \in Nat
           /\ b[i].terms.symbol \in Symbols
<1>1. RowOK(b[i]) /\ b[i] \in Row /\ i \in Nat /\ Len(b) \in Nat
  BY DEF Rows, RowOK
<1>2. b[i].terms \in Offers /\ b[i].age \in Nat
  BY <1>1, LifecycleAssumption DEF Row
<1>3. b[i].stop \in Nat
  BY <1>1, <1>2, OfferType DEF RowOK, StopsOf
<1> QED BY <1>1, <1>2, <1>3, OfferType

\* What explained a row goes on explaining it.
LEMMA StillExplains ==
    ASSUME NEW r \in Row, NEW q \in Row, r.stop \in Nat, q.stop \in Nat,
           q.terms = r.terms, q.age >= r.age, NotWider(r.terms, q.stop, r.stop),
           NEW p \in Nat, NEW reason, Explains(r, p, reason)
    PROVE  Explains(q, p, reason)
<1> DEFINE o == r.terms
<1>1. o \in Offers /\ r.age \in Nat /\ q.age \in Nat
  BY LifecycleAssumption DEF Row
<1>2. o.long \in BOOLEAN
  BY <1>1, OfferType
<1>3. CASE reason = "STOP_LOSS"
  <2>1. IF o.long THEN p <= r.stop ELSE p >= r.stop
    BY <1>3 DEF Explains
  <2>2. IF o.long THEN p <= q.stop ELSE p >= q.stop
    BY <1>2, <2>1 DEF NotWider, Tighter
  <2> QED BY <1>3, <2>2 DEF Explains
<1>4. CASE reason = "TIME_EXIT"
  <2> DEFINE Timed(age) == \/ age >= MaxAge
                           \/ p > 0 /\ age >= Prof.horizon
                           \/ p > 0 /\ age >= Prof.flat /\ Gain(o, p) <= 0
  <2>1. Timed(r.age)
    BY <1>4 DEF Explains
  <2>2. MaxAge \in Nat /\ Prof.flat \in Nat /\ Prof.horizon \in Nat
    BY LifecycleAssumption DEF Profile
  <2>3. Timed(q.age)
    BY <1>1, <2>1, <2>2
  <2> QED BY <1>4, <2>3 DEF Explains
<1>5. CASE reason \notin {"STOP_LOSS", "TIME_EXIT"}
  BY <1>5 DEF Explains
<1> QED BY <1>3, <1>4, <1>5

LEMMA PricesAreNat == Prices \cup {0} \subseteq Nat
  BY LifecycleAssumption

LEMMA StillExplainsIn ==
    ASSUME NEW b, NEW c, Rows(b), Rows(c), Grows(b, c), NEW i \in 1..Len(b),
           NEW p \in Prices \cup {0}, NEW reason, Explains(b[i], p, reason)
    PROVE  i \in 1..Len(c) /\ Explains(c[i], p, reason)
<1>1. Len(b) \in Nat /\ Len(c) \in Nat /\ Len(b) <= Len(c)
  BY DEF Rows, Grows
<1>2. i \in 1..Len(c)
  BY <1>1
<1>3. b[i] \in Row /\ c[i] \in Row /\ b[i].stop \in Nat /\ c[i].stop \in Nat
  BY <1>2, RowOf
<1>4. c[i].terms = b[i].terms /\ c[i].age >= b[i].age
      /\ NotWider(b[i].terms, c[i].stop, b[i].stop)
  BY DEF Grows
<1>5. p \in Nat
  BY PricesAreNat
<1> QED BY <1>2, <1>3, <1>4, <1>5, StillExplains

LEMMA StillSnap ==
    ASSUME NEW b, NEW c, Rows(b), Rows(c), Grows(b, c), NEW r, SnapOf(b, r)
    PROVE  SnapOf(c, r)
<1> DEFINE i == r.id
           o == b[i].terms
<1>1. i \in 1..Len(b) /\ r.stop \in StopsOf(o)
  BY DEF SnapOf
<1>2. Len(b) \in Nat /\ Len(c) \in Nat /\ Len(b) <= Len(c)
  BY DEF Rows, Grows
<1>3. i \in 1..Len(c)
  BY <1>1, <1>2
<1>4. o \in Offers /\ b[i].stop \in Nat /\ c[i].stop \in Nat
  BY <1>1, <1>3, RowOf
<1>5. c[i].terms = o /\ NotWider(o, c[i].stop, b[i].stop) /\ NotWider(o, b[i].stop, r.stop)
  BY <1>1 DEF Grows, SnapOf
<1>6. r.stop \in Nat
  BY <1>1, <1>4, OfferType DEF StopsOf
<1> HIDE DEF o, i
<1>7. NotWider(o, c[i].stop, r.stop)
  BY <1>4, <1>5, <1>6, OfferType DEF NotWider, Tighter
<1> QED BY <1>1, <1>3, <1>5, <1>7 DEF SnapOf, i, o

\* A list that is not empty has a current row, which it names truly.
LEMMA CurrentRow ==
    ASSUME NEW b, Rows(b), NEW list, ListOf(b, list), DOMAIN list \subseteq 1..Len(b),
           DOMAIN list # {}
    PROVE  /\ Newest(DOMAIN list) \in DOMAIN list
           /\ SnapOf(b, Current(list)) /\ Current(list).id = Newest(DOMAIN list)
           /\ Current(list).id \in 1..Len(b)
<1>1. Len(b) \in Nat
  BY DEF Rows
<1>2. Newest(DOMAIN list) \in DOMAIN list
  <2> DEFINE T == DOMAIN list
  <2>1. T \in SUBSET (1..Len(b)) /\ T # {}
    OBVIOUS
  <2> HIDE DEF T
  <2>2. Newest(T) \in T
    BY <1>1, <2>1, NewestIsThere
  <2> QED BY <2>2 DEF T
<1> QED BY <1>2 DEF ListOf, Current

LEMMA RestOfList ==
    ASSUME NEW b, NEW list, ListOf(b, list), DOMAIN list \subseteq 1..Len(b)
    PROVE  ListOf(b, Remaining(list)) /\ DOMAIN Remaining(list) \subseteq 1..Len(b)
  BY DEF ListOf, Remaining, Restrict

LEMMA StillList ==
    ASSUME NEW b, NEW c, Rows(b), Rows(c), Grows(b, c), NEW list, ListOf(b, list),
           DOMAIN list \subseteq 1..Len(b)
    PROVE  ListOf(c, list) /\ DOMAIN list \subseteq 1..Len(c)
<1>1. ListOf(c, list)
  BY StillSnap DEF ListOf
<1>2. Len(b) \in Nat /\ Len(c) \in Nat /\ Len(b) <= Len(c)
  BY DEF Rows, Grows
<1>3. 1..Len(b) \subseteq 1..Len(c)
  BY <1>2
<1> QED BY <1>1, <1>3

LEMMA StillCloser ==
    ASSUME NEW b, NEW c, Rows(b), Rows(c), Grows(b, c), NEW t, CloserOf(b, t)
    PROVE  CloserOf(c, t)
<1>1. Len(b) \in Nat /\ Len(c) \in Nat /\ Len(b) <= Len(c)
  BY DEF Rows, Grows
<1>2. 1..Len(b) \subseteq 1..Len(c)
  BY <1>1
<1>3. t \in CloserRec /\ t.px \in Prices \cup {0}
  BY DEF CloserOf, CloserRec
<1>4. ASSUME t.pc \in Closing
      PROVE  /\ t.id \in 1..Len(c) /\ c[t.id].terms.symbol = t.symbol
             /\ t.reason \in CloseReasons /\ Explains(c[t.id], t.px, t.reason)
             /\ t.pc # "settle" => c[t.id].status # "ACTIVE"
  <2>1. /\ t.id \in 1..Len(b) /\ b[t.id].terms.symbol = t.symbol
        /\ t.reason \in CloseReasons /\ Explains(b[t.id], t.px, t.reason)
    BY <1>4 DEF CloserOf
  <2>2. /\ c[t.id].terms = b[t.id].terms
        /\ t.pc # "settle" => c[t.id].status # "ACTIVE"
    BY <1>4, <2>1 DEF Grows, CloserOf
  <2> QED BY <1>3, <2>1, <2>2, StillExplainsIn
<1> QED BY <1>2, <1>3, <1>4 DEF CloserOf

LEMMA StillClosers ==
    ASSUME NEW b, NEW c, Rows(b), Rows(c), Grows(b, c), NEW cl, ClosersOf(b, cl)
    PROVE  ClosersOf(c, cl)
  BY StillCloser DEF ClosersOf

LEMMA StillRec ==
    ASSUME NEW b, NEW c, Rows(b), Rows(c), Grows(b, c), NEW rc, RecOf(b, rc)
    PROVE  RecOf(c, rc)
<1>1. ListOf(b, rc.todo) /\ DOMAIN rc.todo \subseteq 1..Len(b) /\ rc.px \in Prices \cup {0}
  BY DEF RecOf
<1>2. ListOf(c, rc.todo) /\ DOMAIN rc.todo \subseteq 1..Len(c)
  BY <1>1, StillList
<1>3. ASSUME rc.pc \in {"settle", "rewrite", "engine"}
      PROVE  Explains(c[Current(rc.todo).id], rc.px, rc.reason)
  <2>1. DOMAIN rc.todo # {} /\ Explains(b[Current(rc.todo).id], rc.px, rc.reason)
    BY <1>3 DEF RecOf
  <2>2. Current(rc.todo).id \in 1..Len(b)
    BY <1>1, <2>1, CurrentRow
  <2> QED BY <1>1, <2>1, <2>2, StillExplainsIn
<1> QED BY <1>2, <1>3 DEF RecOf

LEMMA StillEvals ==
    ASSUME NEW b, NEW c, Rows(b), Rows(c), Grows(b, c), NEW ev, EvalsOf(b, ev)
    PROVE  EvalsOf(c, ev)
<1>1. ASSUME NEW v, EvalOf(b, v) PROVE EvalOf(c, v)
  BY <1>1, StillSnap DEF EvalOf
<1> QED BY <1>1 DEF EvalsOf

LEMMA GrowsRefl ==
    ASSUME NEW b, Rows(b)
    PROVE  Grows(b, b)
<1>1. Len(b) \in Nat
  BY DEF Rows
<1>2. ASSUME NEW i \in 1..Len(b) PROVE b[i].age >= b[i].age
  BY RowOf
<1> QED BY <1>1, <1>2 DEF Grows, NotWider

---------------------------------------------------------------------------
(* The writes to the book *)

\* One row replaced by one with the same terms, no younger, its stop not wider.
LEMMA WriteRow ==
    ASSUME NEW b, Rows(b), NEW i \in 1..Len(b), NEW q, RowOK(q),
           q.terms = b[i].terms, q.age = b[i].age, NotWider(q.terms, q.stop, b[i].stop),
           b[i].status # "ACTIVE" => q.status # "ACTIVE"
    PROVE  Rows([b EXCEPT ![i] = q]) /\ Grows(b, [b EXCEPT ![i] = q])
<1> DEFINE c == [b EXCEPT ![i] = q]
<1>1. b \in Seq(Row) /\ q \in Row /\ Len(b) \in Nat
  BY DEF Rows, RowOK
<1>2. c \in Seq(Row) /\ Len(c) = Len(b)
  BY <1>1, ExceptSeq
<1>3. \A j \in 1..Len(b) : c[j] = IF j = i THEN q ELSE b[j]
  BY <1>1
<1> HIDE DEF c
<1>4. Rows(c)
  BY <1>2, <1>3 DEF Rows
<1>5. ASSUME NEW j \in 1..Len(b)
      PROVE  /\ c[j].terms = b[j].terms /\ c[j].age >= b[j].age
             /\ NotWider(b[j].terms, c[j].stop, b[j].stop)
             /\ b[j].status # "ACTIVE" => c[j].status # "ACTIVE"
  <2>1. b[j].age \in Nat
    BY RowOf
  <2> QED BY <1>3, <2>1 DEF NotWider
<1>6. Grows(b, c)
  BY <1>1, <1>2, <1>5 DEF Grows
<1> QED BY <1>4, <1>6 DEF c

\* A closure that explains the row.
LEMMA CloseWrite ==
    ASSUME NEW b, Rows(b), NEW i \in 1..Len(b), NEW p \in Prices \cup {0},
           NEW reason \in CloseReasons, Explains(b[i], p, reason)
    PROVE  LET c == [b EXCEPT ![i].status = "CLOSED", ![i].exit = p, ![i].reason = reason]
           IN  Rows(c) /\ Grows(b, c)
<1> DEFINE q == [b[i] EXCEPT !.status = "CLOSED", !.exit = p, !.reason = reason]
<1>1. b[i] \in Row /\ RowOK(b[i])
  BY RowOf
<1>2. q \in Row
  BY <1>1, PricesAreNat DEF Row
<1>3. q.terms = b[i].terms /\ q.stop = b[i].stop /\ q.age = b[i].age
      /\ q.exit = p /\ q.reason = reason /\ q.status = "CLOSED"
  BY <1>1 DEF Row
<1>4. Explains(q, p, reason)
  BY <1>3 DEF Explains
<1> HIDE DEF q
<1>5. RowOK(q)
  BY <1>1, <1>2, <1>3, <1>4 DEF RowOK
<1>6. Rows([b EXCEPT ![i] = q]) /\ Grows(b, [b EXCEPT ![i] = q])
  BY <1>3, <1>5, WriteRow DEF NotWider
<1>7. [b EXCEPT ![i].status = "CLOSED", ![i].exit = p, ![i].reason = reason]
        = [b EXCEPT ![i] = q]
  BY DEF q, Rows
<1> QED BY <1>6, <1>7

LEMMA ResolvedWrite ==
    ASSUME NEW b, Rows(b), NEW i \in 1..Len(b)
    PROVE  LET c == [b EXCEPT ![i].resolved = TRUE] IN Rows(c) /\ Grows(b, c)
<1> DEFINE q == [b[i] EXCEPT !.resolved = TRUE]
<1>1. b[i] \in Row /\ RowOK(b[i])
  BY RowOf
<1>2. q \in Row
  BY <1>1 DEF Row
<1>3. q.terms = b[i].terms /\ q.stop = b[i].stop /\ q.age = b[i].age
      /\ q.exit = b[i].exit /\ q.reason = b[i].reason /\ q.status = b[i].status
  BY <1>1 DEF Row
<1> HIDE DEF q
<1>4. RowOK(q)
  BY <1>1, <1>2, <1>3 DEF RowOK, Explains
<1>5. Rows([b EXCEPT ![i] = q]) /\ Grows(b, [b EXCEPT ![i] = q])
  BY <1>3, <1>4, WriteRow DEF NotWider
<1> QED BY <1>5 DEF q

LEMMA DecayWrite ==
    ASSUME NEW b, Rows(b), NEW i \in 1..Len(b), NEW d \in DecayStates
    PROVE  LET c == [b EXCEPT ![i].decay = d] IN Rows(c) /\ Grows(b, c)
<1> DEFINE q == [b[i] EXCEPT !.decay = d]
<1>1. b[i] \in Row /\ RowOK(b[i])
  BY RowOf
<1>2. q \in Row
  BY <1>1 DEF Row
<1>3. q.terms = b[i].terms /\ q.stop = b[i].stop /\ q.age = b[i].age
      /\ q.exit = b[i].exit /\ q.reason = b[i].reason /\ q.status = b[i].status
  BY <1>1 DEF Row
<1> HIDE DEF q
<1>4. RowOK(q)
  BY <1>1, <1>2, <1>3 DEF RowOK, Explains
<1>5. Rows([b EXCEPT ![i] = q]) /\ Grows(b, [b EXCEPT ![i] = q])
  BY <1>3, <1>4, WriteRow DEF NotWider
<1> QED BY <1>5 DEF q

\* A stop moved to break-even is not wider than it was, published or moved.
LEMMA StopWrite ==
    ASSUME NEW b, Rows(b), NEW i \in 1..Len(b)
    PROVE  LET c == [b EXCEPT ![i].stop = BreakevenStopPrice(b[i].terms, Fees)]
           IN  Rows(c) /\ Grows(b, c)
<1> DEFINE o == b[i].terms
           stop == BreakevenStopPrice(o, Fees)
           q == [b[i] EXCEPT !.stop = stop]
<1>1. b[i] \in Row /\ RowOK(b[i]) /\ o \in Offers /\ b[i].stop \in Nat
      /\ b[i].age \in Nat
  BY RowOf
<1>2. stop \in Nat /\ Tighter(o, stop, o.stop)
  BY <1>1, OfferType
<1>3. NotWider(o, stop, b[i].stop)
  BY <1>1, <1>2 DEF NotWider, RowOK, StopsOf
<1> HIDE DEF stop
<1>4. q \in Row
  BY <1>1, <1>2 DEF Row
<1>5. q.terms = o /\ q.stop = stop /\ q.age = b[i].age
      /\ q.exit = b[i].exit /\ q.reason = b[i].reason /\ q.status = b[i].status
  BY <1>1 DEF Row
<1> HIDE DEF q
<1>6. q.status # "ACTIVE" => Explains(q, q.exit, q.reason)
  <2>1. SUFFICES ASSUME q.status # "ACTIVE" PROVE Explains(q, q.exit, q.reason)
    OBVIOUS
  <2>2. Explains(b[i], q.exit, q.reason)
    BY <1>1, <1>5, <2>1 DEF RowOK
  <2>3. q.exit \in Nat /\ q.age >= b[i].age
    BY <1>1, <1>5 DEF Row
  <2> QED BY <1>1, <1>2, <1>3, <1>4, <1>5, <2>2, <2>3, StillExplains
<1>7. RowOK(q)
  BY <1>4, <1>5, <1>6 DEF RowOK, StopsOf, stop
<1>8. Rows([b EXCEPT ![i] = q]) /\ Grows(b, [b EXCEPT ![i] = q])
  BY <1>3, <1>5, <1>7, WriteRow
<1> QED BY <1>8 DEF q, stop

\* A row published: its stop is the offer's.
LEMMA AppendWrite ==
    ASSUME NEW b, Rows(b), NEW q, RowOK(q)
    PROVE  Rows(Append(b, q)) /\ Grows(b, Append(b, q))
           /\ Len(Append(b, q)) = Len(b) + 1 /\ Append(b, q)[Len(b) + 1] = q
<1> DEFINE c == Append(b, q)
<1>1. b \in Seq(Row) /\ q \in Row /\ Len(b) \in Nat
  BY DEF Rows, RowOK
<1>2. /\ c \in Seq(Row) /\ Len(c) = Len(b) + 1
      /\ \A i \in 1..Len(b) : c[i] = b[i]
      /\ c[Len(b) + 1] = q
  BY <1>1, AppendProperties
<1> HIDE DEF c
<1>3. \A i \in 1..Len(c) : i \in 1..Len(b) \/ i = Len(b) + 1
  BY <1>1, <1>2
<1>4. Rows(c)
  BY <1>2, <1>3 DEF Rows
<1>5. ASSUME NEW i \in 1..Len(b) PROVE c[i].age >= b[i].age
  BY <1>2, RowOf
<1>6. Grows(b, c)
  BY <1>1, <1>2, <1>5 DEF Grows, NotWider
<1> QED BY <1>2, <1>4, <1>6 DEF c

\* Time makes every row older.
LEMMA AgeWrite ==
    ASSUME NEW b, Rows(b)
    PROVE  LET c == [i \in 1..Len(b) |-> [b[i] EXCEPT !.age = IF @ < AgeBound THEN @ + 1 ELSE @]]
           IN  Rows(c) /\ Grows(b, c)
<1> DEFINE q(i) == [b[i] EXCEPT !.age = IF @ < AgeBound THEN @ + 1 ELSE @]
           c == [i \in 1..Len(b) |-> q(i)]
<1>1. Len(b) \in Nat
  BY DEF Rows
<1>2. ASSUME NEW i \in 1..Len(b)
      PROVE  /\ RowOK(q(i)) /\ q(i).terms = b[i].terms /\ q(i).stop = b[i].stop
             /\ q(i).age >= b[i].age /\ q(i).status = b[i].status
  <2> DEFINE age == IF b[i].age < AgeBound THEN b[i].age + 1 ELSE b[i].age
             r == q(i)
  <2>1. b[i] \in Row /\ RowOK(b[i]) /\ b[i].stop \in Nat /\ b[i].age \in 0..AgeBound
    BY RowOf DEF Row
  <2>2. age \in 0..AgeBound /\ age >= b[i].age
    BY <2>1, LifecycleAssumption
  <2>3. r = [b[i] EXCEPT !.age = age]
    OBVIOUS
  <2> HIDE DEF age, r
  <2>4. r \in Row /\ r.age = age
    BY <2>1, <2>2, <2>3 DEF Row
  <2>5. r.terms = b[i].terms /\ r.stop = b[i].stop /\ r.status = b[i].status
        /\ r.exit = b[i].exit /\ r.reason = b[i].reason
    BY <2>1, <2>3 DEF Row
  <2>6. r.status # "ACTIVE" => Explains(r, r.exit, r.reason)
    <3>1. SUFFICES ASSUME r.status # "ACTIVE" PROVE Explains(r, r.exit, r.reason)
      OBVIOUS
    <3>2. Explains(b[i], r.exit, r.reason) /\ r.exit \in Nat
      BY <2>1, <2>4, <2>5, <3>1 DEF RowOK, Row
    <3> QED BY <2>1, <2>2, <2>4, <2>5, <3>2, StillExplains DEF NotWider
  <2>7. RowOK(r)
    BY <2>1, <2>4, <2>5, <2>6 DEF RowOK
  <2> QED BY <2>2, <2>4, <2>5, <2>7 DEF r
<1>3. ASSUME NEW i \in 1..Len(b) PROVE q(i) \in Row
  BY <1>2 DEF RowOK
<1> HIDE DEF q
<1>4. c \in Seq(Row) /\ Len(c) = Len(b)
  BY <1>1, <1>3
<1>5. Rows(c)
  BY <1>2, <1>4 DEF Rows
<1>6. Grows(b, c)
  BY <1>1, <1>2, <1>4 DEF Grows, NotWider
<1> QED BY <1>5, <1>6 DEF q

\* The writes and the status of the rows.
LEMMA WrittenStatus ==
    ASSUME LifecycleInv, NEW i \in 1..Len(book), NEW p, NEW reason,
           CloseFuturesSignal(i, p, reason), NEW j \in 1..Len(book)
    PROVE  book'[j].status = IF j = i THEN "CLOSED" ELSE book[j].status
<1>1. book[i] \in Row
  BY RowOf DEF LifecycleInv
<1>2. book' = [book EXCEPT ![i] = [book[i] EXCEPT !.status = "CLOSED", !.exit = p,
                                                  !.reason = reason]]
  BY DEF CloseFuturesSignal, LifecycleInv, Rows
<1> DEFINE q == [book[i] EXCEPT !.status = "CLOSED", !.exit = p, !.reason = reason]
<1>3. q.status = "CLOSED"
  BY <1>1 DEF Row
<1>4. j \in DOMAIN book
  BY DEF LifecycleInv, Rows
<1> HIDE DEF q
<1>5. book' = [book EXCEPT ![i] = q]
  BY <1>2 DEF q
<1> QED BY <1>3, <1>4, <1>5

LEMMA KeptStatus ==
    ASSUME LifecycleInv, NEW i \in 1..Len(book), NEW v,
           UpdateSignalStop(i, v) \/ UpdateSignalDecay(i, v) \/ MarkSignalResolved(i),
           NEW j \in 1..Len(book)
    PROVE  book'[j].status = book[j].status
<1>1. book[i] \in Row /\ j \in DOMAIN book
  BY RowOf DEF LifecycleInv, Rows
<1>2. ASSUME NEW q, q.status = book[i].status, book' = [book EXCEPT ![i] = q]
      PROVE  book'[j].status = book[j].status
  BY <1>1, <1>2
<1>3. /\ [book[i] EXCEPT !.stop = v].status = book[i].status
      /\ [book[i] EXCEPT !.decay = v].status = book[i].status
      /\ [book[i] EXCEPT !.resolved = TRUE].status = book[i].status
  BY <1>1 DEF Row
<1>4. \/ book' = [book EXCEPT ![i] = [book[i] EXCEPT !.stop = v]]
      \/ book' = [book EXCEPT ![i] = [book[i] EXCEPT !.decay = v]]
      \/ book' = [book EXCEPT ![i] = [book[i] EXCEPT !.resolved = TRUE]]
  BY DEF UpdateSignalStop, UpdateSignalDecay, MarkSignalResolved
<1> QED BY <1>2, <1>3, <1>4

---------------------------------------------------------------------------
(* What the tasks find explains the row they found it of *)

LEMMA HitExplains ==
    ASSUME NEW b, Rows(b), NEW i \in 1..Len(b), NEW stop \in Nat,
           NotWider(b[i].terms, b[i].stop, stop), NEW p \in Nat,
           Resolution(b[i].terms, stop, p) # "NONE"
    PROVE  /\ Resolution(b[i].terms, stop, p) \in {"TAKE_PROFIT", "STOP_LOSS"}
           /\ Explains(b[i], p, Resolution(b[i].terms, stop, p))
<1> DEFINE o == b[i].terms
           hit == Resolution(o, stop, p)
<1>1. o.long \in BOOLEAN /\ o.tp \in Nat /\ b[i].stop \in Nat
  BY RowOf, OfferType
<1>2. CASE IF o.long THEN p >= o.tp ELSE p <= o.tp
  <2>1. hit = "TAKE_PROFIT"
    BY <1>1, <1>2 DEF Resolution
  <2> QED BY <1>2, <2>1 DEF Explains
<1>3. CASE ~(IF o.long THEN p >= o.tp ELSE p <= o.tp)
  <2>1. hit = "STOP_LOSS" /\ IF o.long THEN p <= stop ELSE p >= stop
    BY <1>3 DEF Resolution
  <2>2. IF o.long THEN p <= b[i].stop ELSE p >= b[i].stop
    BY <1>1, <2>1 DEF NotWider, Tighter
  <2> QED BY <2>1, <2>2 DEF Explains
<1> QED BY <1>2, <1>3

\* Decay leaves at the horizon or, not in profit, at the flat checkpoint.
LEMMA DecayExplains ==
    ASSUME NEW r \in Row, NEW p \in Nat, p > 0, NEW risk, NEW state,
           EvaluateDecay(r.age, Gain(r.terms, p), risk, state, Prof).action
              \notin {"", "BREAKEVEN"}
    PROVE  Explains(r, p, "TIME_EXIT")
<1>1. \/ r.age >= Prof.horizon
      \/ r.age >= Prof.flat /\ Gain(r.terms, p) <= 0
  BY DEF EvaluateDecay
<1> QED BY <1>1 DEF Explains

---------------------------------------------------------------------------
(* Tasks, lists and evaluators that move on *)

LEMMA SetCloser ==
    ASSUME NEW b, NEW cl, ClosersOf(b, cl), NEW c \in Tasks, NEW t, CloserOf(b, t),
           c \in TickTasks /\ t.pc \in Closing => t.reason \in Levels
    PROVE  ClosersOf(b, [cl EXCEPT ![c] = t])
  BY DEF ClosersOf, Tasks

LEMMA SetEval ==
    ASSUME NEW b, NEW ev, EvalsOf(b, ev), NEW e \in Evaluators, NEW v, EvalOf(b, v)
    PROVE  EvalsOf(b, [ev EXCEPT ![e] = v])
  BY DEF EvalsOf

LEMMA IdleType == Idle \in CloserRec /\ Idle.pc = "idle" /\ Idle.px = 0
<1>1. PICK o \in Offers : TRUE
  BY LifecycleAssumption
<1>2. o.symbol \in Symbols
  BY OfferType
<1> QED BY <1>2 DEF Idle, CloserRec

LEMMA IdleCloser ==
    ASSUME NEW b
    PROVE  CloserOf(b, Idle) /\ Idle.pc \notin Closing
  BY IdleType DEF CloserOf, Closing

LEMMA PendingEval ==
    ASSUME NEW b
    PROVE  EvalOf(b, Pending)
  BY LifecycleAssumption DEF EvalOf, Pending

LEMMA RestingRec ==
    ASSUME NEW b
    PROVE  RecOf(b, Resting)
<1>1. DOMAIN << >> = {}
  OBVIOUS
<1> QED BY <1>1 DEF RecOf, Resting, RecFields, RecPlaces, ListOf

LEMMA RecMoves ==
    ASSUME NEW b, NEW rc, RecOf(b, rc), rc.pc \in {"settle", "rewrite"},
           NEW pc \in {"rewrite", "engine"}
    PROVE  RecOf(b, [rc EXCEPT !.pc = pc])
<1> DEFINE u == [rc EXCEPT !.pc = pc]
<1>1. /\ DOMAIN u = RecFields
      /\ u.pc = pc /\ u.todo = rc.todo /\ u.px = rc.px /\ u.reason = rc.reason
      /\ u.via = rc.via
  BY DEF RecOf, RecFields
<1> HIDE DEF u
<1>2. RecOf(b, u)
  BY <1>1 DEF RecOf, RecPlaces
<1> QED BY <1>2 DEF u

\* On to a call that writes no closure.
LEMMA RecGoesOn ==
    ASSUME NEW b, NEW rc, RecOf(b, rc), DOMAIN rc.todo # {},
           NEW pc \in {"mark", "protect"}
    PROVE  RecOf(b, [rc EXCEPT !.pc = pc])
<1> DEFINE u == [rc EXCEPT !.pc = pc]
<1>1. /\ DOMAIN u = RecFields
      /\ u.pc = pc /\ u.todo = rc.todo /\ u.px = rc.px /\ u.reason = rc.reason
      /\ u.via = rc.via
  BY DEF RecOf, RecFields
<1> HIDE DEF u
<1>2. RecOf(b, u)
  BY <1>1 DEF RecOf, RecPlaces
<1> QED BY <1>2 DEF u

LEMMA RecNext ==
    ASSUME NEW b, RecOf(b, rec)
    PROVE  RecOf(b, NextItem)
<1>1. ListOf(b, rec.todo) /\ DOMAIN rec.todo \subseteq 1..Len(b)
  BY DEF RecOf
<1> DEFINE rest == Remaining(rec.todo)
<1>2. ListOf(b, rest) /\ DOMAIN rest \subseteq 1..Len(b)
  BY <1>1, RestOfList
<1> DEFINE u == NextItem
<1>3. DOMAIN u = RecFields /\ u.pc = "item" /\ u.todo = rest /\ u.px = 0 /\ u.via = "none"
  BY DEF NextItem, Resting, RecFields
<1> HIDE DEF rest, u
<1>4. RecOf(b, u)
  BY <1>2, <1>3 DEF RecOf, RecPlaces
<1> QED BY <1>4 DEF u

LEMMA RecLeaves ==
    ASSUME NEW b, RecOf(b, rec), DOMAIN rec.todo # {}, NEW p \in Prices \cup {0},
           NEW reason \in CloseReasons, Explains(b[Current(rec.todo).id], p, reason),
           NEW via, via \in {"level", "decay"} => p \in Prices,
           via = "level" => reason \in Levels
    PROVE  RecOf(b, Leaves(p, reason, via))
<1> DEFINE u == Leaves(p, reason, via)
<1>1. /\ DOMAIN u = RecFields /\ u.pc = "settle" /\ u.todo = rec.todo /\ u.px = p
      /\ u.reason = reason /\ u.via = via
  BY DEF Leaves, RecOf, RecFields
<1> HIDE DEF u
<1>2. RecOf(b, u)
  BY <1>1 DEF RecOf, RecPlaces
<1> QED BY <1>2 DEF u

\* The three branches of applyDecayState exclude one another, whatever string
\* stands for no action.
LEMMA ThreeWays ==
    ASSUME NEW risk \in Int, NEW act, NEW nothing, nothing # "BREAKEVEN",
           NEW none, NEW moves, NEW rest, NEW leaves, NEW tight, NEW out,
           out = CASE risk <= 0 \/ act = nothing -> none
                   [] risk > 0 /\ act = "BREAKEVEN" -> IF tight THEN moves ELSE rest
                   [] OTHER -> leaves
    PROVE  \/ out \in {none, moves, rest}
           \/ act \notin {nothing, "BREAKEVEN"} /\ out = leaves
<1>1. CASE risk <= 0 \/ act = nothing
  <2>1. ~(risk > 0 /\ act = "BREAKEVEN")
    BY <1>1
  <2> QED BY <1>1, <2>1
<1>2. CASE ~(risk <= 0 \/ act = nothing) /\ act = "BREAKEVEN"
  BY <1>2
<1>3. CASE ~(risk <= 0 \/ act = nothing) /\ act # "BREAKEVEN"
  BY <1>3
<1> QED BY <1>1, <1>2, <1>3

LEMMA DecayRec ==
    ASSUME LifecycleInv, DOMAIN rec.todo # {}, NEW p \in Prices
    PROVE  RecOf(book, applyDecayState(Current(rec.todo), p))
<1> DEFINE r == Current(rec.todo)
           o == book[r.id].terms
           risk == RiskDistance(o, r.stop)
           d == EvaluateDecay(book[r.id].age, Gain(o, p), risk, r.decay, Prof)
<1>1. Rows(book) /\ RecOf(book, rec)
  BY DEF LifecycleInv
<1>2. r.id \in 1..Len(book)
  BY <1>1, CurrentRow DEF RecOf
<1>3. book[r.id] \in Row /\ p \in Nat /\ p > 0
  BY <1>1, <1>2, RowOf, LifecycleAssumption
<1>4. RecOf(book, NextItem)
  BY <1>1, RecNext
<1>5. RecOf(book, [rec EXCEPT !.pc = "stop", !.px = p])
  <2> DEFINE u == [rec EXCEPT !.pc = "stop", !.px = p]
  <2>1. /\ DOMAIN u = RecFields /\ u.pc = "stop" /\ u.todo = rec.todo /\ u.px = p
        /\ u.reason = rec.reason /\ u.via = rec.via
    BY <1>1 DEF RecOf, RecFields
  <2> HIDE DEF u
  <2>2. RecOf(book, u)
    BY <1>1, <2>1 DEF RecOf, RecPlaces
  <2> QED BY <2>2 DEF u
<1>6. ASSUME d.action \notin {"", "BREAKEVEN"}
      PROVE  RecOf(book, Leaves(p, "TIME_EXIT", "decay"))
  <2>1. Explains(book[r.id], p, "TIME_EXIT")
    BY <1>3, <1>6, DecayExplains
  <2> QED BY <1>1, <2>1, RecLeaves DEF CloseReasons
<1>7. d.action = "" \/ d.action = "BREAKEVEN" \/ d.action \notin {"", "BREAKEVEN"}
  OBVIOUS
<1>8. o.long \in BOOLEAN /\ o.entry \in Nat /\ r.stop \in Nat
  <2>1. o \in Offers /\ r.stop \in StopsOf(o)
    BY <1>1, <1>2, CurrentRow, RowOf DEF RecOf, SnapOf
  <2> QED BY <2>1, OfferType DEF StopsOf
<1>9. risk \in Int
  BY <1>8 DEF RiskDistance
<1> DEFINE out == applyDecayState(r, p)
<1>10. \/ out = NextItem
       \/ out = [rec EXCEPT !.pc = "stop", !.px = p]
       \/ d.action \notin {"", "BREAKEVEN"} /\ out = Leaves(p, "TIME_EXIT", "decay")
  <2>0. out = CASE risk <= 0 \/ d.action = "" -> NextItem
                [] risk > 0 /\ d.action = "BREAKEVEN" ->
                      IF Tighter(o, BreakevenStopPrice(o, Fees), r.stop)
                      THEN [rec EXCEPT !.pc = "stop", !.px = p] ELSE NextItem
                [] OTHER -> Leaves(p, "TIME_EXIT", "decay")
    BY DEF applyDecayState
  <2> HIDE DEF out, d, risk
  <2>1. "" # "BREAKEVEN"
    OBVIOUS
  <2> DEFINE none == "" act == d.action
  <2>2. out = CASE risk <= 0 \/ act = none -> NextItem
                [] risk > 0 /\ act = "BREAKEVEN" ->
                      IF Tighter(o, BreakevenStopPrice(o, Fees), r.stop)
                      THEN [rec EXCEPT !.pc = "stop", !.px = p] ELSE NextItem
                [] OTHER -> Leaves(p, "TIME_EXIT", "decay")
    BY <2>0
  <2>3. none # "BREAKEVEN"
    BY <2>1
  <2> HIDE DEF none, act
  <2>4. \/ out \in {NextItem, [rec EXCEPT !.pc = "stop", !.px = p], NextItem}
        \/ act \notin {none, "BREAKEVEN"} /\ out = Leaves(p, "TIME_EXIT", "decay")
    BY <1>9, <2>2, <2>3, ThreeWays
  <2> QED BY <2>4 DEF none, act
<1> QED BY <1>4, <1>5, <1>6, <1>10

\* Visiting a row leaves the reconciler with an explanation of what it writes.
LEMMA VisitRec ==
    ASSUME LifecycleInv, DOMAIN rec.todo # {}, NEW p \in Prices \cup {0}
    PROVE  RecOf(book, Visit(Current(rec.todo), p))
<1> DEFINE r == Current(rec.todo)
           hit == Resolution(book[r.id].terms, r.stop, p)
           old == book[r.id].age >= MaxAge
<1>1. Rows(book) /\ RecOf(book, rec)
  BY DEF LifecycleInv
<1>2. r.id \in 1..Len(book) /\ SnapOf(book, r)
  BY <1>1, CurrentRow DEF RecOf
<1>3. p \in Nat /\ (p > 0 => p \in Prices) /\ r.stop \in Nat
  <2>1. book[r.id].terms \in Offers /\ r.stop \in StopsOf(book[r.id].terms)
    BY <1>1, <1>2, RowOf DEF SnapOf
  <2>2. r.stop \in Nat
    BY <2>1, OfferType DEF StopsOf
  <2> QED BY <2>2, PricesAreNat
<1>4. CASE old
  <2>1. Explains(book[r.id], p, "TIME_EXIT")
    BY <1>4 DEF Explains
  <2>2. RecOf(book, Leaves(p, "TIME_EXIT", "age"))
    BY <1>1, <2>1, RecLeaves DEF CloseReasons
  <2>3. Visit(r, p) = Leaves(p, "TIME_EXIT", "age")
    BY <1>4 DEF Visit
  <2> QED BY <2>2, <2>3
<1>5. CASE ~old /\ p = 0
  <2>1. Visit(r, p) = NextItem
    BY <1>5 DEF Visit
  <2> QED BY <1>1, <2>1, RecNext
<1>6. CASE ~old /\ p > 0 /\ hit # "NONE"
  <2>1. hit \in {"TAKE_PROFIT", "STOP_LOSS"} /\ Explains(book[r.id], p, hit)
    BY <1>1, <1>2, <1>3, <1>6, HitExplains DEF SnapOf
  <2>2. RecOf(book, Leaves(p, hit, "level"))
    <3>1. hit \in CloseReasons /\ hit \in Levels /\ p \in Prices
      BY <1>3, <1>6, <2>1 DEF CloseReasons, Levels
    <3> HIDE DEF hit
    <3> QED BY <1>1, <2>1, <3>1, RecLeaves
  <2>3. Visit(r, p) = Leaves(p, hit, "level")
    BY <1>3, <1>6 DEF Visit
  <2> QED BY <2>2, <2>3
<1>7. CASE ~old /\ p > 0 /\ hit = "NONE"
  <2>1. Visit(r, p) = applyDecayState(r, p)
    BY <1>3, <1>7 DEF Visit
  <2> QED BY <1>3, <1>7, <2>1, DecayRec
<1> QED BY <1>3, <1>4, <1>5, <1>6, <1>7

---------------------------------------------------------------------------
(* What the server asks of the engine is a step of the engine's            *)

EngineStep == [E!Next]_(E!vars) /\ orderCounter' \in Nat

LEMMA EngineRests ==
    ASSUME orderCounter \in Nat, UNCHANGED engineVars
    PROVE  EngineStep
  BY DEF EngineStep, engineVars, E!vars

LEMMA CheckStep ==
    ASSUME orderCounter \in Nat, NEW s \in Symbols, NEW p \in Prices, CheckExit(s, p)
    PROVE  EngineStep
<1>1. E!CheckExit(s, p)
  BY DEF CheckExit
<1>2. E!Next
  BY <1>1 DEF E!Next
<1>3. orderCounter' = orderCounter
  BY <1>1 DEF E!CheckExit, E!closePositionLocked, E!vars
<1> QED BY <1>2, <1>3 DEF EngineStep

LEMMA ForceStep ==
    ASSUME orderCounter \in Nat, NEW s \in Symbols, NEW p \in Prices \cup {0},
           NEW r \in {"MANUAL_EXIT", "TIME_EXIT", "NEWS_EARLY_EXIT"},
           ForceClosePosition(s, p, r)
    PROVE  EngineStep
<1>1. E!ForceClosePosition(s, p, r)
  BY DEF ForceClosePosition
<1>2. E!Next
  BY <1>1 DEF E!Next
<1>3. orderCounter' = orderCounter
  BY <1>1 DEF E!ForceClosePosition, E!closePositionLocked, E!vars
<1> QED BY <1>2, <1>3 DEF EngineStep

LEMMA RestartStep ==
    ASSUME E!NewExecutionEngine
    PROVE  EngineStep
  BY DEF EngineStep, E!Next, E!NewExecutionEngine

\* The engine is handed the terms with the stop of a snapshot, which is the
\* offer's or the break-even one.
LEMMA EnsureStep ==
    ASSUME LifecycleInv, NEW snap, SnapOf(book, snap),
           orderCounter < MaxOrders + MaxSignals, ensureSignalPosition(snap)
    PROVE  EngineStep
<1> DEFINE o == book[snap.id].terms
           sig == [o EXCEPT !.stop = snap.stop]
<1>1. o \in Offers /\ snap.stop \in StopsOf(o) /\ orderCounter \in Nat
  BY RowOf DEF LifecycleInv, SnapOf
<1>2. sig \in Offers \cup {Breakeven(x) : x \in Offers}
  <2>1. CASE snap.stop = o.stop
    <3>1. o \in [symbol: Symbols, long: BOOLEAN, entry: Nat \ {0}, stop: Nat,
                 tp: Nat, leverage: 1..125, margin: Nat]
      BY <1>1, LifecycleAssumption
    <3>2. sig = o
      BY <2>1, <3>1
    <3> QED BY <1>1, <3>2
  <2>2. CASE snap.stop = BreakevenStopPrice(o, Fees)
    BY <1>1, <2>2 DEF Breakeven
  <2> QED BY <1>1, <2>1, <2>2 DEF StopsOf
<1>3. E!OpenPositionFromSignal(sig)
  BY DEF ensureSignalPosition
<1> HIDE DEF sig
<1>4. E!Next
  BY <1>2, <1>3 DEF E!Next, E!Open
<1>5. orderCounter' \in Nat
  BY <1>1, <1>3 DEF E!OpenPositionFromSignal, E!vars
<1> QED BY <1>4, <1>5 DEF EngineStep

---------------------------------------------------------------------------
(* Every step keeps the invariant and is a step of the engine or none *)

StepOK == LifecycleInv' /\ Grows(book, book') /\ EngineStep

LEMMA BookRests ==
    ASSUME LifecycleInv, book' = book
    PROVE  Rows(book') /\ Grows(book, book')
  BY GrowsRefl DEF LifecycleInv

\* The parts of the invariant a step leaves alone follow from what it does to
\* the book.
LEMMA Carried ==
    ASSUME LifecycleInv, EngineStep, Rows(book'), Grows(book, book'),
           quote' \in [Symbols -> Prices \cup {0}],
           closer' = closer \/ ClosersOf(book', closer'),
           rec' = rec \/ RecOf(book', rec'),
           eval' = eval \/ EvalsOf(book', eval'),
           \/ revive' = revive
           \/ ListOf(book', revive') /\ DOMAIN revive' \subseteq 1..Len(book'),
           early' = early \/ early' \subseteq Symbols
    PROVE  StepOK
<1>1. Rows(book)
  BY DEF LifecycleInv
<1>2. ClosersOf(book', closer')
  BY <1>1, StillClosers DEF LifecycleInv
<1>3. RecOf(book', rec')
  BY <1>1, StillRec DEF LifecycleInv
<1>4. EvalsOf(book', eval')
  BY <1>1, StillEvals DEF LifecycleInv
<1>5. ListOf(book', revive') /\ DOMAIN revive' \subseteq 1..Len(book')
  BY <1>1, StillList DEF LifecycleInv
<1>6. early' \subseteq Symbols /\ orderCounter' \in Nat
  BY DEF LifecycleInv, EngineStep
<1> QED BY <1>2, <1>3, <1>4, <1>5, <1>6 DEF StepOK, LifecycleInv

LEMMA NewestRow ==
    ASSUME LifecycleInv, NEW s, GetActiveFuturesSignalBySymbol(s) # 0
    PROVE  /\ GetActiveFuturesSignalBySymbol(s) \in 1..Len(book)
           /\ SymbolOf(GetActiveFuturesSignalBySymbol(s)) = s
           /\ Active(GetActiveFuturesSignalBySymbol(s))
<1> DEFINE T == {i \in Ids : SymbolOf(i) = s /\ Active(i)}
           got == GetActiveFuturesSignalBySymbol(s)
<1>1. T \in SUBSET (1..Len(book)) /\ Len(book) \in Nat
  BY DEF Ids, LifecycleInv, Rows
<1>2. got = IF T = {} THEN 0 ELSE Newest(T)
  BY DEF GetActiveFuturesSignalBySymbol
<1>3. T # {}
  BY <1>2
<1>4. \A i \in T : SymbolOf(i) = s /\ Active(i)
  OBVIOUS
<1> HIDE DEF T, got
<1>5. got \in T
  BY <1>1, <1>2, <1>3, NewestIsThere
<1> QED BY <1>1, <1>4, <1>5 DEF got

LEMMA IngestStep ==
    ASSUME LifecycleInv, NEW c \in Tasks, NEW s \in Symbols, NEW p \in Prices,
           IngestTick(c, s, p)
    PROVE  StepOK
<1> DEFINE t == [Idle EXCEPT !.pc = "read", !.symbol = s, !.px = p]
<1>1. t \in CloserRec /\ t.pc = "read" /\ t.px = p
  BY IdleType DEF CloserRec
<1> HIDE DEF t
<1>2. CloserOf(book, t) /\ t.pc \notin Closing
  BY <1>1 DEF CloserOf, Closing
<1>3. closer' = [closer EXCEPT ![c] = t]
  BY DEF IngestTick, t
<1>4. ClosersOf(book, closer')
  BY <1>2, <1>3, SetCloser DEF LifecycleInv
<1>5. EngineStep
  BY EngineRests DEF IngestTick, LifecycleInv
<1>6. quote' \in [Symbols -> Prices \cup {0}]
  BY DEF IngestTick, LifecycleInv
<1>7. UNCHANGED <<book, rec, eval, early, revive>>
  BY DEF IngestTick, bootVars
<1> QED BY <1>4, <1>5, <1>6, <1>7, BookRests, Carried

LEMMA TickReadsStep ==
    ASSUME LifecycleInv, NEW c \in Tasks, CheckSignalExitForTick(c)
    PROVE  StepOK
<1> DEFINE i == GetActiveFuturesSignalBySymbol(closer[c].symbol)
           reason == Resolution(book[i].terms, book[i].stop, closer[c].px)
           t == [closer[c] EXCEPT !.pc = "settle", !.id = i, !.reason = reason,
                                  !.resolved = book[i].resolved]
<1>1. CloserOf(book, closer[c]) /\ Rows(book) /\ DOMAIN closer = Tasks
  BY DEF LifecycleInv, ClosersOf
<1>2. closer[c] \in CloserRec /\ closer[c].px \in Prices
  BY <1>1 DEF CloserOf, CheckSignalExitForTick
<1>3. ASSUME i # 0, reason # "NONE" PROVE CloserOf(book, t) /\ t.reason \in Levels
  <2>1. i \in 1..Len(book) /\ SymbolOf(i) = closer[c].symbol
    BY <1>3, NewestRow
  <2>2. book[i] \in Row /\ book[i].stop \in Nat /\ closer[c].px \in Nat /\ i \in Nat
    BY <1>1, <1>2, <2>1, RowOf, PricesAreNat
  <2>3. reason \in {"TAKE_PROFIT", "STOP_LOSS"} /\ Explains(book[i], closer[c].px, reason)
    BY <1>1, <1>3, <2>1, <2>2, HitExplains DEF NotWider
  <2>4. reason \in CloseReasons /\ book[i].resolved \in BOOLEAN
    BY <2>2, <2>3 DEF CloseReasons, Row
  <2> HIDE DEF i, reason
  <2>5. /\ t \in CloserRec /\ t.pc = "settle" /\ t.id = i /\ t.reason = reason
        /\ t.px = closer[c].px /\ t.symbol = closer[c].symbol
    BY <1>2, <2>2, <2>4 DEF CloserRec, Closing
  <2> HIDE DEF t
  <2> QED BY <1>2, <2>1, <2>3, <2>4, <2>5 DEF CloserOf, Levels, SymbolOf
<1>4. \/ closer' = [closer EXCEPT ![c] = Idle]
      \/ i # 0 /\ reason # "NONE" /\ closer' = [closer EXCEPT ![c] = t]
  <2>1. closer' = [closer EXCEPT ![c] = IF i # 0 /\ reason # "NONE" THEN t ELSE Idle]
    BY DEF CheckSignalExitForTick
  <2> HIDE DEF i, reason, t
  <2> QED BY <2>1
<1> HIDE DEF i, reason, t
<1>5. ClosersOf(book, closer')
  BY <1>3, <1>4, IdleCloser, SetCloser DEF LifecycleInv
<1>6. EngineStep
  BY EngineRests DEF CheckSignalExitForTick, LifecycleInv
<1>7. UNCHANGED <<book, quote, rec, eval, early, revive>>
  BY DEF CheckSignalExitForTick, bootVars
<1>8. quote' \in [Symbols -> Prices \cup {0}]
  BY <1>7 DEF LifecycleInv
<1> QED BY <1>5, <1>6, <1>7, <1>8, BookRests, Carried

LEMMA ManualStep ==
    ASSUME LifecycleInv, NEW c \in Tasks, NEW i \in Ids, NEW p \in Prices,
           CloseFuturesSignalHandler(c, i, p), c \in ManualTasks
    PROVE  StepOK
<1> DEFINE t == [Idle EXCEPT !.pc = "settle", !.id = i, !.symbol = SymbolOf(i), !.px = p,
                             !.reason = "MANUAL_EXIT"]
<1>1. i \in 1..Len(book) /\ i \in Nat /\ SymbolOf(i) \in Symbols /\ p \in Nat /\ p > 0
  BY RowOf, LifecycleAssumption DEF Ids, LifecycleInv, SymbolOf
<1>2. /\ t \in CloserRec /\ t.pc = "settle" /\ t.px = p /\ t.id = i
      /\ t.reason = "MANUAL_EXIT" /\ t.symbol = SymbolOf(i)
  BY <1>1, IdleType DEF CloserRec, CloseReasons, Closing
<1>3. closer' = [closer EXCEPT ![c] = t]
  BY DEF CloseFuturesSignalHandler
<1> HIDE DEF t
<1>4. CloserOf(book, t)
  BY <1>1, <1>2 DEF CloserOf, CloseReasons, Explains, SymbolOf
<1>5. ClosersOf(book, closer')
  BY <1>3, <1>4, SetCloser, LifecycleAssumption DEF LifecycleInv
<1>6. EngineStep
  BY EngineRests DEF CloseFuturesSignalHandler, LifecycleInv
<1>7. UNCHANGED <<book, quote, rec, eval, early, revive>>
  BY DEF CloseFuturesSignalHandler, bootVars
<1>8. quote' \in [Symbols -> Prices \cup {0}]
  BY <1>7 DEF LifecycleInv
<1> QED BY <1>5, <1>6, <1>7, <1>8, BookRests, Carried

\* A closer's write goes on explaining the row, for its own next write too.
LEMMA CloserWrites ==
    ASSUME LifecycleInv, NEW c \in Tasks, closer[c].pc \in {"settle", "rewrite"},
           CloseFuturesSignal(closer[c].id, closer[c].px, closer[c].reason)
    PROVE  Rows(book') /\ Grows(book, book')
<1> DEFINE t == closer[c]
<1>1. Rows(book) /\ CloserOf(book, t)
  BY DEF LifecycleInv, ClosersOf
<1>2. /\ t.id \in 1..Len(book) /\ t.px \in Prices \cup {0} /\ t.reason \in CloseReasons
      /\ Explains(book[t.id], t.px, t.reason)
  BY <1>1 DEF CloserOf, CloserRec, Closing
<1>3. book' = [book EXCEPT ![t.id].status = "CLOSED", ![t.id].exit = t.px,
                           ![t.id].reason = t.reason]
  BY DEF CloseFuturesSignal
<1> HIDE DEF t
<1> QED BY <1>1, <1>2, <1>3, CloseWrite

\* A task that goes on to its next call.
LEMMA CloserGoesOn ==
    ASSUME LifecycleInv, Rows(book'), Grows(book, book'), NEW c \in Tasks,
           closer[c].pc \in {"settle", "rewrite", "engine"},
           NEW pc \in {"rewrite", "engine", "tell"}, closer[c].pc = "engine" => pc = "tell",
           closer' = [closer EXCEPT ![c].pc = pc],
           closer[c].pc = "settle" => book'[closer[c].id].status # "ACTIVE"
    PROVE  ClosersOf(book', closer')
<1>1. ClosersOf(book', closer)
  BY StillClosers DEF LifecycleInv
<1>2. CloserOf(book', closer[c]) /\ DOMAIN closer = Tasks
  BY <1>1 DEF ClosersOf
<1> DEFINE t == [closer[c] EXCEPT !.pc = pc]
<1>3. CloserOf(book', t) /\ t.reason = closer[c].reason /\ closer[c].pc \in Closing
  <2>1. /\ closer[c].pc \in Closing /\ closer[c] \in CloserRec
        /\ book'[closer[c].id].status # "ACTIVE"
    BY <1>2 DEF CloserOf, Closing
  <2>2. /\ t \in CloserRec /\ t.pc = pc /\ t.id = closer[c].id /\ t.px = closer[c].px
        /\ t.reason = closer[c].reason /\ t.symbol = closer[c].symbol
    BY <2>1 DEF CloserRec, Closing
  <2> HIDE DEF t
  <2> QED BY <1>2, <2>1, <2>2 DEF CloserOf, Closing
<1>4. closer' = [closer EXCEPT ![c] = t]
  OBVIOUS
<1> HIDE DEF t
<1>5. ASSUME NEW d \in Tasks PROVE CloserOf(book', closer'[d])
  BY <1>1, <1>2, <1>3, <1>4 DEF ClosersOf
<1>6. DOMAIN closer' = Tasks
  BY <1>2, <1>4
<1>7. ASSUME NEW d \in TickTasks, closer'[d].pc \in Closing PROVE closer'[d].reason \in Levels
  BY <1>1, <1>2, <1>3, <1>4, <1>7 DEF ClosersOf, Tasks
<1> QED BY <1>5, <1>6, <1>7 DEF ClosersOf

LEMMA CloserStops ==
    ASSUME LifecycleInv, Rows(book'), Grows(book, book'), NEW c \in Tasks,
           closer' = [closer EXCEPT ![c] = Idle]
    PROVE  ClosersOf(book', closer')
<1>1. ClosersOf(book', closer)
  BY StillClosers DEF LifecycleInv
<1> QED BY <1>1, IdleCloser, SetCloser

LEMMA SettlesStep ==
    ASSUME LifecycleInv, NEW c \in Tasks, CloserSettles(c)
    PROVE  StepOK
<1>1. Rows(book') /\ Grows(book, book')
  BY CloserWrites, BookRests DEF CloserSettles
<1>2. ClosersOf(book', closer')
  <2>1. CASE closer' = [closer EXCEPT ![c] = Idle]
    BY <1>1, <2>1, CloserStops
  <2>2. CASE closer' = [closer EXCEPT ![c].pc = IF c \in TickTasks THEN "rewrite" ELSE "engine"]
    <3> DEFINE pc == IF c \in TickTasks THEN "rewrite" ELSE "engine"
    <3>1. pc \in {"rewrite", "engine", "tell"} /\ closer' = [closer EXCEPT ![c].pc = pc]
          /\ closer[c].pc = "settle"
      BY <2>2 DEF CloserSettles
    <3>2. book'[closer[c].id].status # "ACTIVE"
      <4>1. closer[c].id \in 1..Len(book)
        BY <3>1 DEF LifecycleInv, ClosersOf, CloserOf, Closing
      <4>2. CASE CloseFuturesSignal(closer[c].id, closer[c].px, closer[c].reason)
        BY <4>1, <4>2, WrittenStatus
      <4>3. CASE closer' = [closer EXCEPT ![c] = Idle]
        <5>1. closer'[c].pc = pc /\ closer'[c].pc = "idle"
          BY <3>1, <4>3, IdleType DEF LifecycleInv, ClosersOf, CloserOf, CloserRec
        <5> QED BY <3>1, <5>1
      <4> QED BY <2>2, <4>2, <4>3 DEF CloserSettles
    <3> HIDE DEF pc
    <3> QED BY <1>1, <3>1, <3>2, CloserGoesOn
  <2> QED BY <2>1, <2>2 DEF CloserSettles
<1>3. EngineStep
  BY EngineRests DEF CloserSettles, LifecycleInv
<1>4. UNCHANGED <<quote, rec, eval, early, revive>>
  BY DEF CloserSettles, bootVars
<1>5. quote' \in [Symbols -> Prices \cup {0}]
  BY <1>4 DEF LifecycleInv
<1> QED BY <1>1, <1>2, <1>3, <1>4, <1>5, Carried

LEMMA RewritesStep ==
    ASSUME LifecycleInv, NEW c \in Tasks, TickRewrites(c)
    PROVE  StepOK
<1>1. Rows(book') /\ Grows(book, book')
  BY CloserWrites, BookRests DEF TickRewrites
<1>2. ClosersOf(book', closer')
  BY <1>1, CloserGoesOn DEF TickRewrites
<1>3. EngineStep
  BY EngineRests DEF TickRewrites, LifecycleInv
<1>4. UNCHANGED <<quote, rec, eval, early, revive>>
  BY DEF TickRewrites, bootVars
<1>5. quote' \in [Symbols -> Prices \cup {0}]
  BY <1>4 DEF LifecycleInv
<1> QED BY <1>1, <1>2, <1>3, <1>4, <1>5, Carried

LEMMA ExitsStep ==
    ASSUME LifecycleInv, NEW c \in Tasks, CloserExits(c)
    PROVE  StepOK
<1>1. closer[c].pc = "engine" /\ CloserOf(book, closer[c]) /\ orderCounter \in Nat
  BY DEF CloserExits, LifecycleInv, ClosersOf
<1>2. closer[c].symbol \in Symbols /\ closer[c].px \in Prices
  BY <1>1 DEF CloserOf, CloserRec
<1>3. EngineStep
  <2>1. CASE c \in TickTasks
    BY <1>1, <1>2, <2>1, CheckStep DEF CloserExits
  <2>2. CASE c \notin TickTasks
    BY <1>1, <1>2, <2>2, ForceStep DEF CloserExits
  <2> QED BY <2>1, <2>2
<1>4. UNCHANGED <<book, quote, rec, eval, early, revive>>
  BY DEF CloserExits, bootVars
<1>5. Rows(book') /\ Grows(book, book')
  BY <1>4, BookRests
<1>6. ClosersOf(book', closer')
  BY <1>1, <1>5, CloserGoesOn DEF CloserExits
<1>7. quote' \in [Symbols -> Prices \cup {0}]
  BY <1>4 DEF LifecycleInv
<1> QED BY <1>3, <1>4, <1>5, <1>6, <1>7, Carried

LEMMA TellsStep ==
    ASSUME LifecycleInv, NEW c \in Tasks, CloserTells(c)
    PROVE  StepOK
<1>1. closer[c].id \in 1..Len(book) /\ Rows(book)
  BY DEF CloserTells, LifecycleInv, ClosersOf, CloserOf, Closing
<1>2. Rows(book') /\ Grows(book, book')
  <2>1. CASE UNCHANGED book
    BY <2>1, BookRests
  <2>2. CASE MarkSignalResolved(closer[c].id)
    BY <1>1, <2>2, ResolvedWrite DEF MarkSignalResolved
  <2> QED BY <2>1, <2>2 DEF CloserTells
<1>3. ClosersOf(book', closer')
  BY <1>2, CloserStops DEF CloserTells
<1>4. EngineStep
  BY EngineRests DEF CloserTells, LifecycleInv
<1>5. UNCHANGED <<quote, rec, eval, early, revive>>
  BY DEF CloserTells, bootVars
<1>6. quote' \in [Symbols -> Prices \cup {0}]
  BY <1>5 DEF LifecycleInv
<1> QED BY <1>2, <1>3, <1>4, <1>5, <1>6, Carried

---------------------------------------------------------------------------
(* The reconciler's steps *)

LEMMA ListActiveOK ==
    ASSUME LifecycleInv
    PROVE  ListOf(book, ListActive) /\ DOMAIN ListActive \subseteq 1..Len(book)
<1>1. ASSUME NEW i \in 1..Len(book)
      PROVE  SnapOf(book, Snapshot(i)) /\ Snapshot(i).id = i
  BY RowOf DEF SnapOf, Snapshot, NotWider, LifecycleInv, RowOK, Row
<1>2. DOMAIN ListActive \subseteq 1..Len(book)
  BY DEF ListActive, Ids
<1>3. \A i \in DOMAIN ListActive : ListActive[i] = Snapshot(i)
  BY DEF ListActive
<1> QED BY <1>1, <1>2, <1>3 DEF ListOf

LEMMA ListsStep ==
    ASSUME LifecycleInv, ReconcileActiveSignals
    PROVE  StepOK
<1>1. UNCHANGED <<book, quote, closer, eval, early, revive>> /\ UNCHANGED engineVars
  BY DEF ReconcileActiveSignals, recFrame
<1>2. Rows(book') /\ Grows(book, book')
  BY <1>1, BookRests
<1>3. rec' = rec \/ RecOf(book', rec')
  <2>1. CASE rec' = rec
    BY <2>1
  <2>2. CASE rec' = [Resting EXCEPT !.pc = "item", !.todo = ListActive]
    <3> DEFINE todo == ListActive
               u == [Resting EXCEPT !.pc = "item", !.todo = todo]
    <3>1. ListOf(book, todo) /\ DOMAIN todo \subseteq 1..Len(book)
      BY ListActiveOK
    <3>2. rec' = u
      BY <2>2
    <3> HIDE DEF todo
    <3>3. /\ DOMAIN u = RecFields /\ u.pc = "item" /\ u.todo = todo /\ u.px = 0
          /\ u.via = "none"
      BY DEF Resting, RecFields
    <3> HIDE DEF u
    <3>4. RecOf(book, u)
      BY <3>1, <3>3 DEF RecOf, RecPlaces
    <3> QED BY <1>1, <3>2, <3>4
  <2> QED BY <2>1, <2>2 DEF ReconcileActiveSignals
<1>4. EngineStep
  BY <1>1, EngineRests DEF LifecycleInv
<1>5. quote' \in [Symbols -> Prices \cup {0}]
  BY <1>1 DEF LifecycleInv
<1> QED BY <1>1, <1>2, <1>3, <1>4, <1>5, Carried

\* A step of the reconciler that calls neither the engine nor writes.
LEMMA RecOnly ==
    ASSUME LifecycleInv, UNCHANGED <<book, engineVars>>, recFrame, RecOf(book, rec')
    PROVE  StepOK
<1>1. UNCHANGED <<quote, closer, eval, early, revive>>
  BY DEF recFrame
<1>2. Rows(book') /\ Grows(book, book') /\ RecOf(book', rec')
  BY BookRests
<1>3. EngineStep
  BY EngineRests DEF LifecycleInv
<1>4. quote' \in [Symbols -> Prices \cup {0}]
  BY <1>1 DEF LifecycleInv
<1> QED BY <1>1, <1>2, <1>3, <1>4, Carried

\* A step of the reconciler that may write.
LEMMA RecWrote ==
    ASSUME LifecycleInv, UNCHANGED engineVars, recFrame, Rows(book'), Grows(book, book'),
           RecOf(book', rec')
    PROVE  StepOK
<1>1. UNCHANGED <<quote, closer, eval, early, revive>>
  BY DEF recFrame
<1>2. EngineStep
  BY EngineRests DEF LifecycleInv
<1>3. quote' \in [Symbols -> Prices \cup {0}]
  BY <1>1 DEF LifecycleInv
<1> QED BY <1>1, <1>2, <1>3, Carried

LEMMA RecCurrent ==
    ASSUME LifecycleInv, DOMAIN rec.todo # {}
    PROVE  /\ Rows(book) /\ RecOf(book, rec) /\ Current(rec.todo).id \in 1..Len(book)
           /\ SymbolOf(Current(rec.todo).id) \in Symbols
<1>1. Rows(book) /\ RecOf(book, rec)
  BY DEF LifecycleInv
<1>2. Current(rec.todo).id \in 1..Len(book)
  BY <1>1, CurrentRow DEF RecOf
<1> QED BY <1>1, <1>2, RowOf DEF SymbolOf

LEMMA VisitsStep ==
    ASSUME LifecycleInv, RecVisits
    PROVE  StepOK
<1>1. quote[SymbolOf(Current(rec.todo).id)] \in Prices \cup {0}
  BY RecCurrent DEF LifecycleInv, RecVisits
<1>2. RecOf(book, rec')
  BY <1>1, VisitRec DEF RecVisits
<1> QED BY <1>2, RecOnly DEF RecVisits

LEMMA RecCloses ==
    ASSUME LifecycleInv, rec.pc \in {"settle", "rewrite"},
           CloseFuturesSignal(Current(rec.todo).id, rec.px, rec.reason)
    PROVE  Rows(book') /\ Grows(book, book')
<1> DEFINE i == Current(rec.todo).id
<1>1. Rows(book) /\ i \in 1..Len(book) /\ RecOf(book, rec)
  BY RecCurrent DEF RecOf, LifecycleInv
<1>2. rec.px \in Prices \cup {0} /\ rec.reason \in CloseReasons
      /\ Explains(book[i], rec.px, rec.reason)
  BY <1>1 DEF RecOf, Levels, CloseReasons
<1>3. book' = [book EXCEPT ![i].status = "CLOSED", ![i].exit = rec.px, ![i].reason = rec.reason]
  BY DEF CloseFuturesSignal
<1> HIDE DEF i
<1> QED BY <1>1, <1>2, <1>3, CloseWrite

LEMMA RecSettlesStep ==
    ASSUME LifecycleInv, RecSettles
    PROVE  StepOK
<1>1. rec.pc = "settle" /\ RecOf(book, rec) /\ DOMAIN rec.todo # {}
  BY DEF RecSettles, LifecycleInv, RecOf
<1>2. UNCHANGED engineVars /\ recFrame
  BY DEF RecSettles
<1>3. CASE /\ CloseFuturesSignal(Current(rec.todo).id, rec.px, rec.reason)
           /\ rec' = [rec EXCEPT !.pc = IF rec.via = "level" THEN "rewrite" ELSE "engine"]
  <2> DEFINE pc == IF rec.via = "level" THEN "rewrite" ELSE "engine"
  <2>1. Rows(book') /\ Grows(book, book')
    BY <1>1, <1>3, RecCloses
  <2>2. RecOf(book', rec)
    BY <1>1, <2>1, StillRec DEF LifecycleInv
  <2>3. pc \in {"rewrite", "engine"} /\ rec' = [rec EXCEPT !.pc = pc]
    BY <1>3
  <2> HIDE DEF pc
  <2>4. RecOf(book', rec')
    BY <1>1, <2>2, <2>3, RecMoves
  <2> QED BY <1>2, <2>1, <2>4, RecWrote
<1>4. CASE UNCHANGED book /\ rec.via = "level" /\ rec' = applyDecayState(Current(rec.todo), rec.px)
  <2>1. rec.px \in Prices
    BY <1>1, <1>4 DEF RecOf
  <2>2. RecOf(book, rec')
    BY <1>1, <1>4, <2>1, DecayRec
  <2> QED BY <1>2, <1>4, <2>2, RecOnly
<1>5. CASE UNCHANGED book /\ rec' = [rec EXCEPT !.pc = "engine"]
  <2>1. RecOf(book, rec')
    BY <1>1, <1>5, RecMoves
  <2> QED BY <1>2, <1>5, <2>1, RecOnly
<1>6. CASE UNCHANGED book /\ rec' = NextItem
  <2>1. RecOf(book, rec')
    BY <1>1, <1>6, RecNext
  <2> QED BY <1>2, <1>6, <2>1, RecOnly
<1> QED BY <1>3, <1>4, <1>5, <1>6 DEF RecSettles

LEMMA RecRewritesStep ==
    ASSUME LifecycleInv, RecRewrites
    PROVE  StepOK
<1>1. rec.pc = "rewrite" /\ RecOf(book, rec)
  BY DEF RecRewrites, LifecycleInv
<1>2. Rows(book') /\ Grows(book, book')
  BY <1>1, RecCloses, BookRests DEF RecRewrites
<1>3. RecOf(book', rec)
  BY <1>1, <1>2, StillRec DEF LifecycleInv
<1>4. RecOf(book', rec')
  BY <1>1, <1>3, RecMoves DEF RecRewrites
<1> QED BY <1>2, <1>4, RecWrote DEF RecRewrites

LEMMA RecExitsStep ==
    ASSUME LifecycleInv, RecExits
    PROVE  StepOK
<1> DEFINE s == SymbolOf(Current(rec.todo).id)
<1>1. /\ RecOf(book, rec) /\ DOMAIN rec.todo # {} /\ s \in Symbols /\ orderCounter \in Nat
  BY RecCurrent DEF RecExits, LifecycleInv, RecOf
<1>2. EngineStep
  <2>1. CASE rec.via = "level"
    BY <1>1, <2>1, CheckStep DEF RecExits, RecOf
  <2>2. CASE rec.via # "level"
    BY <1>1, <2>2, ForceStep DEF RecExits, RecOf
  <2> QED BY <2>1, <2>2
<1>3. RecOf(book, rec')
  BY <1>1, RecGoesOn, RecNext DEF RecExits
<1>4. UNCHANGED <<book, quote, closer, eval, early, revive>>
  BY DEF RecExits, recFrame
<1>5. Rows(book') /\ Grows(book, book')
  BY <1>4, BookRests
<1>6. quote' \in [Symbols -> Prices \cup {0}] /\ RecOf(book', rec')
  BY <1>3, <1>4 DEF LifecycleInv
<1> QED BY <1>2, <1>4, <1>5, <1>6, Carried

LEMMA RecMarksStep ==
    ASSUME LifecycleInv, RecMarks
    PROVE  StepOK
<1>1. RecOf(book, rec) /\ DOMAIN rec.todo # {}
  BY DEF RecMarks, LifecycleInv, RecOf
<1>2. Rows(book') /\ Grows(book, book')
  <2>1. CASE UNCHANGED book
    BY <2>1, BookRests
  <2>2. CASE UpdateSignalDecay(Current(rec.todo).id, "CLOSED")
    BY <1>1, <2>2, RecCurrent, DecayWrite DEF UpdateSignalDecay, DecayStates
  <2> QED BY <2>1, <2>2 DEF RecMarks
<1>3. RecOf(book', rec')
  BY <1>1, <1>2, StillRec, RecNext DEF RecMarks, LifecycleInv
<1> QED BY <1>2, <1>3, RecWrote DEF RecMarks

LEMMA RecMovesStopStep ==
    ASSUME LifecycleInv, RecMovesStop
    PROVE  StepOK
<1>1. RecOf(book, rec) /\ DOMAIN rec.todo # {}
  BY DEF RecMovesStop, LifecycleInv, RecOf
<1>2. Rows(book') /\ Grows(book, book')
  <2>1. CASE UNCHANGED book
    BY <2>1, BookRests
  <2>2. CASE UpdateSignalStop(Current(rec.todo).id,
                              BreakevenStopPrice(book[Current(rec.todo).id].terms, Fees))
    BY <1>1, <2>2, RecCurrent, StopWrite DEF UpdateSignalStop
  <2> QED BY <2>1, <2>2 DEF RecMovesStop
<1>3. RecOf(book', rec)
  BY <1>1, <1>2, StillRec DEF LifecycleInv
<1>4. RecOf(book', rec')
  <2>1. CASE rec' = NextItem
    BY <1>3, <2>1, RecNext
  <2>2. CASE rec' = [rec EXCEPT !.pc = "protect"]
    BY <1>1, <1>3, <2>2, RecGoesOn
  <2> QED BY <2>1, <2>2 DEF RecMovesStop
<1>5. UNCHANGED engineVars /\ recFrame
  BY DEF RecMovesStop
<1> QED BY <1>2, <1>4, <1>5, RecWrote

LEMMA RecSavesDecayStep ==
    ASSUME LifecycleInv, RecSavesDecay
    PROVE  StepOK
<1>1. RecOf(book, rec) /\ DOMAIN rec.todo # {}
  BY DEF RecSavesDecay, LifecycleInv, RecOf
<1>2. Rows(book') /\ Grows(book, book')
  <2>1. CASE UNCHANGED book
    BY <2>1, BookRests
  <2>2. CASE UpdateSignalDecay(Current(rec.todo).id, "BREAKEVEN")
    BY <1>1, <2>2, RecCurrent, DecayWrite DEF UpdateSignalDecay, DecayStates
  <2> QED BY <2>1, <2>2 DEF RecSavesDecay
<1>3. RecOf(book', rec')
  BY <1>1, <1>2, StillRec, RecNext DEF RecSavesDecay, LifecycleInv
<1> QED BY <1>2, <1>3, RecWrote DEF RecSavesDecay

LEMMA RecRestsStep ==
    ASSUME LifecycleInv, RecRests
    PROVE  StepOK
<1>1. RecOf(book, rec')
  BY RestingRec DEF RecRests
<1> QED BY <1>1, RecOnly DEF RecRests

---------------------------------------------------------------------------
(* Evaluators, the engine-only closers, boot, restart and time *)

LEMMA EvaluatesStep ==
    ASSUME LifecycleInv, NEW e \in Evaluators, NEW o \in Offers, EvaluateSymbolSignal(e, o)
    PROVE  StepOK
<1> DEFINE i == GetActiveFuturesSignalBySymbol(o.symbol)
           found == [Pending EXCEPT !.pc = "ensure", !.snap = Snapshot(i)]
           new == [Pending EXCEPT !.pc = "insert", !.offer = o]
<1>1. Rows(book) /\ EvalsOf(book, eval)
  BY DEF LifecycleInv
<1>2. ASSUME i # 0 PROVE EvalOf(book, found)
  <2>1. i \in 1..Len(book)
    BY <1>2, NewestRow
  <2>2. SnapOf(book, Snapshot(i))
    BY <1>1, <2>1, RowOf DEF SnapOf, Snapshot, NotWider, RowOK, Row
  <2>3. /\ found.pc = "ensure"
        /\ found.offer \in Offers /\ found.snap = Snapshot(i)
    BY LifecycleAssumption DEF Pending
  <2> HIDE DEF found, i
  <2> QED BY <2>2, <2>3 DEF EvalOf
<1>3. EvalOf(book, new)
  <2>1. /\ new.pc = "insert" /\ new.offer = o
    BY DEF Pending
  <2> HIDE DEF new
  <2> QED BY <2>1 DEF EvalOf
<1>4. \/ i # 0 /\ eval' = [eval EXCEPT ![e] = found]
      \/ eval' = [eval EXCEPT ![e] = new]
  BY DEF EvaluateSymbolSignal
<1> HIDE DEF i, found, new
<1>5. EvalsOf(book, eval')
  BY <1>1, <1>2, <1>3, <1>4, SetEval
<1>6. UNCHANGED <<book, quote, closer, rec, early, revive>> /\ UNCHANGED engineVars
  BY DEF EvaluateSymbolSignal, evalFrame, bootVars
<1>7. EngineStep
  BY <1>6, EngineRests DEF LifecycleInv
<1>8. quote' \in [Symbols -> Prices \cup {0}] /\ EvalsOf(book', eval')
  BY <1>5, <1>6 DEF LifecycleInv
<1> QED BY <1>6, <1>7, <1>8, BookRests, Carried

LEMMA InsertStep ==
    ASSUME LifecycleInv, NEW e \in Evaluators, InsertFuturesSignal(e)
    PROVE  StepOK
<1> DEFINE o == eval[e].offer
           row == [terms |-> o, stop |-> o.stop, status |-> "ACTIVE", decay |-> "NONE",
                   exit |-> 0, reason |-> "NONE", resolved |-> FALSE, age |-> 0]
           snap == [id |-> Len(book) + 1, stop |-> o.stop, decay |-> "NONE"]
           v == [Pending EXCEPT !.pc = "ensure", !.snap = snap]
<1>1. Rows(book) /\ EvalsOf(book, eval) /\ o \in Offers /\ Len(book) \in Nat
  BY DEF LifecycleInv, EvalsOf, EvalOf, Rows
<1>2. UNCHANGED <<quote, closer, rec, early, revive>> /\ UNCHANGED engineVars
  BY DEF InsertFuturesSignal, evalFrame, bootVars
<1>3. EngineStep
  BY <1>2, EngineRests DEF LifecycleInv
<1>4. quote' \in [Symbols -> Prices \cup {0}]
  BY <1>2 DEF LifecycleInv
<1>5. CASE UNCHANGED book /\ eval' = [eval EXCEPT ![e] = Pending]
  <2>1. EvalsOf(book', eval')
    BY <1>1, <1>5, PendingEval, SetEval
  <2> QED BY <1>2, <1>3, <1>4, <1>5, <2>1, BookRests, Carried
<1>6. CASE book' = Append(book, row) /\ eval' = [eval EXCEPT ![e] = v]
  <2>1. RowOK(row)
    <3>1. o.stop \in Nat /\ 0 \in 0..AgeBound
      BY <1>1, OfferType, LifecycleAssumption
    <3>2. row \in Row
      BY <1>1, <3>1 DEF Row, DecayStates
    <3> QED BY <3>2 DEF RowOK, StopsOf
  <2>2. row.terms = o /\ row.stop = o.stop
    OBVIOUS
  <2> HIDE DEF row
  <2>3. Rows(book') /\ Grows(book, book') /\ Len(book') = Len(book) + 1
        /\ book'[Len(book) + 1] = row
    BY <1>1, <1>6, <2>1, AppendWrite
  <2>4. SnapOf(book', snap)
    BY <1>1, <2>2, <2>3 DEF SnapOf, StopsOf, NotWider, DecayStates
  <2> HIDE DEF snap
  <2>5. v.pc = "ensure" /\ v.snap = snap /\ v.offer \in Offers
    BY LifecycleAssumption DEF Pending
  <2> HIDE DEF v
  <2>6. EvalOf(book', v)
    BY <2>4, <2>5 DEF EvalOf
  <2>7. EvalsOf(book', eval)
    BY <1>1, <2>3, StillEvals
  <2>8. EvalsOf(book', eval')
    BY <1>6, <2>6, <2>7 DEF EvalsOf
  <2> QED BY <1>2, <1>3, <1>4, <2>3, <2>8, Carried
<1> QED BY <1>5, <1>6 DEF InsertFuturesSignal

LEMMA EnsuresStep ==
    ASSUME LifecycleInv, NEW e \in Evaluators, EvaluatorEnsures(e)
    PROVE  StepOK
<1>1. UNCHANGED <<book, quote, closer, rec, early, revive>>
  BY DEF EvaluatorEnsures, evalFrame, bootVars
<1>2. EvalsOf(book, eval) /\ SnapOf(book, eval[e].snap) /\ orderCounter \in Nat
  BY DEF EvaluatorEnsures, LifecycleInv, EvalsOf, EvalOf
<1>3. orderCounter < MaxOrders + MaxSignals
  BY <1>2, LifecycleAssumption DEF EvaluatorEnsures
<1>4. EngineStep
  BY <1>2, <1>3, EnsureStep DEF EvaluatorEnsures
<1>5. EvalsOf(book', eval')
  BY <1>1, <1>2, PendingEval, SetEval DEF EvaluatorEnsures
<1>6. quote' \in [Symbols -> Prices \cup {0}]
  BY <1>1 DEF LifecycleInv
<1> QED BY <1>1, <1>4, <1>5, <1>6, BookRests, Carried

\* A step of the daemon or the early-exit worker.
LEMMA EngineOnly ==
    ASSUME LifecycleInv, EngineStep, engineFrame, early' \subseteq Symbols
    PROVE  StepOK
<1>1. UNCHANGED <<book, quote, closer, rec, eval, revive>>
  BY DEF engineFrame, bootVars
<1>2. quote' \in [Symbols -> Prices \cup {0}]
  BY <1>1 DEF LifecycleInv
<1> QED BY <1>1, <1>2, BookRests, Carried

LEMMA ProcessTickStep ==
    ASSUME LifecycleInv, NEW s \in Symbols, ProcessTick(s)
    PROVE  StepOK
<1>1. quote[s] \in Prices /\ orderCounter \in Nat /\ early' \subseteq Symbols
  BY DEF ProcessTick, LifecycleInv
<1>2. EngineStep
  BY <1>1, CheckStep DEF ProcessTick
<1> QED BY <1>1, <1>2, EngineOnly DEF ProcessTick

LEMMA VerdictStep ==
    ASSUME LifecycleInv, NEW s \in Symbols, ProcessEarlyExitVerdict(s)
    PROVE  StepOK
<1>1. orderCounter \in Nat /\ early' \subseteq Symbols /\ engineFrame
  BY DEF ProcessEarlyExitVerdict, LifecycleInv
<1>2. EngineStep
  BY <1>1, ForceStep, EngineRests DEF ProcessEarlyExitVerdict
<1> QED BY <1>1, <1>2, EngineOnly

LEMMA CycleStep ==
    ASSUME LifecycleInv, EvaluateCycle
    PROVE  StepOK
<1>1. orderCounter \in Nat /\ early' \subseteq Symbols
  BY DEF EvaluateCycle, LifecycleInv
<1>2. EngineStep
  BY <1>1, EngineRests DEF EvaluateCycle
<1> QED BY <1>1, <1>2, EngineOnly DEF EvaluateCycle

LEMMA RehydrateListsStep ==
    ASSUME LifecycleInv, RehydrateLists
    PROVE  StepOK
<1>1. UNCHANGED <<book, quote, closer, rec, eval, early>> /\ UNCHANGED engineVars
  BY DEF RehydrateLists, bootFrame, taskVars
<1>2. ListOf(book, revive') /\ DOMAIN revive' \subseteq 1..Len(book)
  <2>1. CASE revive' = ListActive
    BY <2>1, ListActiveOK
  <2>2. CASE revive' = << >>
    <3>1. DOMAIN revive' = {}
      BY <2>2
    <3> QED BY <3>1 DEF ListOf
  <2> QED BY <2>1, <2>2 DEF RehydrateLists
<1>3. ListOf(book', revive') /\ DOMAIN revive' \subseteq 1..Len(book')
  BY <1>1, <1>2
<1>4. EngineStep
  BY <1>1, EngineRests DEF LifecycleInv
<1>5. quote' \in [Symbols -> Prices \cup {0}]
  BY <1>1 DEF LifecycleInv
<1> QED BY <1>1, <1>3, <1>4, <1>5, BookRests, Carried

LEMMA RehydrateOpensStep ==
    ASSUME LifecycleInv, RehydrateOpens
    PROVE  StepOK
<1>1. UNCHANGED <<book, quote, closer, rec, eval, early>>
  BY DEF RehydrateOpens, bootFrame, taskVars
<1>2. quote' \in [Symbols -> Prices \cup {0}]
  BY <1>1 DEF LifecycleInv
<1>3. CASE DOMAIN revive = {}
  <2>1. UNCHANGED revive /\ UNCHANGED engineVars
    BY <1>3 DEF RehydrateOpens
  <2>2. EngineStep
    BY <2>1, EngineRests DEF LifecycleInv
  <2> QED BY <1>1, <1>2, <2>1, <2>2, BookRests, Carried
<1>4. CASE DOMAIN revive # {}
  <2>1. Rows(book) /\ ListOf(book, revive) /\ DOMAIN revive \subseteq 1..Len(book)
    BY DEF LifecycleInv
  <2>2. SnapOf(book, Current(revive))
    BY <1>4, <2>1, CurrentRow
  <2>3. EngineStep
    BY <1>4, <2>2, EnsureStep DEF RehydrateOpens
  <2>4. ListOf(book', revive') /\ DOMAIN revive' \subseteq 1..Len(book')
    BY <1>1, <1>4, <2>1, RestOfList DEF RehydrateOpens
  <2> QED BY <1>1, <1>2, <2>3, <2>4, BookRests, Carried
<1> QED BY <1>3, <1>4

LEMMA RestartsStep ==
    ASSUME LifecycleInv, Restart
    PROVE  StepOK
<1>1. book' = book /\ EngineStep
  BY RestartStep DEF Restart
<1>2. ClosersOf(book', closer')
  BY IdleCloser, LifecycleAssumption DEF Restart, ClosersOf, Tasks
<1>3. RecOf(book', rec')
  BY RestingRec DEF Restart
<1>4. EvalsOf(book', eval')
  BY PendingEval DEF Restart, EvalsOf
<1>5. ListOf(book', revive') /\ DOMAIN revive' \subseteq 1..Len(book')
  <2>1. DOMAIN revive' = {}
    BY DEF Restart
  <2> QED BY <2>1 DEF ListOf
<1>6. quote' \in [Symbols -> Prices \cup {0}] /\ early' \subseteq Symbols
  BY DEF Restart, LifecycleInv
<1> QED BY <1>1, <1>2, <1>3, <1>4, <1>5, <1>6, BookRests, Carried

LEMMA PassStep ==
    ASSUME LifecycleInv, Pass
    PROVE  StepOK
<1>1. UNCHANGED <<quote, closer, rec, eval, early, revive>> /\ UNCHANGED engineVars
  BY DEF Pass, taskVars, bootVars
<1>2. Rows(book') /\ Grows(book, book')
  <2>1. Rows(book)
    BY DEF LifecycleInv
  <2>2. book' = [i \in 1..Len(book) |-> [book[i] EXCEPT
                    !.age = IF @ < AgeBound THEN @ + 1 ELSE @]]
    BY DEF Pass, Ids
  <2> QED BY <2>1, <2>2, AgeWrite
<1>3. EngineStep
  BY <1>1, EngineRests DEF LifecycleInv
<1>4. quote' \in [Symbols -> Prices \cup {0}]
  BY <1>1 DEF LifecycleInv
<1> QED BY <1>1, <1>2, <1>3, <1>4, Carried

---------------------------------------------------------------------------
(* Theorems *)

LEMMA InitOK ==
    ASSUME Init
    PROVE  LifecycleInv /\ E!Init
<1>1. Rows(book)
  BY DEF Init, Rows
<1>2. ClosersOf(book, closer) /\ RecOf(book, rec) /\ EvalsOf(book, eval)
  BY IdleCloser, RestingRec, PendingEval DEF Init, ClosersOf, EvalsOf, Tasks
<1>3. ListOf(book, revive) /\ DOMAIN revive \subseteq 1..Len(book)
  <2>1. DOMAIN revive = {}
    BY DEF Init
  <2> QED BY <2>1 DEF ListOf
<1>4. orderCounter \in Nat /\ early \subseteq Symbols /\ E!Init
      /\ quote \in [Symbols -> Prices \cup {0}]
  BY DEF Init, E!Init
<1> QED BY <1>1, <1>2, <1>3, <1>4 DEF LifecycleInv

LEMMA NextOK ==
    ASSUME LifecycleInv, [Next]_vars
    PROVE  StepOK
<1>1. CASE UNCHANGED vars
  <2>1. UNCHANGED <<book, quote, closer, rec, eval, early, revive>> /\ UNCHANGED engineVars
    BY <1>1 DEF vars, taskVars, bootVars
  <2>2. EngineStep
    BY <2>1, EngineRests DEF LifecycleInv
  <2>3. quote' \in [Symbols -> Prices \cup {0}]
    BY <2>1 DEF LifecycleInv
  <2> QED BY <2>1, <2>2, <2>3, BookRests, Carried
<1>2. CASE Ticks
  BY <1>2, IngestStep, TickReadsStep, RewritesStep DEF Ticks, Tasks
<1>3. CASE Manual
  BY <1>3, ManualStep DEF Manual, Tasks
<1>4. CASE Closers
  BY <1>4, SettlesStep, ExitsStep, TellsStep DEF Closers, Tasks
<1>5. CASE Evaluates
  BY <1>5, EvaluatesStep, InsertStep, EnsuresStep DEF Evaluates
<1>6. CASE Engine
  BY <1>6, ProcessTickStep, VerdictStep, CycleStep DEF Engine
<1>7. CASE RecWorks
  BY <1>7, VisitsStep, RecSettlesStep, RecRewritesStep, RecExitsStep, RecMarksStep,
     RecMovesStopStep, RecSavesDecayStep, RecRestsStep DEF RecWorks
<1>8. CASE ReconcileActiveSignals
  BY <1>8, ListsStep
<1>9. CASE RehydrateLists \/ RehydrateOpens
  BY <1>9, RehydrateListsStep, RehydrateOpensStep
<1>10. CASE Restart \/ Pass
  BY <1>10, RestartsStep, PassStep
<1> QED BY <1>1, <1>2, <1>3, <1>4, <1>5, <1>6, <1>7, <1>8, <1>9, <1>10 DEF Next

\* The inductive invariant holds of the signal lifecycle.
THEOREM LifecycleInvariant == Spec => []LifecycleInv
<1>1. Init => LifecycleInv
  BY InitOK
<1>2. LifecycleInv /\ [Next]_vars => LifecycleInv'
  BY NextOK DEF StepOK
<1> QED BY <1>1, <1>2, PTL DEF Spec

\* CloseFuturesSignal looks at no status, so several tasks may write one row's
\* closure one after another; still a closed row says truthfully why it closed.
THEOREM ClosuresAreTrue == Spec => []ClosedRowsExplained
<1>1. LifecycleInv => ClosedRowsExplained
  BY DEF LifecycleInv, Rows, RowOK, ClosedRowsExplained, Ids, Active
<1> QED BY <1>1, LifecycleInvariant, PTL

\* The server reaches the positions only through the engine's operations, with
\* prices, reasons and signals the engine is specified for.
THEOREM ImplementsEngine == Spec => EngineSpec
<1>1. Init => E!Init
  BY InitOK
<1>2. LifecycleInv /\ [Next]_vars => [E!Next]_(E!vars)
  BY NextOK DEF StepOK, EngineStep
<1> QED BY <1>1, <1>2, LifecycleInvariant, PTL DEF Spec, EngineSpec, E!Spec

---------------------------------------------------------------------------
(* Positions and their rows *)

\* Somebody has written, or writes again, the closure of row i and has still
\* to call the engine.
Owed(cl, rc, i) ==
    \/ \E c \in Tasks : cl[c].id = i /\ cl[c].pc \in {"rewrite", "engine"}
    \/ rc.pc \in {"rewrite", "engine"} /\ Current(rc.todo).id = i
ExitOwed(i) == Owed(closer, rec, i)

\* A position was opened for a row of its symbol, on the row's terms; the stop
\* of the row has at most moved towards the price since.
Placed(s) ==
    LET t == positions[s]
        i == owner[s].id
        o == book[i].terms
    IN  /\ i \in 1..Len(book) /\ o.symbol = s
        /\ t.long = o.long /\ t.tp = o.tp /\ t.liq = E!LiquidationPrice(o)
        /\ t.stop \in StopsOf(o) /\ NotWider(o, book[i].stop, t.stop)

\* If that row is closed, somebody owes the engine the exit, or the row was
\* closed from the start, or its stop had moved.
Accounted(s) ==
    LET i == owner[s].id
    IN  book[i].status # "ACTIVE" =>
            \/ ExitOwed(i)
            \/ owner[s].late
            \/ Tighter(book[i].terms, book[i].stop, positions[s].stop)

OwnersInv ==
    /\ DOMAIN positions = Symbols /\ DOMAIN owner = Symbols
    /\ \A s \in Symbols : IF positions[s] = NoTrade THEN owner[s] = NoOwner
                          ELSE Placed(s) /\ Accounted(s)

LEMMA LiquidationIsANumber ==
    ASSUME NEW o \in Offers
    PROVE  E!LiquidationPrice(o) \in Int
<1>1. o.entry \in Int /\ o.leverage \in 1..125
  BY LifecycleAssumption
<1> DEFINE n == o.entry * (1000 - 5 * o.leverage)
           d == 1000 * o.leverage
<1>2. n \in Int
  <2>1. 1000 - 5 * o.leverage \in Int
    BY <1>1
  <2> QED BY <1>1, <2>1
<1>3. d \in Nat \ {0}
  BY <1>1
<1>4. n \div d \in Int
  <2> HIDE DEF n, d
  <2> QED BY <1>2, <1>3
<1> QED BY <1>1, <1>4 DEF E!LiquidationPrice

LEMMA PlacedRow ==
    ASSUME LifecycleInv, OwnersInv, NEW s \in Symbols, positions[s] # NoTrade
    PROVE  LET i == owner[s].id
               o == book[i].terms
           IN  /\ i \in 1..Len(book) /\ i # 0 /\ SymbolOf(i) = s
               /\ o \in Offers /\ book[i].stop \in StopsOf(o) /\ book[i].stop \in Nat
               /\ positions[s].stop \in StopsOf(o) /\ positions[s].stop \in Nat
               /\ NotWider(o, book[i].stop, positions[s].stop)
<1> DEFINE i == owner[s].id
           o == book[i].terms
<1>1. Placed(s) /\ Rows(book)
  BY DEF OwnersInv, LifecycleInv
<1>2. i \in 1..Len(book) /\ o.symbol = s /\ positions[s].stop \in StopsOf(o)
      /\ NotWider(o, book[i].stop, positions[s].stop)
  BY <1>1 DEF Placed
<1>3. o \in Offers /\ book[i].stop \in StopsOf(o) /\ book[i].stop \in Nat /\ i \in Nat
  BY <1>1, <1>2, RowOf DEF RowOK
<1>4. positions[s].stop \in Nat
  BY <1>2, <1>3, OfferType DEF StopsOf
<1> HIDE DEF o
<1> QED BY <1>2, <1>3, <1>4 DEF SymbolOf, o

\* The terms and levels of a signal, as numbers in order.
LEMMA OfferLevels ==
    ASSUME NEW o \in Offers, NEW stop \in StopsOf(o)
    PROVE  /\ o.long \in BOOLEAN /\ stop \in Nat /\ (~o.long => stop > 0)
           /\ o.tp \in Nat /\ (o.long => o.tp > 0)
           /\ stop = o.stop \/ Tighter(o, stop, o.stop)
           /\ ~Tighter(o, E!LiquidationPrice(o), o.stop)
<1>1. /\ o.entry \in Nat \ {0} /\ o.stop \in Nat /\ o.tp \in Nat /\ o.long \in BOOLEAN
      /\ BreakevenStopPrice(o, Fees) \in Nat \ {0}
      /\ Tighter(o, BreakevenStopPrice(o, Fees), o.stop)
  BY LifecycleAssumption
<1>2. /\ Tighter(o, o.entry, o.stop) /\ Tighter(o, o.tp, o.entry)
      /\ ~Tighter(o, E!LiquidationPrice(o), o.stop)
  BY LevelsAssumption
<1>3. stop = o.stop \/ stop = BreakevenStopPrice(o, Fees)
  BY DEF StopsOf
<1>4. (~o.long => o.stop > 0) /\ (o.long => o.tp > 0)
  BY <1>1, <1>2 DEF Tighter
<1> QED BY <1>1, <1>2, <1>3, <1>4

\* A price at a level of the row crosses the position's too, unless the row's
\* stop has moved since.
LEMMA LevelCrosses ==
    ASSUME LifecycleInv, OwnersInv, NEW s \in Symbols, positions[s] # NoTrade,
           NEW p \in Prices, NEW reason \in Levels, Explains(book[owner[s].id], p, reason),
           E!Crossed(positions[s], p) = "NONE"
    PROVE  Tighter(book[owner[s].id].terms, book[owner[s].id].stop, positions[s].stop)
<1> DEFINE i == owner[s].id
           o == book[i].terms
           t == positions[s]
<1>1. /\ o \in Offers /\ book[i].stop \in Nat /\ t.stop \in StopsOf(o) /\ t.stop \in Nat
      /\ NotWider(o, book[i].stop, t.stop)
  BY PlacedRow
<1>2. t.long = o.long /\ t.tp = o.tp
  BY DEF OwnersInv, Placed
<1>3. ~E!TakesProfit(t, p) /\ ~E!Stops(t, p)
  BY DEF E!Crossed
<1>4. p \in Nat /\ p > 0
  BY LifecycleAssumption
<1>5. o.long \in BOOLEAN /\ o.tp \in Nat /\ (~o.long => t.stop > 0) /\ (o.long => o.tp > 0)
  BY <1>1, OfferLevels
<1>6. Explains(book[i], p, reason)
  OBVIOUS
<1>7. reason # "TAKE_PROFIT"
  <2> SUFFICES ASSUME reason = "TAKE_PROFIT" PROVE FALSE
    OBVIOUS
  <2>1. IF o.long THEN p >= o.tp ELSE p <= o.tp
    BY <1>6 DEF Explains
  <2> HIDE DEF o, t
  <2> QED BY <1>2, <1>3, <1>4, <1>5, <2>1 DEF E!TakesProfit
<1>8. IF o.long THEN p <= book[i].stop ELSE p >= book[i].stop
  <2>1. reason = "STOP_LOSS"
    BY <1>7 DEF Levels
  <2> QED BY <1>6, <2>1 DEF Explains
<1> HIDE DEF o, t, i
<1>9. book[i].stop # t.stop
  BY <1>1, <1>2, <1>3, <1>4, <1>5, <1>8 DEF E!Stops
<1>10. Tighter(o, book[i].stop, t.stop)
  BY <1>1, <1>9 DEF NotWider
<1> QED BY <1>10 DEF o, t, i

\* Whatever crosses a level of the position is at a level of its row.
LEMMA CrossingIsSeen ==
    ASSUME LifecycleInv, OwnersInv, NEW s \in Symbols, positions[s] # NoTrade,
           NEW p \in Prices, E!Crossed(positions[s], p) # "NONE"
    PROVE  Resolution(book[owner[s].id].terms, book[owner[s].id].stop, p) # "NONE"
<1> DEFINE i == owner[s].id
           o == book[i].terms
           t == positions[s]
           stop == book[i].stop
           liq == E!LiquidationPrice(o)
<1>1. /\ o \in Offers /\ stop \in StopsOf(o) /\ t.stop \in Nat /\ NotWider(o, stop, t.stop)
  BY PlacedRow
<1>2. t.long = o.long /\ t.tp = o.tp /\ t.liq = liq
  BY DEF OwnersInv, Placed
<1>3. E!TakesProfit(t, p) \/ E!Stops(t, p) \/ E!Liquidates(t, p)
  BY DEF E!Crossed
<1>4. p \in Nat /\ o.stop \in Nat
  BY <1>1, LifecycleAssumption
<1>5. /\ o.long \in BOOLEAN /\ o.tp \in Nat /\ stop \in Nat
      /\ stop = o.stop \/ Tighter(o, stop, o.stop)
      /\ ~Tighter(o, liq, o.stop)
  BY <1>1, OfferLevels
<1>6. liq \in Int
  <2> HIDE DEF o
  <2> QED BY <1>1, LiquidationIsANumber DEF liq
<1> HIDE DEF o, t, stop, liq
<1>7. \/ IF o.long THEN p >= o.tp ELSE p <= o.tp
      \/ IF o.long THEN p <= stop ELSE p >= stop
  <2>1. CASE E!TakesProfit(t, p)
    BY <1>2, <2>1 DEF E!TakesProfit
  <2>2. CASE E!Stops(t, p)
    BY <1>1, <1>2, <1>4, <1>5, <2>2 DEF E!Stops, NotWider, Tighter
  <2>3. CASE E!Liquidates(t, p)
    BY <1>2, <1>4, <1>5, <1>6, <2>3 DEF E!Liquidates, Tighter
  <2> QED BY <1>3, <2>1, <2>2, <2>3
<1>8. Resolution(o, stop, p) # "NONE"
  BY <1>4, <1>5, <1>7 DEF Resolution
<1> QED BY <1>8 DEF o, stop

\* A step that leaves the positions alone and moves the book: who closes a row
\* owes the exit.
LEMMA BookMoves ==
    ASSUME LifecycleInv, OwnersInv, Rows(book'), Grows(book, book'),
           UNCHANGED <<positions, owner>>,
           \A i \in 1..Len(book) : book'[i].status # "ACTIVE" =>
               Owed(closer', rec', i) \/ (book[i].status # "ACTIVE" /\ ~Owed(closer, rec, i))
    PROVE  OwnersInv'
<1> SUFFICES ASSUME NEW s \in Symbols, positions[s] # NoTrade PROVE Placed(s)' /\ Accounted(s)'
  BY DEF OwnersInv
<1> DEFINE i == owner[s].id
           o == book[i].terms
           t == positions[s]
<1>1. Placed(s) /\ Accounted(s)
  BY DEF OwnersInv
<1>2. /\ i \in 1..Len(book) /\ o \in Offers /\ book[i].stop \in Nat /\ t.stop \in Nat
      /\ NotWider(o, book[i].stop, t.stop)
  BY PlacedRow
<1>3. Len(book) \in Nat /\ Len(book') \in Nat /\ i \in 1..Len(book')
  BY <1>2 DEF LifecycleInv, Rows, Grows
<1>4. book'[i].terms = o /\ NotWider(o, book'[i].stop, book[i].stop)
  BY <1>2 DEF Grows
<1>5. book'[i].stop \in Nat /\ o.long \in BOOLEAN
  BY <1>2, <1>3, RowOf, OfferType
<1>6. NotWider(o, book'[i].stop, t.stop)
  <2> HIDE DEF i, o, t
  <2> QED BY <1>2, <1>4, <1>5 DEF NotWider, Tighter
<1>7. Placed(s)'
  BY <1>1, <1>3, <1>4, <1>6 DEF Placed
<1>8. ASSUME Tighter(o, book[i].stop, t.stop) PROVE Tighter(o, book'[i].stop, t.stop)
  <2> HIDE DEF i, o, t
  <2> QED BY <1>2, <1>4, <1>5, <1>8 DEF NotWider, Tighter
<1>9. Accounted(s)'
  <2> SUFFICES ASSUME book'[i].status # "ACTIVE", ~Owed(closer', rec', i)
               PROVE  owner[s].late \/ Tighter(o, book'[i].stop, t.stop)
    BY <1>4 DEF Accounted, ExitOwed
  <2>1. book[i].status # "ACTIVE" /\ ~Owed(closer, rec, i)
    BY <1>2
  <2> QED BY <1>1, <1>8, <2>1 DEF Accounted, ExitOwed
<1> QED BY <1>7, <1>9

\* A step that closes no row and takes back no debt.
LEMMA NobodyCloses ==
    ASSUME LifecycleInv, OwnersInv, Rows(book'), Grows(book, book'),
           UNCHANGED <<positions, owner>>,
           \A i \in 1..Len(book) : /\ book'[i].status = book[i].status
                                   /\ Owed(closer, rec, i) => Owed(closer', rec', i)
    PROVE  OwnersInv'
<1>1. ASSUME NEW i \in 1..Len(book), book'[i].status # "ACTIVE"
      PROVE  Owed(closer', rec', i) \/ (book[i].status # "ACTIVE" /\ ~Owed(closer, rec, i))
  <2>1. /\ book'[i].status = book[i].status
        /\ Owed(closer, rec, i) => Owed(closer', rec', i)
    OBVIOUS
  <2> QED BY <1>1, <2>1
<1> QED BY <1>1, BookMoves

\* An exit of symbol s takes the position out, or leaves it accounted for.
LEMMA ExitMoves ==
    ASSUME LifecycleInv, OwnersInv, book' = book, NEW s \in Symbols,
           positions' = positions \/ positions' = [positions EXCEPT ![s] = NoTrade],
           Disowned,
           \A u \in Symbols \ {s} : positions[u] # NoTrade =>
               (Owed(closer, rec, owner[u].id) => Owed(closer', rec', owner[u].id)),
           positions'[s] # NoTrade => Accounted(s)'
    PROVE  OwnersInv'
<1>1. DOMAIN positions = Symbols /\ DOMAIN owner = Symbols
  BY DEF OwnersInv
<1>2. /\ DOMAIN positions' = Symbols /\ DOMAIN owner' = Symbols
      /\ \A u \in Symbols : IF positions'[u] = NoTrade THEN owner'[u] = NoOwner
                            ELSE positions'[u] = positions[u] /\ owner'[u] = owner[u]
  BY <1>1 DEF Disowned
<1>3. ASSUME NEW u \in Symbols, positions'[u] # NoTrade PROVE Placed(u)' /\ Accounted(u)'
  <2>1. positions'[u] = positions[u] /\ owner'[u] = owner[u] /\ Placed(u) /\ Accounted(u)
    BY <1>2, <1>3 DEF OwnersInv
  <2>2. Placed(u)'
    BY <2>1 DEF Placed
  <2>3. CASE u = s
    BY <1>3, <2>2, <2>3
  <2>4. CASE u # s
    <3>1. Owed(closer, rec, owner[u].id) => Owed(closer', rec', owner[u].id)
      BY <1>3, <2>1, <2>4
    <3>2. Accounted(u)'
      BY <2>1, <3>1 DEF Accounted, ExitOwed
    <3> QED BY <2>2, <3>2
  <2> QED BY <2>3, <2>4
<1> QED BY <1>2, <1>3 DEF OwnersInv

\* A task that moves on takes back no other debt.
LEMMA OthersOwe ==
    ASSUME LifecycleInv, NEW c \in Tasks, NEW t, closer' = [closer EXCEPT ![c] = t],
           rec' = rec, NEW i, Owed(closer, rec, i),
           \/ closer[c].pc \notin {"rewrite", "engine"}
           \/ closer[c].id # i
           \/ t.id = i /\ t.pc \in {"rewrite", "engine"}
    PROVE  Owed(closer', rec', i)
<1>1. DOMAIN closer = Tasks
  BY DEF LifecycleInv, ClosersOf
<1>2. CASE rec.pc \in {"rewrite", "engine"} /\ Current(rec.todo).id = i
  BY <1>2 DEF Owed
<1>3. CASE \E d \in Tasks : closer[d].id = i /\ closer[d].pc \in {"rewrite", "engine"}
  <2>1. PICK d \in Tasks : closer[d].id = i /\ closer[d].pc \in {"rewrite", "engine"}
    BY <1>3
  <2>2. closer'[d].id = i /\ closer'[d].pc \in {"rewrite", "engine"}
    BY <1>1, <2>1
  <2> QED BY <2>2 DEF Owed
<1> QED BY <1>2, <1>3 DEF Owed

LEMMA TasksOwe ==
    ASSUME closer' = closer, NEW i, Owed(closer, rec, i),
           \/ rec' = rec
           \/ rec.pc \notin {"rewrite", "engine"} \/ Current(rec.todo).id # i
    PROVE  Owed(closer', rec', i)
  BY DEF Owed

---------------------------------------------------------------------------
(* Every step keeps the positions accounted for *)

LEMMA TaskOwners ==
    ASSUME LifecycleInv, OwnersInv, NEW c \in Tasks, NEW t,
           closer' = [closer EXCEPT ![c] = t], UNCHANGED <<book, rec, positions, owner>>,
           closer[c].pc \notin {"rewrite", "engine"}
    PROVE  OwnersInv'
<1>1. ASSUME NEW i \in 1..Len(book), Owed(closer, rec, i) PROVE Owed(closer', rec', i)
  BY <1>1, OthersOwe
<1> QED BY <1>1, BookRests, NobodyCloses

LEMMA CloserOwners ==
    ASSUME LifecycleInv, OwnersInv, NEW c \in Tasks,
           CloserSettles(c) \/ TickRewrites(c)
    PROVE  OwnersInv'
<1>1. PICK i0 \in 1..Len(book) : i0 = closer[c].id
  BY DEF CloserSettles, TickRewrites, LifecycleInv, ClosersOf, CloserOf, Closing
<1>2. /\ closer[c].pc \in {"settle", "rewrite"}
      /\ closer[c] \in CloserRec /\ DOMAIN closer = Tasks
      /\ UNCHANGED <<positions, owner, rec>>
  BY DEF CloserSettles, TickRewrites, LifecycleInv, ClosersOf, CloserOf, engineVars
<1>3. CASE closer[c].pc = "settle" /\ closer' = [closer EXCEPT ![c] = Idle] /\ UNCHANGED book
  BY <1>2, <1>3, TaskOwners
<1>4. ASSUME NEW pc \in {"rewrite", "engine"}, closer' = [closer EXCEPT ![c].pc = pc],
             \/ CloseFuturesSignal(i0, closer[c].px, closer[c].reason)
             \/ UNCHANGED book /\ closer[c].pc = "rewrite"
      PROVE  OwnersInv'
  <2> DEFINE t == [closer[c] EXCEPT !.pc = pc]
  <2>1. t.id = i0 /\ t.pc = pc /\ closer' = [closer EXCEPT ![c] = t]
    BY <1>1, <1>2, <1>4 DEF CloserRec
  <2> HIDE DEF t
  <2>2. Owed(closer', rec', i0)
    BY <1>2, <1>4, <2>1 DEF Owed
  <2>3. ASSUME NEW i \in 1..Len(book), Owed(closer, rec, i) PROVE Owed(closer', rec', i)
    BY <1>1, <1>2, <1>4, <2>1, <2>3, OthersOwe
  <2>4. Rows(book') /\ Grows(book, book')
    BY <1>1, <1>2, <1>4, CloserWrites, BookRests
  <2>5. ASSUME NEW i \in 1..Len(book), i # i0 PROVE book'[i].status = book[i].status
    BY <1>4, <2>5, WrittenStatus
  <2>6. ASSUME NEW i \in 1..Len(book), book'[i].status # "ACTIVE"
        PROVE  Owed(closer', rec', i) \/ (book[i].status # "ACTIVE" /\ ~Owed(closer, rec, i))
    BY <2>2, <2>3, <2>5, <2>6
  <2> QED BY <1>2, <2>4, <2>6, BookMoves
<1>5. CASE /\ closer' = [closer EXCEPT ![c].pc = IF c \in TickTasks THEN "rewrite" ELSE "engine"]
           /\ CloseFuturesSignal(i0, closer[c].px, closer[c].reason)
  <2> DEFINE pc == IF c \in TickTasks THEN "rewrite" ELSE "engine"
  <2>1. pc \in {"rewrite", "engine"} /\ closer' = [closer EXCEPT ![c].pc = pc]
    BY <1>5
  <2> HIDE DEF pc
  <2> QED BY <1>4, <1>5, <2>1
<1>6. CASE CloserSettles(c)
  BY <1>1, <1>3, <1>5, <1>6 DEF CloserSettles
<1>7. CASE TickRewrites(c)
  BY <1>1, <1>4, <1>7 DEF TickRewrites
<1> QED BY <1>6, <1>7

LEMMA TellsOwners ==
    ASSUME LifecycleInv, OwnersInv, NEW c \in Tasks, CloserTells(c)
    PROVE  OwnersInv'
<1>1. /\ closer[c].pc = "tell" /\ closer[c].id \in 1..Len(book)
      /\ closer' = [closer EXCEPT ![c] = Idle] /\ UNCHANGED <<rec, positions, owner>>
      /\ UNCHANGED book \/ MarkSignalResolved(closer[c].id)
  BY DEF CloserTells, LifecycleInv, ClosersOf, CloserOf, Closing, engineVars
<1>2. Rows(book') /\ Grows(book, book')
  BY <1>1, BookRests, ResolvedWrite DEF MarkSignalResolved, LifecycleInv
<1>3. ASSUME NEW i \in 1..Len(book)
      PROVE  /\ book'[i].status = book[i].status
             /\ Owed(closer, rec, i) => Owed(closer', rec', i)
  BY <1>1, KeptStatus, OthersOwe
<1> QED BY <1>1, <1>2, <1>3, NobodyCloses

\* A step of the reconciler that is not about to call the engine.
LEMMA RecKeeps ==
    ASSUME LifecycleInv, OwnersInv, UNCHANGED <<closer, positions, owner>>,
           Rows(book'), Grows(book, book'),
           rec.pc \notin {"rewrite", "engine"} \/ UNCHANGED rec,
           \A i \in 1..Len(book) : book'[i].status = book[i].status
    PROVE  OwnersInv'
<1>1. ASSUME NEW i \in 1..Len(book), Owed(closer, rec, i) PROVE Owed(closer', rec', i)
  BY <1>1, TasksOwe
<1> QED BY <1>1, NobodyCloses

LEMMA RecMarksOwners ==
    ASSUME LifecycleInv, OwnersInv, RecMarks \/ RecMovesStop \/ RecSavesDecay,
           Rows(book'), Grows(book, book')
    PROVE  OwnersInv'
<1> DEFINE i == Current(rec.todo).id
<1>1. /\ UNCHANGED <<closer, positions, owner>>
      /\ rec.pc \in {"mark", "stop", "protect"}
  BY DEF RecMarks, RecMovesStop, RecSavesDecay, recFrame, engineVars
<1>2. i \in 1..Len(book)
  BY <1>1, RecCurrent DEF LifecycleInv, RecOf
<1>3. \/ UNCHANGED book
      \/ UpdateSignalDecay(i, "CLOSED") \/ UpdateSignalDecay(i, "BREAKEVEN")
      \/ UpdateSignalStop(i, BreakevenStopPrice(book[i].terms, Fees))
  BY DEF RecMarks, RecMovesStop, RecSavesDecay
<1> HIDE DEF i
<1>4. \A j \in 1..Len(book) : book'[j].status = book[j].status
  BY <1>2, <1>3, KeptStatus
<1> QED BY <1>1, <1>4, RecKeeps

LEMMA RecClosesOwners ==
    ASSUME LifecycleInv, OwnersInv, RecSettles \/ RecRewrites
    PROVE  OwnersInv'
<1>1. /\ UNCHANGED <<closer, positions, owner>> /\ rec.pc \in {"settle", "rewrite"}
      /\ DOMAIN rec = RecFields /\ DOMAIN rec.todo # {}
  BY DEF RecSettles, RecRewrites, recFrame, engineVars, LifecycleInv, RecOf
<1>2. PICK i0 \in 1..Len(book) : i0 = Current(rec.todo).id
  BY <1>1, RecCurrent
<1>3. CASE rec.pc = "settle" /\ UNCHANGED book
  BY <1>1, <1>3, BookRests, RecKeeps
<1>4. ASSUME NEW pc \in {"rewrite", "engine"}, rec' = [rec EXCEPT !.pc = pc],
             \/ CloseFuturesSignal(i0, rec.px, rec.reason)
             \/ UNCHANGED book /\ rec.pc = "rewrite"
      PROVE  OwnersInv'
  <2>1. rec'.pc = pc /\ rec'.todo = rec.todo
    BY <1>1, <1>4 DEF RecFields
  <2>2. Owed(closer', rec', i0)
    BY <1>2, <1>4, <2>1 DEF Owed
  <2>3. ASSUME NEW i \in 1..Len(book), Owed(closer, rec, i) PROVE Owed(closer', rec', i)
    BY <1>1, <1>4, <2>1, <2>3 DEF Owed
  <2>4. Rows(book') /\ Grows(book, book')
    BY <1>1, <1>2, <1>4, RecCloses, BookRests
  <2>5. ASSUME NEW i \in 1..Len(book), i # i0 PROVE book'[i].status = book[i].status
    BY <1>4, <2>5, WrittenStatus
  <2>6. ASSUME NEW i \in 1..Len(book), book'[i].status # "ACTIVE"
        PROVE  Owed(closer', rec', i) \/ (book[i].status # "ACTIVE" /\ ~Owed(closer, rec, i))
    BY <2>2, <2>3, <2>5, <2>6
  <2> QED BY <1>1, <2>4, <2>6, BookMoves
<1>5. CASE /\ rec' = [rec EXCEPT !.pc = IF rec.via = "level" THEN "rewrite" ELSE "engine"]
           /\ CloseFuturesSignal(i0, rec.px, rec.reason)
  <2> DEFINE pc == IF rec.via = "level" THEN "rewrite" ELSE "engine"
  <2>1. pc \in {"rewrite", "engine"} /\ rec' = [rec EXCEPT !.pc = pc]
    BY <1>5
  <2> HIDE DEF pc
  <2> QED BY <1>4, <1>5, <2>1
<1>6. CASE RecSettles
  BY <1>2, <1>3, <1>5, <1>6 DEF RecSettles
<1>7. CASE RecRewrites
  BY <1>2, <1>4, <1>7 DEF RecRewrites
<1> QED BY <1>6, <1>7

---------------------------------------------------------------------------
(* The exits *)

\* An exit at a level of row i, by the one who owed it.
LEMMA CheckMoves ==
    ASSUME LifecycleInv, OwnersInv, book' = book, NEW s \in Symbols, NEW p \in Prices,
           CheckExit(s, p), NEW i \in 1..Len(book), SymbolOf(i) = s,
           NEW reason \in Levels, Explains(book[i], p, reason),
           \A j \in 1..Len(book) : j # i =>
               (Owed(closer, rec, j) => Owed(closer', rec', j))
    PROVE  OwnersInv'
<1>1. /\ E!CheckExit(s, p) /\ Disowned
      /\ positions' = positions \/ positions' = [positions EXCEPT ![s] = NoTrade]
  BY DEF CheckExit, E!CheckExit, E!closePositionLocked, E!vars
<1>2. ASSUME NEW u \in Symbols \ {s}, positions[u] # NoTrade
      PROVE  Owed(closer, rec, owner[u].id) => Owed(closer', rec', owner[u].id)
  <2>1. owner[u].id \in 1..Len(book) /\ SymbolOf(owner[u].id) = u
    BY <1>2, PlacedRow
  <2> QED BY <1>2, <2>1
<1>3. ASSUME positions'[s] # NoTrade PROVE Accounted(s)'
  <2>1. positions' = positions /\ positions[s] # NoTrade
    BY <1>1, <1>3 DEF OwnersInv
  <2>2. E!Crossed(positions[s], p) = "NONE"
    <3>1. E!IsOpen(s)
      BY <2>1 DEF E!IsOpen
    <3>2. ASSUME E!Crossed(positions[s], p) # "NONE" PROVE positions'[s] = NoTrade
      BY <1>1, <3>1, <3>2 DEF E!CheckExit, E!closePositionLocked, OwnersInv
    <3> QED BY <1>3, <3>2
  <2>3. owner'[s] = owner[s] /\ Accounted(s)
    BY <1>1, <2>1 DEF Disowned, OwnersInv
  <2>4. owner[s].id \in 1..Len(book)
    BY <2>1, PlacedRow
  <2>5. CASE owner[s].id = i
    <3>1. Tighter(book[i].terms, book[i].stop, positions[s].stop)
      BY <2>1, <2>2, <2>5, LevelCrosses
    <3> QED BY <2>1, <2>3, <2>5, <3>1 DEF Accounted
  <2>6. CASE owner[s].id # i
    <3>1. Owed(closer, rec, owner[s].id) => Owed(closer', rec', owner[s].id)
      BY <2>4, <2>6
    <3> QED BY <2>1, <2>3, <3>1 DEF Accounted, ExitOwed
  <2> QED BY <2>5, <2>6
<1> QED BY <1>1, <1>2, <1>3, ExitMoves

\* A forced exit takes out whatever position the symbol has.
LEMMA ForceMoves ==
    ASSUME LifecycleInv, OwnersInv, book' = book, NEW s \in Symbols, NEW p, NEW reason,
           ForceClosePosition(s, p, reason),
           \A j \in 1..Len(book) : SymbolOf(j) # s =>
               (Owed(closer, rec, j) => Owed(closer', rec', j))
    PROVE  OwnersInv'
<1>1. /\ E!ForceClosePosition(s, p, reason) /\ Disowned
      /\ positions' = positions \/ positions' = [positions EXCEPT ![s] = NoTrade]
  BY DEF ForceClosePosition, E!ForceClosePosition, E!closePositionLocked, E!vars
<1>2. positions'[s] = NoTrade
  BY <1>1 DEF E!ForceClosePosition, E!closePositionLocked, E!vars, E!IsOpen, OwnersInv
<1>3. ASSUME NEW u \in Symbols \ {s}, positions[u] # NoTrade
      PROVE  Owed(closer, rec, owner[u].id) => Owed(closer', rec', owner[u].id)
  <2>1. owner[u].id \in 1..Len(book) /\ SymbolOf(owner[u].id) = u
    BY <1>3, PlacedRow
  <2> QED BY <1>3, <2>1
<1> QED BY <1>1, <1>2, <1>3, ExitMoves

\* An exit nobody owed.
LEMMA OtherExit ==
    ASSUME LifecycleInv, OwnersInv, UNCHANGED <<book, closer, rec>>, NEW s \in Symbols,
           NEW p, CheckExit(s, p)
    PROVE  OwnersInv'
<1>1. /\ Disowned
      /\ positions' = positions \/ positions' = [positions EXCEPT ![s] = NoTrade]
  BY DEF CheckExit, E!CheckExit, E!closePositionLocked, E!vars
<1>2. ASSUME positions'[s] # NoTrade PROVE Accounted(s)'
  <2>1. positions' = positions
    BY <1>1, <1>2 DEF OwnersInv
  <2>2. owner'[s] = owner[s] /\ Accounted(s)
    BY <1>1, <1>2, <2>1 DEF Disowned, OwnersInv
  <2> QED BY <2>1, <2>2 DEF Accounted, ExitOwed
<1> QED BY <1>1, <1>2, ExitMoves

LEMMA CloserExitsOwners ==
    ASSUME LifecycleInv, OwnersInv, NEW c \in Tasks, CloserExits(c)
    PROVE  OwnersInv'
<1>1. /\ closer[c].pc = "engine" /\ closer[c] \in CloserRec /\ closer[c].px \in Prices
      /\ closer' = [closer EXCEPT ![c].pc = "tell"] /\ UNCHANGED <<book, rec>>
      /\ DOMAIN closer = Tasks
  BY DEF CloserExits, LifecycleInv, ClosersOf, CloserOf
<1>2. PICK i \in 1..Len(book) : i = closer[c].id
  BY <1>1 DEF LifecycleInv, ClosersOf, CloserOf, Closing
<1>3. /\ SymbolOf(i) = closer[c].symbol /\ closer[c].symbol \in Symbols
      /\ Explains(book[i], closer[c].px, closer[c].reason)
      /\ c \in TickTasks => closer[c].reason \in Levels
  BY <1>1, <1>2 DEF LifecycleInv, ClosersOf, CloserOf, Closing, CloserRec, SymbolOf
<1> DEFINE t == [closer[c] EXCEPT !.pc = "tell"]
<1>4. closer' = [closer EXCEPT ![c] = t]
  BY <1>1
<1> HIDE DEF t
<1>5. ASSUME NEW j \in 1..Len(book), j # i, Owed(closer, rec, j)
      PROVE  Owed(closer', rec', j)
  BY <1>1, <1>2, <1>4, <1>5, OthersOwe
<1>6. CASE c \in TickTasks
  <2>1. CheckExit(closer[c].symbol, closer[c].px)
    BY <1>6 DEF CloserExits
  <2> QED BY <1>1, <1>3, <1>5, <1>6, <2>1, CheckMoves
<1>7. CASE c \notin TickTasks
  <2>1. ForceClosePosition(closer[c].symbol, closer[c].px, "MANUAL_EXIT")
    BY <1>7 DEF CloserExits
  <2>2. \A j \in 1..Len(book) : SymbolOf(j) # closer[c].symbol =>
            (Owed(closer, rec, j) => Owed(closer', rec', j))
    BY <1>3, <1>5
  <2> QED BY <1>1, <1>3, <2>1, <2>2, ForceMoves
<1> QED BY <1>6, <1>7

LEMMA RecExitsOwners ==
    ASSUME LifecycleInv, OwnersInv, RecExits
    PROVE  OwnersInv'
<1>1. /\ rec.pc = "engine" /\ UNCHANGED <<book, closer>> /\ DOMAIN rec.todo # {}
      /\ RecOf(book, rec)
  BY DEF RecExits, recFrame, LifecycleInv, RecOf
<1>2. PICK i \in 1..Len(book) : i = Current(rec.todo).id
  BY <1>1, RecCurrent
<1>3. SymbolOf(i) \in Symbols
  BY <1>1, <1>2, RecCurrent
<1>4. ASSUME NEW j \in 1..Len(book), j # i, Owed(closer, rec, j)
      PROVE  Owed(closer', rec', j)
  BY <1>1, <1>2, <1>4, TasksOwe
<1>5. CASE rec.via = "level"
  <2>1. CheckExit(SymbolOf(i), rec.px)
    BY <1>2, <1>5 DEF RecExits
  <2>2. rec.px \in Prices /\ rec.reason \in Levels /\ Explains(book[i], rec.px, rec.reason)
    BY <1>1, <1>2, <1>5 DEF RecOf
  <2> QED BY <1>1, <1>3, <1>4, <2>1, <2>2, CheckMoves
<1>6. CASE rec.via # "level"
  <2>1. ForceClosePosition(SymbolOf(i), rec.px, "TIME_EXIT")
    BY <1>2, <1>6 DEF RecExits
  <2>2. \A j \in 1..Len(book) : SymbolOf(j) # SymbolOf(i) =>
            (Owed(closer, rec, j) => Owed(closer', rec', j))
    BY <1>4
  <2> QED BY <1>1, <1>3, <2>1, <2>2, ForceMoves
<1> QED BY <1>5, <1>6

---------------------------------------------------------------------------
(* The remaining steps *)

\* A step that touches neither rows, tasks that close, nor positions.
LEMMA Unmoved ==
    ASSUME LifecycleInv, OwnersInv, UNCHANGED <<book, closer, rec, positions, owner>>
    PROVE  OwnersInv'
<1>1. Rows(book') /\ Grows(book, book')
  BY BookRests
<1> QED BY <1>1, NobodyCloses

\* A new position is placed as its row is, and late when that row is closed.
LEMMA EnsureOwners ==
    ASSUME LifecycleInv, OwnersInv, UNCHANGED <<book, closer, rec>>,
           NEW snap, SnapOf(book, snap), ensureSignalPosition(snap)
    PROVE  OwnersInv'
<1> DEFINE i == snap.id
           o == book[i].terms
           sig == [o EXCEPT !.stop = snap.stop]
<1>1. PICK s \in Symbols : s = SymbolOf(i)
  BY RowOf DEF LifecycleInv, SnapOf, SymbolOf
<1>2. /\ o \in Offers /\ i \in 1..Len(book) /\ snap.stop \in StopsOf(o)
      /\ NotWider(o, book[i].stop, snap.stop) /\ o.symbol = s
  BY <1>1, RowOf DEF LifecycleInv, SnapOf, SymbolOf
<1>3. E!OpenPositionFromSignal(sig)
      /\ owner' = IF ~E!IsOpen(s) /\ positions'[s] # NoTrade
                  THEN [owner EXCEPT ![s] = [id |-> i, late |-> ~Active(i)]]
                  ELSE owner
  BY <1>1 DEF ensureSignalPosition
<1>4. /\ sig.symbol = s /\ sig.long = o.long /\ sig.tp = o.tp /\ sig.stop = snap.stop
      /\ E!LiquidationPrice(sig) = E!LiquidationPrice(o)
  <2>1. o \in [symbol: Symbols, long: BOOLEAN, entry: Nat \ {0}, stop: Nat,
               tp: Nat, leverage: 1..125, margin: Nat]
    BY <1>2, LifecycleAssumption
  <2>2. /\ sig.symbol = o.symbol /\ sig.long = o.long /\ sig.tp = o.tp
        /\ sig.stop = snap.stop /\ sig.entry = o.entry /\ sig.leverage = o.leverage
    BY <2>1
  <2> HIDE DEF sig, o
  <2> QED BY <1>2, <2>2 DEF E!LiquidationPrice
<1> HIDE DEF sig
<1>5. DOMAIN positions = Symbols /\ DOMAIN owner = Symbols
  BY DEF OwnersInv
<1>6. CASE positions' = positions /\ owner' = owner
  BY <1>6, Unmoved
<1>7. CASE positions[s] = NoTrade /\ positions' = [positions EXCEPT ![s] = E!NewTrade(sig)]
  <2> DEFINE t == E!NewTrade(sig)
  <2>1. t.long = o.long /\ t.tp = o.tp /\ t.stop = snap.stop /\ t.liq = E!LiquidationPrice(o)
    BY <1>4 DEF E!NewTrade
  <2> HIDE DEF t
  <2>2. CASE t = NoTrade
    <3>1. /\ DOMAIN positions' = Symbols /\ positions'[s] = NoTrade
          /\ \A u \in Symbols : positions'[u] = positions[u]
      BY <1>5, <1>7, <2>2 DEF t
    <3>2. owner' = owner
      BY <1>3, <3>1
    <3> QED BY <3>1, <3>2 DEF OwnersInv, Placed, Accounted, ExitOwed
  <2>3. CASE t # NoTrade
    <3>1. positions'[s] = t /\ DOMAIN positions' = Symbols
      BY <1>5, <1>7 DEF t
    <3>2. owner' = [owner EXCEPT ![s] = [id |-> i, late |-> ~Active(i)]]
      BY <1>3, <1>7, <2>3, <3>1 DEF E!IsOpen
    <3>3. owner'[s].id = i /\ owner'[s].late = ~Active(i) /\ DOMAIN owner' = Symbols
      BY <1>5, <3>2
    <3>4. Placed(s)'
      BY <1>2, <2>1, <3>1, <3>3 DEF Placed
    <3>5. Accounted(s)'
      BY <3>3 DEF Accounted, Active
    <3>6. ASSUME NEW u \in Symbols, u # s
          PROVE  IF positions'[u] = NoTrade THEN owner'[u] = NoOwner
                 ELSE Placed(u)' /\ Accounted(u)'
      <4>1. positions'[u] = positions[u] /\ owner'[u] = owner[u]
        BY <1>5, <1>7, <3>2, <3>6
      <4> QED BY <4>1 DEF OwnersInv, Placed, Accounted, ExitOwed
    <3> QED BY <2>3, <3>1, <3>3, <3>4, <3>5, <3>6 DEF OwnersInv
  <2> QED BY <2>2, <2>3
<1>8. \/ positions' = positions /\ owner' = owner
      \/ positions[s] = NoTrade /\ positions' = [positions EXCEPT ![s] = E!NewTrade(sig)]
  <2>1. CASE E!IsOpen(s)
    BY <1>3, <1>4, <2>1 DEF E!OpenPositionFromSignal, E!vars
  <2>2. CASE ~E!IsOpen(s)
    BY <1>3, <1>4, <2>2 DEF E!OpenPositionFromSignal, E!IsOpen
  <2> QED BY <2>1, <2>2
<1> QED BY <1>6, <1>7, <1>8

LEMMA InsertOwners ==
    ASSUME LifecycleInv, OwnersInv, NEW e \in Evaluators, InsertFuturesSignal(e),
           Rows(book'), Grows(book, book')
    PROVE  OwnersInv'
<1>1. UNCHANGED <<closer, rec, positions, owner>>
  BY DEF InsertFuturesSignal, evalFrame, engineVars
<1>2. CASE UNCHANGED book
  BY <1>1, <1>2, Unmoved
<1>3. ASSUME NEW row, book' = Append(book, row) PROVE OwnersInv'
  <2>1. \A i \in 1..Len(book) : book'[i] = book[i]
    BY <1>3 DEF LifecycleInv, Rows
  <2> QED BY <1>1, <2>1, NobodyCloses
<1> QED BY <1>2, <1>3 DEF InsertFuturesSignal

LEMMA PassOwners ==
    ASSUME LifecycleInv, OwnersInv, Pass, Rows(book'), Grows(book, book')
    PROVE  OwnersInv'
<1>1. UNCHANGED <<closer, rec, positions, owner>>
  BY DEF Pass, engineVars, taskVars
<1>2. ASSUME NEW i \in 1..Len(book) PROVE book'[i].status = book[i].status
  <2>1. book'[i] = [book[i] EXCEPT !.age = IF @ < AgeBound THEN @ + 1 ELSE @]
    BY DEF Pass, Ids
  <2>2. book[i] \in Row
    BY RowOf DEF LifecycleInv
  <2> QED BY <2>1, <2>2 DEF Row
<1> QED BY <1>1, <1>2, NobodyCloses

LEMMA RestartOwners ==
    ASSUME Restart
    PROVE  OwnersInv'
<1>1. positions' = [s \in Symbols |-> NoTrade] /\ owner' = [s \in Symbols |-> NoOwner]
  BY DEF Restart, E!NewExecutionEngine, Booting
<1> QED BY <1>1 DEF OwnersInv

LEMMA NextOwners ==
    ASSUME LifecycleInv, OwnersInv, [Next]_vars, Rows(book'), Grows(book, book')
    PROVE  OwnersInv'
<1>1. CASE UNCHANGED vars
  BY <1>1, Unmoved DEF vars, engineVars, taskVars
<1>2. CASE Ticks
  <2>1. ASSUME NEW c \in Tasks, NEW s \in Symbols, NEW p \in Prices, IngestTick(c, s, p)
        PROVE  OwnersInv'
    BY <2>1, TaskOwners DEF IngestTick, engineVars
  <2>2. ASSUME NEW c \in Tasks, CheckSignalExitForTick(c) PROVE OwnersInv'
    BY <2>2, TaskOwners DEF CheckSignalExitForTick, engineVars
  <2> QED BY <1>2, <2>1, <2>2, CloserOwners DEF Ticks, Tasks
<1>3. CASE Manual
  <2>1. ASSUME NEW c \in Tasks, NEW i \in Ids, NEW p \in Prices,
               CloseFuturesSignalHandler(c, i, p)
        PROVE  OwnersInv'
    BY <2>1, TaskOwners DEF CloseFuturesSignalHandler, engineVars
  <2> QED BY <1>3, <2>1 DEF Manual, Tasks
<1>4. CASE Closers
  BY <1>4, CloserOwners, CloserExitsOwners, TellsOwners DEF Closers, Tasks
<1>5. CASE Evaluates
  <2>1. ASSUME NEW e \in Evaluators, NEW o \in Offers, EvaluateSymbolSignal(e, o)
        PROVE  OwnersInv'
    BY <2>1, Unmoved DEF EvaluateSymbolSignal, evalFrame, engineVars
  <2>2. ASSUME NEW e \in Evaluators, EvaluatorEnsures(e) PROVE OwnersInv'
    <3>1. SnapOf(book, eval[e].snap) /\ UNCHANGED <<book, closer, rec>>
      BY <2>2 DEF EvaluatorEnsures, LifecycleInv, EvalsOf, EvalOf, evalFrame
    <3> QED BY <2>2, <3>1, EnsureOwners DEF EvaluatorEnsures
  <2> QED BY <1>5, <2>1, <2>2, InsertOwners DEF Evaluates
<1>6. CASE Engine
  <2>1. ASSUME NEW s \in Symbols, ProcessTick(s) PROVE OwnersInv'
    BY <2>1, OtherExit DEF ProcessTick, engineFrame
  <2>2. ASSUME NEW s \in Symbols, ProcessEarlyExitVerdict(s) PROVE OwnersInv'
    BY <2>2, ForceMoves, Unmoved DEF ProcessEarlyExitVerdict, engineFrame, engineVars
  <2>3. CASE EvaluateCycle
    BY <2>3, Unmoved DEF EvaluateCycle, engineFrame, engineVars
  <2> QED BY <1>6, <2>1, <2>2, <2>3 DEF Engine
<1>7. CASE RecWorks
  <2>1. CASE RecVisits \/ RecRests
    BY <2>1, RecKeeps DEF RecVisits, RecRests, recFrame, engineVars
  <2> QED BY <1>7, <2>1, RecClosesOwners, RecExitsOwners, RecMarksOwners DEF RecWorks
<1>8. CASE ReconcileActiveSignals
  BY <1>8, RecKeeps DEF ReconcileActiveSignals, recFrame, engineVars
<1>9. CASE RehydrateLists
  BY <1>9, Unmoved DEF RehydrateLists, bootFrame, taskVars, engineVars
<1>10. CASE RehydrateOpens
  <2>1. UNCHANGED <<book, closer, rec>>
    BY <1>10 DEF RehydrateOpens, bootFrame, taskVars
  <2>2. CASE DOMAIN revive = {}
    BY <1>10, <2>1, <2>2, Unmoved DEF RehydrateOpens, engineVars
  <2>3. CASE DOMAIN revive # {}
    <3>1. SnapOf(book, Current(revive))
      BY <2>3, CurrentRow DEF LifecycleInv
    <3> QED BY <1>10, <2>1, <2>3, <3>1, EnsureOwners DEF RehydrateOpens
  <2> QED BY <2>2, <2>3
<1>11. CASE Restart \/ Pass
  BY <1>11, RestartOwners, PassOwners
<1> QED BY <1>1, <1>2, <1>3, <1>4, <1>5, <1>6, <1>7, <1>8, <1>9, <1>10, <1>11 DEF Next

\* Every position belongs to the row it was opened for, and outlives its
\* closure only as Accounted allows.
THEOREM OwnersInvariant == Spec => []OwnersInv
<1>1. Init => OwnersInv
  <2> SUFFICES ASSUME Init PROVE OwnersInv
    OBVIOUS
  <2>1. positions = [s \in Symbols |-> NoTrade] /\ owner = [s \in Symbols |-> NoOwner]
    BY DEF Init, E!Init, Booting
  <2> QED BY <2>1 DEF OwnersInv
<1>2. LifecycleInv /\ OwnersInv /\ [Next]_vars => OwnersInv'
  <2> SUFFICES ASSUME LifecycleInv, OwnersInv, [Next]_vars PROVE OwnersInv'
    OBVIOUS
  <2>1. Grows(book, book') /\ Rows(book')
    BY NextOK DEF StepOK, LifecycleInv
  <2> QED BY <2>1, NextOwners
<1> QED BY <1>1, <1>2, LifecycleInvariant, PTL DEF Spec

\* A position outlives its row for one of three reasons, and no other: no
\* order of the five kinds of closer, of evaluators, boots and restarts leaves
\* a position of a closed row that nobody will take out.
THEOREM OrphansAreExplained == Spec => []OrphansExplained
<1>1. LifecycleInv /\ OwnersInv => OrphansExplained
  <2> SUFFICES ASSUME LifecycleInv, OwnersInv, NEW s \in Symbols, positions[s] # NoTrade,
                      book[owner[s].id].status = "CLOSED"
               PROVE  \/ ExitPending(s)
                      \/ owner[s].late
                      \/ Tighter(book[owner[s].id].terms, book[owner[s].id].stop,
                                 positions[s].stop)
    BY DEF OrphansExplained
  <2>1. /\ Accounted(s) /\ owner[s].id \in 1..Len(book) /\ SymbolOf(owner[s].id) = s
    BY PlacedRow DEF OwnersInv
  <2>2. ASSUME Owed(closer, rec, owner[s].id) PROVE ExitPending(s)
    <3>1. CASE rec.pc \in {"rewrite", "engine"} /\ Current(rec.todo).id = owner[s].id
      BY <2>1, <3>1 DEF ExitPending
    <3>2. ASSUME NEW c \in Tasks, closer[c].id = owner[s].id,
                 closer[c].pc \in {"rewrite", "engine"}
          PROVE  ExitPending(s)
      <4>1. c \in DOMAIN closer /\ closer[c].symbol = SymbolOf(closer[c].id)
        BY <3>2 DEF LifecycleInv, ClosersOf, CloserOf, Closing, SymbolOf
      <4> QED BY <2>1, <3>2, <4>1 DEF ExitPending
    <3> QED BY <2>2, <3>1, <3>2 DEF Owed
  <2> QED BY <2>1, <2>2 DEF Accounted, ExitOwed
<1> QED BY <1>1, LifecycleInvariant, OwnersInvariant, PTL

\* Whatever price takes a position out of the engine also resolves its row.
THEOREM ExitsAreSeen == Spec => []BookSeesEveryExit
<1>1. LifecycleInv /\ OwnersInv => BookSeesEveryExit
  BY CrossingIsSeen DEF BookSeesEveryExit
<1> QED BY <1>1, LifecycleInvariant, OwnersInvariant, PTL

---------------------------------------------------------------------------
(* Outcomes *)

\* The tasks that have row i in hand, to close it and to tell of it.
Holding(cl, i) == {c \in Tasks : cl[c].pc \in Closing /\ cl[c].id = i}

\* A row nobody has closed has taught nothing yet; from then on every task
\* that has it in hand may still add one outcome, and no other task may.
LearnInv ==
    /\ DOMAIN learned = 1..MaxSignals
    /\ \A i \in 1..MaxSignals :
          /\ learned[i] \in Nat
          /\ learned[i] + Cardinality(Holding(closer, i)) <= Cardinality(Tasks)
          /\ (i > Len(book) \/ Active(i)) => learned[i] = 0

LEMMA HoldingSize ==
    ASSUME NEW T \in SUBSET Tasks
    PROVE  IsFiniteSet(T) /\ Cardinality(T) \in Nat /\ Cardinality(T) <= Cardinality(Tasks)
           /\ Cardinality(Tasks) \in Nat
<1>1. IsFiniteSet(Tasks)
  BY LifecycleAssumption, FS_Union DEF Tasks
<1> QED BY <1>1, FS_Subset, FS_CardinalityType

LEMMA LearnKept ==
    ASSUME LifecycleInv, LearnInv, Rows(book'), Grows(book, book'), learned' = learned,
           \A i \in 1..MaxSignals :
               learned[i] = 0 \/ Holding(closer', i) \subseteq Holding(closer, i)
    PROVE  LearnInv'
<1>1. Len(book) \in Nat /\ Len(book') \in Nat /\ Len(book) <= Len(book')
  BY DEF LifecycleInv, Rows, Grows
<1>2. ASSUME NEW i \in 1..MaxSignals
      PROVE  /\ learned[i] + Cardinality(Holding(closer', i)) <= Cardinality(Tasks)
             /\ (i > Len(book') \/ book'[i].status = "ACTIVE") => learned[i] = 0
  <2> DEFINE H == Holding(closer, i)
             G == Holding(closer', i)
  <2>1. H \in SUBSET Tasks /\ G \in SUBSET Tasks
    BY DEF Holding
  <2>2. /\ learned[i] \in Nat /\ learned[i] + Cardinality(H) <= Cardinality(Tasks)
        /\ (i > Len(book) \/ Active(i)) => learned[i] = 0
        /\ learned[i] = 0 \/ G \subseteq H
    BY DEF LearnInv
  <2> HIDE DEF H, G
  <2>3. /\ Cardinality(H) \in Nat /\ Cardinality(G) \in Nat /\ Cardinality(Tasks) \in Nat
        /\ Cardinality(G) <= Cardinality(Tasks)
    BY <2>1, HoldingSize
  <2>4. G \subseteq H => Cardinality(G) <= Cardinality(H)
    BY <2>1, HoldingSize, FS_Subset
  <2>5. learned[i] + Cardinality(G) <= Cardinality(Tasks)
    BY <2>2, <2>3, <2>4
  <2>6. ASSUME i > Len(book') \/ book'[i].status = "ACTIVE" PROVE learned[i] = 0
    <3>1. CASE i \in 1..Len(book)
      <4>1. book[i] \in Row /\ book'[i].status = "ACTIVE"
        BY <1>1, <2>6, <3>1, RowOf DEF LifecycleInv
      <4>2. book[i].status = "ACTIVE"
        BY <3>1, <4>1 DEF Grows
      <4> QED BY <2>2, <4>2 DEF Active
    <3>2. CASE i \notin 1..Len(book)
      BY <1>1, <2>2, <3>2
    <3> QED BY <3>1, <3>2
  <2> QED BY <2>5, <2>6 DEF G
<1>3. \A i \in 1..MaxSignals : learned[i] \in Nat
  BY DEF LearnInv
<1> QED BY <1>2, <1>3 DEF LearnInv, Active

\* A task that goes on with a row has had it in hand.
LEMMA HoldingMoves ==
    ASSUME LifecycleInv, NEW c \in Tasks, NEW t, closer' = [closer EXCEPT ![c] = t], NEW i,
           t.pc \in Closing /\ t.id = i => closer[c].pc \in Closing /\ closer[c].id = i
    PROVE  Holding(closer', i) \subseteq Holding(closer, i)
<1>1. DOMAIN closer = Tasks
  BY DEF LifecycleInv, ClosersOf
<1>2. \A d \in Tasks : closer'[d] = IF d = c THEN t ELSE closer[d]
  BY <1>1
<1> QED BY <1>2 DEF Holding

LEMMA SettlesHolding ==
    ASSUME LifecycleInv, NEW c \in Tasks, NEW i,
           CloserSettles(c) \/ TickRewrites(c) \/ CloserExits(c)
    PROVE  Holding(closer', i) \subseteq Holding(closer, i)
<1>1. closer[c].pc \in Closing /\ closer[c] \in CloserRec
  BY DEF CloserSettles, TickRewrites, CloserExits, Closing, LifecycleInv, ClosersOf, CloserOf
<1>2. CASE closer' = [closer EXCEPT ![c] = Idle]
  BY <1>2, IdleCloser, HoldingMoves
<1>3. ASSUME NEW pc, closer' = [closer EXCEPT ![c].pc = pc]
      PROVE  Holding(closer', i) \subseteq Holding(closer, i)
  <2> DEFINE t == [closer[c] EXCEPT !.pc = pc]
  <2>1. t.id = closer[c].id /\ closer' = [closer EXCEPT ![c] = t]
    BY <1>1, <1>3 DEF CloserRec
  <2> HIDE DEF t
  <2> QED BY <1>1, <2>1, HoldingMoves
<1> QED BY <1>2, <1>3 DEF CloserSettles, TickRewrites, CloserExits

LEMMA TickReadsLearn ==
    ASSUME LifecycleInv, LearnInv, NEW c \in Tasks, CheckSignalExitForTick(c)
    PROVE  LearnInv'
<1> DEFINE i0 == GetActiveFuturesSignalBySymbol(closer[c].symbol)
           reason == Resolution(book[i0].terms, book[i0].stop, closer[c].px)
           t == [closer[c] EXCEPT !.pc = "settle", !.id = i0, !.reason = reason,
                                  !.resolved = book[i0].resolved]
<1>1. closer[c] \in CloserRec /\ UNCHANGED <<book, learned>>
  BY DEF CheckSignalExitForTick, LifecycleInv, ClosersOf, CloserOf, ghostVars
<1>2. t.id = i0
  BY <1>1 DEF CloserRec
<1>3. i0 # 0 => Active(i0)
  BY NewestRow
<1>4. closer' = [closer EXCEPT ![c] = IF i0 # 0 /\ reason # "NONE" THEN t ELSE Idle]
  BY DEF CheckSignalExitForTick
<1> HIDE DEF i0, reason, t
<1>5. ASSUME NEW i \in 1..MaxSignals
      PROVE  learned[i] = 0 \/ Holding(closer', i) \subseteq Holding(closer, i)
  <2>1. CASE i0 # 0 /\ i = i0
    BY <1>3, <2>1 DEF LearnInv
  <2>2. CASE i0 # 0 /\ i # i0 /\ closer' = [closer EXCEPT ![c] = t]
    BY <1>2, <2>2, HoldingMoves
  <2>3. CASE closer' = [closer EXCEPT ![c] = Idle]
    BY <2>3, IdleCloser, HoldingMoves
  <2> QED BY <1>4, <2>1, <2>2, <2>3
<1> QED BY <1>1, <1>5, BookRests, LearnKept

LEMMA ManualLearn ==
    ASSUME LifecycleInv, LearnInv, NEW c \in Tasks, NEW i0, NEW p,
           CloseFuturesSignalHandler(c, i0, p)
    PROVE  LearnInv'
<1> DEFINE t == [Idle EXCEPT !.pc = "settle", !.id = i0, !.symbol = SymbolOf(i0), !.px = p,
                             !.reason = "MANUAL_EXIT"]
<1>1. UNCHANGED <<book, learned>> /\ Active(i0) /\ closer' = [closer EXCEPT ![c] = t]
  BY DEF CloseFuturesSignalHandler, ghostVars
<1>2. t.id = i0
  BY IdleType DEF CloserRec
<1> HIDE DEF t
<1>3. ASSUME NEW i \in 1..MaxSignals
      PROVE  learned[i] = 0 \/ Holding(closer', i) \subseteq Holding(closer, i)
  <2>1. CASE i = i0
    BY <1>1, <2>1 DEF LearnInv
  <2>2. CASE i # i0
    BY <1>1, <1>2, <2>2, HoldingMoves
  <2> QED BY <2>1, <2>2
<1> QED BY <1>1, <1>3, BookRests, LearnKept

\* Telling hands the row back: one task less has it, one outcome more is fed.
LEMMA TellsLearn ==
    ASSUME LifecycleInv, LearnInv, NEW c \in Tasks, CloserTells(c), Rows(book'),
           Grows(book, book')
    PROVE  LearnInv'
<1>1. PICK i0 \in 1..Len(book) : i0 = closer[c].id
  BY DEF CloserTells, LifecycleInv, ClosersOf, CloserOf, Closing
<1>2. /\ closer[c].pc = "tell" /\ closer[c].pc \in Closing /\ book[i0].status # "ACTIVE"
      /\ learned' = [learned EXCEPT ![i0] = @ + 1]
      /\ closer' = [closer EXCEPT ![c] = Idle] /\ DOMAIN closer = Tasks
  BY <1>1 DEF CloserTells, LifecycleInv, ClosersOf, CloserOf, Closing
<1>3. book'[i0].status # "ACTIVE" /\ i0 \in 1..Len(book')
  BY <1>1, <1>2 DEF Grows, LifecycleInv, Rows
<1>4. DOMAIN learned' = 1..MaxSignals
  BY <1>2 DEF LearnInv
<1>5. ASSUME NEW i \in 1..MaxSignals
      PROVE  /\ learned'[i] \in Nat
             /\ learned'[i] + Cardinality(Holding(closer', i)) <= Cardinality(Tasks)
             /\ (i > Len(book') \/ book'[i].status = "ACTIVE") => learned'[i] = 0
  <2> DEFINE H == Holding(closer, i)
             G == Holding(closer', i)
  <2>1. H \in SUBSET Tasks /\ G \in SUBSET Tasks
    BY DEF Holding
  <2>2. /\ learned[i] \in Nat /\ learned[i] + Cardinality(H) <= Cardinality(Tasks)
        /\ (i > Len(book) \/ Active(i)) => learned[i] = 0
    BY DEF LearnInv
  <2>3. G \subseteq H
    BY <1>2, IdleCloser, HoldingMoves
  <2>4. CASE i = i0
    <3>1. c \in H /\ c \notin G
      BY <1>1, <1>2, <2>4, IdleCloser DEF Holding
    <3> HIDE DEF H, G
    <3>2. Cardinality(G) < Cardinality(H)
      <4>1. IsFiniteSet(H) /\ Cardinality(H) \in Nat /\ Cardinality(G) \in Nat
        BY <2>1, HoldingSize
      <4>2. Cardinality(G) <= Cardinality(H) /\ Cardinality(G) # Cardinality(H)
        BY <2>3, <3>1, <4>1, FS_Subset
      <4> QED BY <4>1, <4>2
    <3>3. learned'[i] = learned[i] + 1
      BY <1>2, <2>4 DEF LearnInv
    <3>4. Cardinality(G) \in Nat /\ Cardinality(H) \in Nat /\ Cardinality(Tasks) \in Nat
      BY <2>1, HoldingSize
    <3>5. learned'[i] + Cardinality(G) <= Cardinality(Tasks)
      BY <2>2, <3>2, <3>3, <3>4
    <3>6. ~(i > Len(book') \/ book'[i].status = "ACTIVE")
      BY <1>3, <2>4
    <3> QED BY <2>2, <3>3, <3>5, <3>6 DEF G
  <2>5. CASE i # i0
    <3>1. learned'[i] = learned[i]
      BY <1>2, <2>5 DEF LearnInv
    <3>2. Cardinality(G) <= Cardinality(H) /\ Cardinality(G) \in Nat /\ Cardinality(H) \in Nat
          /\ Cardinality(Tasks) \in Nat
      <4> HIDE DEF G, H
      <4> QED BY <2>1, <2>3, HoldingSize, FS_Subset
    <3> HIDE DEF H
    <3>3. learned[i] + Cardinality(G) <= Cardinality(Tasks)
      <4> HIDE DEF G
      <4> QED BY <2>2, <3>2
    <3>4. ASSUME i > Len(book') \/ book'[i].status = "ACTIVE" PROVE learned[i] = 0
      <4>1. Len(book) \in Nat /\ Len(book') \in Nat /\ Len(book) <= Len(book')
        BY DEF LifecycleInv, Rows, Grows
      <4>2. CASE i \in 1..Len(book)
        BY <2>2, <3>4, <4>1, <4>2 DEF Grows, Active
      <4>3. CASE i \notin 1..Len(book)
        BY <2>2, <4>1, <4>3
      <4> QED BY <4>2, <4>3
    <3> QED BY <2>2, <3>1, <3>3, <3>4 DEF G
  <2> QED BY <2>4, <2>5
<1> QED BY <1>4, <1>5 DEF LearnInv, Active

LEMMA NextLearn ==
    ASSUME LifecycleInv, LearnInv, [Next]_vars, Rows(book'), Grows(book, book')
    PROVE  LearnInv'
<1>1. ASSUME learned' = learned, closer' = closer PROVE LearnInv'
  BY <1>1, LearnKept
<1>2. CASE UNCHANGED vars
  BY <1>1, <1>2 DEF vars, taskVars, ghostVars
<1>3. CASE Ticks
  <2>1. ASSUME NEW c \in Tasks, NEW s \in Symbols, NEW p \in Prices, IngestTick(c, s, p)
        PROVE  LearnInv'
    <3> DEFINE t == [Idle EXCEPT !.pc = "read", !.symbol = s, !.px = p]
    <3>1. t.pc \notin Closing
      BY IdleType DEF CloserRec, Closing
    <3>2. closer' = [closer EXCEPT ![c] = t] /\ learned' = learned
      BY <2>1 DEF IngestTick, ghostVars
    <3> HIDE DEF t
    <3> QED BY <3>1, <3>2, HoldingMoves, LearnKept
  <2>2. ASSUME NEW c \in Tasks, TickRewrites(c) PROVE LearnInv'
    BY <2>2, SettlesHolding, LearnKept DEF TickRewrites, ghostVars
  <2> QED BY <1>3, <2>1, <2>2, TickReadsLearn DEF Ticks, Tasks
<1>4. CASE Manual
  BY <1>4, ManualLearn DEF Manual, Tasks
<1>5. CASE Closers
  <2>1. ASSUME NEW c \in Tasks, CloserSettles(c) \/ CloserExits(c) PROVE LearnInv'
    BY <2>1, SettlesHolding, LearnKept DEF CloserSettles, CloserExits, ghostVars
  <2> QED BY <1>5, <2>1, TellsLearn DEF Closers, Tasks
<1>6. CASE Evaluates
  BY <1>1, <1>6 DEF Evaluates, EvaluateSymbolSignal, InsertFuturesSignal, EvaluatorEnsures,
                    evalFrame, ghostVars
<1>7. CASE Engine
  BY <1>1, <1>7 DEF Engine, ProcessTick, ProcessEarlyExitVerdict, EvaluateCycle, engineFrame,
                    ghostVars
<1>8. CASE RecWorks \/ ReconcileActiveSignals
  <2>1. recFrame
    BY <1>8 DEF RecWorks, RecVisits, RecSettles, RecRewrites, RecExits, RecMarks, RecMovesStop,
                RecSavesDecay, RecRests, ReconcileActiveSignals
  <2> QED BY <1>1, <2>1 DEF recFrame, ghostVars
<1>9. CASE RehydrateLists \/ RehydrateOpens \/ Pass
  BY <1>1, <1>9 DEF RehydrateLists, RehydrateOpens, Pass, bootFrame, taskVars, ghostVars
<1>10. CASE Restart
  <2>1. learned' = learned /\ \A i \in 1..MaxSignals : Holding(closer', i) = {}
    BY <1>10, IdleCloser DEF Restart, ghostVars, Holding, Tasks
  <2> QED BY <2>1, LearnKept
<1> QED BY <1>2, <1>3, <1>4, <1>5, <1>6, <1>7, <1>8, <1>9, <1>10 DEF Next

\* However many tasks close a row at once, and however the process restarts
\* in between, each of them feeds its outcome to the sampler at most once and
\* none that comes later does.
THEOREM OutcomesAreBounded == Spec => []LearnedOncePerTask
<1>1. Init => LearnInv
  <2> SUFFICES ASSUME Init PROVE LearnInv
    OBVIOUS
  <2>1. \A i \in 1..MaxSignals : learned[i] = 0 /\ Holding(closer, i) = {}
    BY IdleCloser DEF Init, Holding, Tasks
  <2>2. Cardinality({}) = 0 /\ Cardinality(Tasks) \in Nat
    BY HoldingSize, FS_EmptySet
  <2>3. DOMAIN learned = 1..MaxSignals
    BY DEF Init
  <2>4. ASSUME NEW i \in 1..MaxSignals
        PROVE  learned[i] = 0 /\ 0 + Cardinality(Holding(closer, i)) <= Cardinality(Tasks)
    <3>1. Cardinality(Holding(closer, i)) = 0
      BY <2>1, <2>2
    <3> QED BY <2>1, <2>2, <3>1
  <2> QED BY <2>3, <2>4 DEF LearnInv
<1>2. LifecycleInv /\ LearnInv /\ [Next]_vars => LearnInv'
  BY NextOK, NextLearn DEF StepOK, LifecycleInv
<1>3. LifecycleInv /\ LearnInv => LearnedOncePerTask
  <2> SUFFICES ASSUME LifecycleInv, LearnInv, NEW i \in 1..MaxSignals
               PROVE  learned[i] <= Cardinality(DOMAIN closer)
    BY DEF LearnedOncePerTask
  <2> DEFINE H == Holding(closer, i)
  <2>1. DOMAIN closer = Tasks /\ H \in SUBSET Tasks
    BY DEF LifecycleInv, ClosersOf, Holding
  <2>2. learned[i] \in Nat /\ learned[i] + Cardinality(H) <= Cardinality(Tasks)
    BY DEF LearnInv
  <2> HIDE DEF H
  <2>3. Cardinality(H) \in Nat /\ Cardinality(Tasks) \in Nat
    BY <2>1, HoldingSize
  <2> QED BY <2>1, <2>2, <2>3
<1> QED BY <1>1, <1>2, <1>3, LifecycleInvariant, PTL DEF Spec
---------------------------------------------------------------------------
(* Types *)

EngineOffers == Offers \cup {Breakeven(o) : o \in Offers}

LEMMA EngineOffer ==
    ASSUME NEW sig \in EngineOffers
    PROVE  /\ sig.symbol \in Symbols /\ sig.long \in BOOLEAN /\ sig.entry \in Nat \ {0}
           /\ sig.stop \in Nat /\ sig.tp \in Nat /\ sig.leverage \in 1..125
           /\ sig.margin \in Nat /\ E!LiquidationPrice(sig) \in Int
<1>1. ASSUME NEW o \in Offers
      PROVE  o \in [symbol: Symbols, long: BOOLEAN, entry: Nat \ {0}, stop: Nat,
                    tp: Nat, leverage: 1..125, margin: Nat]
  BY LifecycleAssumption
<1>2. CASE sig \in Offers
  BY <1>1, <1>2, LiquidationIsANumber
<1>3. ASSUME NEW o \in Offers, sig = Breakeven(o)
      PROVE  /\ sig.symbol = o.symbol /\ sig.long = o.long /\ sig.entry = o.entry
             /\ sig.stop = BreakevenStopPrice(o, Fees) /\ sig.tp = o.tp
             /\ sig.leverage = o.leverage /\ sig.margin = o.margin
  BY <1>1, <1>3 DEF Breakeven
<1>4. ASSUME NEW o \in Offers, sig = Breakeven(o)
      PROVE  E!LiquidationPrice(sig) = E!LiquidationPrice(o)
  BY <1>3, <1>4 DEF E!LiquidationPrice
<1>5. CASE sig \notin Offers
  <2>1. PICK o \in Offers : sig = Breakeven(o)
    BY <1>5 DEF EngineOffers
  <2>2. BreakevenStopPrice(o, Fees) \in Nat
    BY LifecycleAssumption
  <2>3. E!LiquidationPrice(sig) \in Int
    BY <1>4, <2>1, LiquidationIsANumber
  <2> QED BY <1>1, <1>3, <2>1, <2>2, <2>3
<1> QED BY <1>2, <1>5

LEMMA WholeParts ==
    ASSUME NEW a \in Int, NEW b \in Nat \ {0}
    PROVE  a \div b \in Int /\ (a >= 0 => a \div b \in Nat)
  OBVIOUS

LEMMA OpenedIsATrade ==
    ASSUME NEW sig \in EngineOffers, orderCounter \in Nat
    PROVE  E!NewTrade(sig) \in E!Trade
<1>1. /\ sig.symbol \in Symbols /\ sig.long \in BOOLEAN /\ sig.entry \in Nat \ {0}
      /\ sig.stop \in Nat /\ sig.tp \in Nat /\ sig.leverage \in 1..125
      /\ sig.margin \in Nat /\ E!LiquidationPrice(sig) \in Int
  BY EngineOffer
<1>2. (sig.margin * sig.leverage) \div sig.entry \in Nat
  <2> DEFINE n == sig.margin * sig.leverage
  <2>1. n \in Int /\ n >= 0
    BY <1>1
  <2> HIDE DEF n
  <2>2. n \div sig.entry \in Nat
    BY <1>1, <2>1, WholeParts
  <2> QED BY <2>2 DEF n
<1>3. orderCounter + 1 \in Nat \ {0}
  OBVIOUS
<1> QED BY <1>1, <1>2, <1>3 DEF E!NewTrade, E!Trade

\* What a close hands back is a number, and never less than nothing.
LEMMA HandedBack ==
    ASSUME NEW t \in E!Trade, NEW p \in Nat
    PROVE  E!Proceeds(t, p) \in Nat
<1>1. t.size \in Nat /\ t.entry \in Nat \ {0} /\ t.leverage \in Nat \ {0}
  BY DEF E!Trade
<1>2. E!Margin(t) \in Int
  <2> DEFINE n == t.size * t.entry
  <2>1. n \in Int
    BY <1>1
  <2> HIDE DEF n
  <2>2. n \div t.leverage \in Int
    BY <1>1, <2>1, WholeParts
  <2> QED BY <2>2 DEF E!Margin, n
<1>3. E!RealizedPnL(t, p) \in Int
  <2> DEFINE fill == E!EffectivePrice(t, p)
             n == t.size * fill
             diff == IF t.long THEN fill - t.entry ELSE t.entry - fill
  <2>1. fill \in Int
    <3>1. p \div SpreadDivisor \in Int
      BY EngineAssumption, WholeParts
    <3> QED BY <3>1 DEF E!EffectivePrice
  <2> HIDE DEF fill
  <2>2. n \in Int /\ diff \in Int
    BY <1>1, <2>1
  <2> HIDE DEF n, diff
  <2>3. n \div FeeDivisor \in Int /\ diff * t.size \in Int
    BY <1>1, <2>2, EngineAssumption, WholeParts
  <2> QED BY <2>3 DEF E!RealizedPnL, fill, n, diff
<1> QED BY <1>2, <1>3 DEF E!Proceeds

LEMMA SettlingType ==
    ASSUME E!TypeOK, NEW s \in Symbols, E!IsOpen(s), NEW p \in Nat, NEW r \in E!Reasons,
           E!closePositionLocked(s, p, r)
    PROVE  E!TypeOK'
<1> DEFINE t == positions[s]
           back == E!Proceeds(t, p)
           c == [trade |-> t, quote |-> p, reason |-> r, proceeds |-> back]
<1>1. t \in E!Trade
  BY DEF E!TypeOK, E!IsOpen
<1>2. back \in Nat
  BY <1>1, HandedBack
<1>3. /\ cash' = cash + back /\ positions' = [positions EXCEPT ![s] = NoTrade]
      /\ closedTrades' = Append(closedTrades, c) /\ orderCounter' = orderCounter
  BY DEF E!closePositionLocked
<1> HIDE DEF back, t
<1>4. c \in E!ClosedTrade
  BY <1>1, <1>2 DEF E!ClosedTrade
<1> HIDE DEF c
<1>5. closedTrades' \in Seq(E!ClosedTrade)
  BY <1>3, <1>4 DEF E!TypeOK
<1>6. positions' \in [Symbols -> E!Trade \cup {NoTrade}]
  BY <1>3 DEF E!TypeOK
<1> QED BY <1>2, <1>3, <1>5, <1>6 DEF E!TypeOK

\* The engine keeps its types under whatever the lifecycle asks of it.
LEMMA EngineTypes ==
    ASSUME E!TypeOK, [E!Next]_(E!vars)
    PROVE  E!TypeOK'
<1>1. CASE UNCHANGED E!vars
  BY <1>1 DEF E!TypeOK, E!vars
<1>2. ASSUME NEW sig \in EngineOffers, E!OpenPositionFromSignal(sig) PROVE E!TypeOK'
  <2>1. sig.symbol \in Symbols /\ sig.margin \in Nat
    BY EngineOffer
  <2>2. E!NewTrade(sig) \in E!Trade
    BY OpenedIsATrade DEF E!TypeOK
  <2>3. CASE ~E!IsOpen(sig.symbol) /\ sig.margin <= cash
    <3>1. /\ cash' = cash - sig.margin /\ orderCounter' = orderCounter + 1
          /\ positions' = [positions EXCEPT ![sig.symbol] = E!NewTrade(sig)]
          /\ closedTrades' = closedTrades
      BY <1>2, <2>1, <2>3 DEF E!OpenPositionFromSignal, E!TypeOK
    <3>2. positions' \in [Symbols -> E!Trade \cup {NoTrade}]
      BY <2>1, <2>2, <3>1 DEF E!TypeOK
    <3>3. cash' \in Nat
      BY <2>1, <2>3, <3>1 DEF E!TypeOK
    <3> QED BY <3>1, <3>2, <3>3 DEF E!TypeOK
  <2>4. CASE ~E!IsOpen(sig.symbol) /\ sig.margin > cash
    BY <1>2, <2>4 DEF E!OpenPositionFromSignal, E!TypeOK
  <2>5. CASE E!IsOpen(sig.symbol)
    BY <1>1, <1>2, <2>5 DEF E!OpenPositionFromSignal
  <2>6. sig.margin <= cash \/ sig.margin > cash
    BY <2>1 DEF E!TypeOK
  <2> QED BY <2>3, <2>4, <2>5, <2>6
<1>3. ASSUME NEW s \in Symbols, NEW p \in Prices, E!CheckExit(s, p) PROVE E!TypeOK'
  <2>1. E!Crossed(positions[s], p) \in E!Reasons \cup {"NONE"} /\ p \in Nat
    BY PricesAreNat DEF E!Crossed, E!Reasons
  <2> QED BY <1>1, <1>3, <2>1, SettlingType DEF E!CheckExit
<1>4. ASSUME NEW s \in Symbols, NEW p \in Prices \cup {0},
             NEW r \in {"MANUAL_EXIT", "TIME_EXIT", "NEWS_EARLY_EXIT"},
             E!ForceClosePosition(s, p, r)
      PROVE  E!TypeOK'
  <2>1. r \in E!Reasons /\ p \in Nat
    BY PricesAreNat DEF E!Reasons
  <2>2. CASE E!IsOpen(s)
    <3>1. positions[s].entry \in Nat
      BY <2>2 DEF E!TypeOK, E!IsOpen, E!Trade
    <3>2. (IF p = 0 THEN positions[s].entry ELSE p) \in Nat
      BY <2>1, <3>1
    <3> QED BY <1>4, <2>1, <2>2, <3>2, SettlingType DEF E!ForceClosePosition
  <2>3. CASE ~E!IsOpen(s)
    BY <1>1, <1>4, <2>3 DEF E!ForceClosePosition
  <2> QED BY <2>2, <2>3
<1>5. CASE E!NewExecutionEngine
  BY <1>5, EngineAssumption DEF E!NewExecutionEngine, E!TypeOK
<1> QED BY <1>1, <1>2, <1>3, <1>4, <1>5 DEF E!Next, E!Open, EngineOffers

\* The rows there are and those about to be inserted stay within the bound.
RoomInv ==
    /\ E!TypeOK
    /\ Len(book) + Cardinality(Inserting) <= MaxSignals
    /\ phase \in {"boot", "reconcile", "rehydrate", "opening", "up"}

LEMMA InsertingSize ==
    ASSUME NEW T \in SUBSET Evaluators
    PROVE  IsFiniteSet(T) /\ Cardinality(T) \in Nat
<1>1. IsFiniteSet(Evaluators)
  BY LifecycleAssumption
<1> QED BY <1>1, FS_Subset, FS_CardinalityType

LEMMA RoomKept ==
    ASSUME LifecycleInv, LifecycleInv', RoomInv, EngineStep, DOMAIN book' = DOMAIN book,
           Inserting' \subseteq Inserting,
           phase' \in {"boot", "reconcile", "rehydrate", "opening", "up"}
    PROVE  RoomInv'
<1>1. Len(book') = Len(book) /\ Len(book) \in Nat
  BY DEF LifecycleInv, Rows
<1> DEFINE T == Inserting
           U == Inserting'
<1>2. T \in SUBSET Evaluators /\ U \subseteq T
  BY DEF Inserting
<1>3. Len(book) + Cardinality(T) <= MaxSignals
  BY DEF RoomInv
<1>4. Len(book') + Cardinality(U) <= MaxSignals
  <2> HIDE DEF T, U
  <2>1. /\ Cardinality(T) \in Nat /\ Cardinality(U) \in Nat /\ IsFiniteSet(T)
        /\ Cardinality(U) <= Cardinality(T)
    BY <1>2, InsertingSize, FS_Subset
  <2> QED BY <1>1, <1>3, <2>1, LifecycleAssumption
<1>5. E!TypeOK'
  BY EngineTypes DEF RoomInv, EngineStep
<1> QED BY <1>4, <1>5 DEF RoomInv

LEMMA EvaluateRoom ==
    ASSUME LifecycleInv, LifecycleInv', RoomInv, EngineStep,
           NEW e \in Evaluators, NEW o \in Offers, EvaluateSymbolSignal(e, o)
    PROVE  RoomInv'
<1>1. book' = book /\ phase' = phase /\ DOMAIN eval = Evaluators
  BY DEF EvaluateSymbolSignal, evalFrame, bootVars, LifecycleInv, EvalsOf
<1>2. ASSUME NEW v, eval' = [eval EXCEPT ![e] = v], v.pc # "insert" PROVE RoomInv'
  <2>1. Inserting' \subseteq Inserting
    BY <1>1, <1>2 DEF Inserting
  <2> QED BY <1>1, <2>1, RoomKept DEF RoomInv
<1>3. ASSUME NEW v, eval' = [eval EXCEPT ![e] = v], eval[e].pc = "idle",
             Len(book) + Cardinality(Inserting) < MaxSignals
      PROVE  RoomInv'
  <2> DEFINE T == Inserting
             U == Inserting'
  <2>1. T \in SUBSET Evaluators /\ U \in SUBSET Evaluators /\ U \subseteq T \cup {e}
        /\ e \notin T
    BY <1>1, <1>3 DEF Inserting
  <2>2. Len(book) \in Nat /\ Len(book) + Cardinality(T) < MaxSignals
    BY <1>3 DEF LifecycleInv, Rows
  <2>3. Len(book') + Cardinality(U) <= MaxSignals
    <3> HIDE DEF T, U
    <3>1. /\ Cardinality(T) \in Nat /\ Cardinality(U) \in Nat
          /\ IsFiniteSet(T) /\ IsFiniteSet(T \cup {e})
          /\ Cardinality(T \cup {e}) = Cardinality(T) + 1
      BY <2>1, InsertingSize, FS_AddElement
    <3>2. Cardinality(U) <= Cardinality(T) + 1
      BY <2>1, <3>1, FS_Subset
    <3> QED BY <1>1, <2>2, <3>1, <3>2, LifecycleAssumption
  <2>4. E!TypeOK'
    BY EngineTypes DEF RoomInv, EngineStep
  <2> QED BY <1>1, <2>3, <2>4 DEF RoomInv
<1>4. [Pending EXCEPT !.pc = "ensure", !.snap = Snapshot(GetActiveFuturesSignalBySymbol(o.symbol))].pc
        # "insert"
  BY DEF Pending
<1> QED BY <1>2, <1>3, <1>4 DEF EvaluateSymbolSignal

LEMMA InsertRoom ==
    ASSUME LifecycleInv, LifecycleInv', RoomInv, EngineStep,
           NEW e \in Evaluators, InsertFuturesSignal(e)
    PROVE  RoomInv'
<1>1. eval[e].pc = "insert" /\ phase' = phase /\ DOMAIN eval = Evaluators
  BY DEF InsertFuturesSignal, evalFrame, bootVars, LifecycleInv, EvalsOf
<1>2. ASSUME NEW v, eval' = [eval EXCEPT ![e] = v], v.pc # "insert"
      PROVE  Inserting' \subseteq Inserting /\ e \in Inserting /\ e \notin Inserting'
  BY <1>1, <1>2 DEF Inserting
<1>3. CASE book' = book /\ eval' = [eval EXCEPT ![e] = Pending]
  <2>1. Pending.pc # "insert"
    BY DEF Pending
  <2> QED BY <1>1, <1>2, <1>3, <2>1, RoomKept DEF RoomInv
<1>4. ASSUME NEW row, book' = Append(book, row), NEW snap,
             eval' = [eval EXCEPT ![e] = [Pending EXCEPT !.pc = "ensure", !.snap = snap]]
      PROVE  RoomInv'
  <2> DEFINE T == Inserting
             U == Inserting'
             v == [Pending EXCEPT !.pc = "ensure", !.snap = snap]
  <2>1. v.pc # "insert"
    BY DEF Pending
  <2> HIDE DEF v
  <2>2. T \in SUBSET Evaluators /\ U \subseteq T /\ e \in T /\ e \notin U
    BY <1>2, <1>4, <2>1 DEF v, Inserting
  <2>3. /\ Len(book) \in Nat /\ Len(book') = Len(book) + 1
        /\ Len(book) + Cardinality(T) <= MaxSignals
    BY <1>4 DEF LifecycleInv, Rows, RoomInv
  <2>4. Len(book') + Cardinality(U) <= MaxSignals
    <3> HIDE DEF T, U
    <3>1. /\ Cardinality(T) \in Nat /\ Cardinality(U) \in Nat /\ IsFiniteSet(T)
          /\ Cardinality(U) <= Cardinality(T) /\ Cardinality(U) # Cardinality(T)
      BY <2>2, InsertingSize, FS_Subset
    <3> QED BY <2>3, <3>1, LifecycleAssumption
  <2>5. E!TypeOK'
    BY EngineTypes DEF RoomInv, EngineStep
  <2> QED BY <1>1, <2>4, <2>5 DEF RoomInv
<1> QED BY <1>3, <1>4 DEF InsertFuturesSignal

LEMMA NextRoom ==
    ASSUME LifecycleInv, LifecycleInv', RoomInv, EngineStep, [Next]_vars
    PROVE  RoomInv'
<1> DEFINE Same == DOMAIN book' = DOMAIN book /\ eval' = eval
           Phases == {"boot", "reconcile", "rehydrate", "opening", "up"}
<1>1. phase \in Phases
  BY DEF RoomInv
<1>2. ASSUME Same, phase' \in Phases PROVE RoomInv'
  BY <1>2, RoomKept DEF Inserting
<1>3. ASSUME NEW i, NEW p, NEW r, CloseFuturesSignal(i, p, r) PROVE DOMAIN book' = DOMAIN book
  BY <1>3 DEF CloseFuturesSignal
<1>4. CASE UNCHANGED vars
  BY <1>1, <1>2, <1>4 DEF vars, taskVars, bootVars
<1>5. CASE Ticks \/ Manual \/ Closers
  <2>1. phase' = phase /\ eval' = eval
    BY <1>5 DEF Ticks, Manual, Closers, IngestTick, CheckSignalExitForTick, TickRewrites,
         CloseFuturesSignalHandler, CloserSettles, CloserExits, CloserTells, bootVars
  <2>2. DOMAIN book' = DOMAIN book
    BY <1>3, <1>5 DEF Ticks, Manual, Closers, IngestTick, CheckSignalExitForTick, TickRewrites,
         CloseFuturesSignalHandler, CloserSettles, CloserExits, CloserTells, MarkSignalResolved
  <2> QED BY <1>1, <1>2, <2>1, <2>2
<1>6. CASE RecWorks \/ ReconcileActiveSignals
  <2>1. recFrame
    BY <1>6 DEF RecWorks, RecVisits, RecSettles, RecRewrites, RecExits, RecMarks, RecMovesStop,
                RecSavesDecay, RecRests, ReconcileActiveSignals
  <2>2. phase' \in Phases
    BY <1>1, <1>6 DEF RecWorks, RecVisits, RecSettles, RecRewrites, RecExits, RecMarks,
                RecMovesStop, RecSavesDecay, RecRests, ReconcileActiveSignals
  <2>3. DOMAIN book' = DOMAIN book
    BY <1>3, <1>6 DEF RecWorks, RecVisits, RecSettles, RecRewrites, RecExits, RecMarks,
                RecMovesStop, RecSavesDecay, RecRests, ReconcileActiveSignals,
                UpdateSignalDecay, UpdateSignalStop
  <2> QED BY <1>2, <2>1, <2>2, <2>3 DEF recFrame
<1>7. CASE Engine
  BY <1>1, <1>2, <1>7 DEF Engine, ProcessTick, ProcessEarlyExitVerdict, EvaluateCycle,
                          engineFrame, bootVars
<1>8. CASE RehydrateLists \/ RehydrateOpens
  BY <1>1, <1>2, <1>8 DEF RehydrateLists, RehydrateOpens, bootFrame, taskVars
<1>9. CASE Pass
  BY <1>1, <1>2, <1>9 DEF Pass, taskVars, bootVars, Ids, LifecycleInv, Rows
<1>10. CASE Restart
  <2>1. Inserting' = {} /\ phase' \in Phases /\ book' = book
    BY <1>10 DEF Restart, Inserting, Pending
  <2> QED BY <2>1, RoomKept
<1>11. CASE Evaluates
  <2>1. ASSUME NEW e \in Evaluators, EvaluatorEnsures(e) PROVE RoomInv'
    <3>1. Inserting' \subseteq Inserting
      BY <2>1 DEF EvaluatorEnsures, Inserting, Pending, LifecycleInv, EvalsOf
    <3>2. book' = book /\ phase' = phase
      BY <2>1 DEF EvaluatorEnsures, evalFrame, bootVars
    <3> QED BY <1>1, <3>1, <3>2, RoomKept
  <2> QED BY <1>11, <2>1, EvaluateRoom, InsertRoom DEF Evaluates
<1> QED BY <1>4, <1>5, <1>6, <1>7, <1>8, <1>9, <1>10, <1>11 DEF Next

\* Rows, positions and tasks keep their shape, a task that names a row names
\* one that exists, no evaluator inserts past the bound, and a position has an
\* owner exactly while it is open.
THEOREM TypeCorrect == Spec => []TypeOK
<1>1. Init => RoomInv
  <2> SUFFICES ASSUME Init PROVE RoomInv
    OBVIOUS
  <2>1. E!TypeOK
    BY EngineAssumption DEF Init, E!Init, E!TypeOK
  <2>2. Inserting = {} /\ Len(book) = 0 /\ Cardinality({}) = 0
    BY FS_EmptySet DEF Init, Inserting, Pending
  <2>3. Len(book) + Cardinality(Inserting) <= MaxSignals
    <3>1. Cardinality(Inserting) = 0
      BY <2>2
    <3> QED BY <2>2, <3>1, LifecycleAssumption
  <2>4. phase = "boot"
    BY DEF Init
  <2> QED BY <2>1, <2>3, <2>4 DEF RoomInv
<1>2. LifecycleInv /\ RoomInv /\ [Next]_vars => RoomInv'
  BY NextOK, NextRoom DEF StepOK
<1>3. LifecycleInv /\ OwnersInv /\ RoomInv => TypeOK
  <2> SUFFICES ASSUME LifecycleInv, OwnersInv, RoomInv PROVE TypeOK
    OBVIOUS
  <2>1. Len(book) \in Nat /\ Len(book) <= MaxSignals
    <3>1. Len(book) \in Nat /\ Inserting \in SUBSET Evaluators
      BY DEF LifecycleInv, Rows, Inserting
    <3>2. Cardinality(Inserting) \in Nat
      BY <3>1, InsertingSize
    <3> QED BY <3>1, <3>2, LifecycleAssumption DEF RoomInv
  <2>2. \A i \in Ids : book[i] \in Row
    BY DEF LifecycleInv, Rows, Ids
  <2>3. ASSUME NEW c \in DOMAIN closer
        PROVE  /\ closer[c].pc \in {"idle", "read", "settle", "rewrite", "engine", "tell"}
               /\ closer[c].pc \in {"settle", "rewrite", "engine", "tell"} =>
                     closer[c].id \in Ids /\ closer[c].reason # "NONE" /\ closer[c].px > 0
    <3>1. CloserOf(book, closer[c])
      BY DEF LifecycleInv, ClosersOf
    <3>2. closer[c].pc \in {"idle", "read"} \cup Closing
      BY <3>1 DEF CloserOf, CloserRec
    <3>3. ASSUME closer[c].pc \in Closing
          PROVE  closer[c].id \in Ids /\ closer[c].reason # "NONE" /\ closer[c].px > 0
      <4>1. closer[c].pc # "idle" /\ closer[c].id \in Ids /\ closer[c].reason \in CloseReasons
        BY <3>1, <3>3 DEF CloserOf, Closing, Ids
      <4>2. closer[c].px \in Prices /\ "NONE" \notin CloseReasons
        BY <3>1, <4>1 DEF CloserOf, CloseReasons
      <4>3. closer[c].px > 0
        <5>1. Prices \subseteq Nat \ {0}
          BY LifecycleAssumption
        <5> DEFINE px == closer[c].px
        <5>2. px \in Nat \ {0}
          BY <4>2, <5>1
        <5> HIDE DEF px
        <5>3. px > 0
          BY <5>2
        <5> QED BY <5>3 DEF px
      <4> QED BY <4>1, <4>2, <4>3
    <3> QED BY <3>2, <3>3 DEF Closing
  <2>4. ASSUME NEW i \in DOMAIN rec.todo
        PROVE  i \in Ids /\ rec.todo[i] \in Snap /\ rec.todo[i].id = i
    <3>1. SnapOf(book, rec.todo[i]) /\ rec.todo[i].id = i /\ i \in Ids
      BY DEF LifecycleInv, RecOf, ListOf, Ids
    <3>2. book[i].terms \in Offers /\ rec.todo[i].stop \in StopsOf(book[i].terms)
      BY <3>1, RowOf DEF LifecycleInv, SnapOf, Ids
    <3>3. rec.todo[i].stop \in Nat
      BY <3>2, OfferType DEF StopsOf
    <3>4. i \in 0..MaxSignals
      BY <2>1, <3>1, LifecycleAssumption DEF Ids
    <3> QED BY <3>1, <3>3, <3>4 DEF SnapOf, Snap
  <2>5. /\ rec.pc \in {"idle", "item", "settle", "rewrite", "engine", "mark", "stop", "protect"}
        /\ rec.pc \notin {"idle", "item"} => DOMAIN rec.todo # {}
    BY DEF LifecycleInv, RecOf, RecPlaces
  <2>6. \A e \in Evaluators : eval[e].pc = "ensure" => eval[e].snap.id \in Ids
    BY DEF LifecycleInv, EvalsOf, EvalOf, SnapOf, Ids
  <2>7. \A s \in Symbols : (owner[s] = NoOwner) = (positions[s] = NoTrade)
    <3> SUFFICES ASSUME NEW s \in Symbols
                 PROVE  (owner[s] = NoOwner) <=> (positions[s] = NoTrade)
      OBVIOUS
    <3>1. CASE positions[s] # NoTrade
      <4>1. owner[s].id # 0
        BY <3>1, PlacedRow
      <4> QED BY <3>1, <4>1 DEF NoOwner
    <3>2. CASE positions[s] = NoTrade
      BY <3>2 DEF OwnersInv
    <3> QED BY <3>1, <3>2
  <2> QED BY <2>1, <2>2, <2>3, <2>4, <2>5, <2>6, <2>7 DEF TypeOK, RoomInv, LifecycleInv
<1> QED BY <1>1, <1>2, <1>3, LifecycleInvariant, OwnersInvariant, PTL DEF Spec
=============================================================================
