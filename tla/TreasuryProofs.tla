--------------------------- MODULE TreasuryProofs ---------------------------
(***************************************************************************)
(* What holds of the investor ledger for every set of investors, any       *)
(* number of requests, all amounts and every first ledger: transactions    *)
(* add up to the holdings whatever price they work with, the reserve has   *)
(* lost what the ledger paid out, and the handlers, step by step,          *)
(* implement the single balanced movements of InvestorLedger.              *)
(***************************************************************************)
EXTENDS Treasury, Sums

---------------------------------------------------------------------------
(* The inductive invariant *)

RowFields == {"active", "deposited", "withdrawn", "units"}

CallFields == {"op", "who", "amount", "reserve", "equity", "nav", "units", "held", "pc"}

Shapes ==
    /\ DOMAIN ledger = Investors
    /\ \A i \in Investors : DOMAIN ledger[i] = RowFields
    /\ DOMAIN booked = Investors
    /\ rowLock \in [Investors -> Calls \cup {NoCall}]
    /\ DOMAIN call = Calls

\* Who has no row has no units.
NoRowNoUnits == \A i \in Investors : ~ledger[i].active => ledger[i].units = 0

Opens(c) == call[c].op \in {"create", "seed"}

Trades(c) == call[c].op \in {"deposit", "withdraw"}

\* A transaction on a row that is there holds its lock and, when it redeems,
\* has read the units that are still in it; one that brings a row into being
\* finds none until it commits.
Sound(c) ==
    /\ {"op", "pc"} \subseteq DOMAIN call[c]
    /\ call[c].op # "none" => DOMAIN call[c] = CallFields /\ call[c].who \in Investors
    /\ call[c].op = "none" => call[c].pc = "idle"
    /\ call[c].op \in Ops \cup {"none"}
    /\ call[c].pc = "count" => Opens(c)
    /\ Opens(c) /\ call[c].pc \in {"gate", "equity", "count", "lock", "sum", "commit"} =>
          ~ledger[call[c].who].active
    /\ Trades(c) /\ call[c].pc \in {"sum", "commit"} =>
          rowLock[call[c].who] = c /\ ledger[call[c].who].active
    /\ call[c].op = "withdraw" /\ call[c].pc \in {"sum", "commit"} =>
          call[c].held = ledger[call[c].who].units
    /\ call[c].op = "withdraw" /\ call[c].pc = "commit" => ~(call[c].held < call[c].units)

\* No two requests open the same row.
OpenedOnce == \A c, d \in Calls : c # d /\ Opens(c) /\ Opens(d) => call[c].who # call[d].who

LedgerInv ==
    /\ Shapes
    /\ JournalExplainsHoldings
    /\ NoRowNoUnits
    /\ \A c \in Calls : Sound(c)
    /\ OpenedOnce
---------------------------------------------------------------------------
(* One request moves on *)

\* A step of one request that leaves the ledger alone, and every lock but its
\* own, has only that request to answer for.
LEMMA OwnStep ==
    ASSUME LedgerInv, NEW c \in Calls, UNCHANGED <<ledger, booked>>,
           DOMAIN call' = Calls, \A d \in Calls \ {c} : call'[d] = call[d],
           rowLock' \in [Investors -> Calls \cup {NoCall}],
           \A i \in Investors : rowLock[i] \in Calls \ {c} => rowLock'[i] = rowLock[i],
           call'[c].op = call[c].op, call'[c].who = call[c].who, Sound(c)'
    PROVE  LedgerInv'
<1>1. Shapes' /\ JournalExplainsHoldings' /\ NoRowNoUnits'
  BY DEF LedgerInv, Shapes, JournalExplainsHoldings, NoRowNoUnits
<1>2. \A d \in Calls : Sound(d)'
  <2> TAKE d \in Calls
  <2>1. CASE d = c
    BY <2>1
  <2>2. CASE d # c
    <3>1. call'[d] = call[d] /\ Sound(d)
      BY <2>2 DEF LedgerInv
    <3>2. Trades(d) /\ call[d].pc \in {"sum", "commit"} =>
              rowLock'[call[d].who] = d /\ ledger'[call[d].who].active
      <4> SUFFICES ASSUME Trades(d), call[d].pc \in {"sum", "commit"}
                   PROVE  rowLock'[call[d].who] = d /\ ledger'[call[d].who].active
        OBVIOUS
      <4>1. call[d].who \in Investors
        BY <3>1 DEF Sound, Trades
      <4>2. rowLock[call[d].who] = d /\ ledger[call[d].who].active
        BY <3>1 DEF Sound
      <4> QED BY <2>2, <4>1, <4>2
    <3> QED BY <3>1, <3>2 DEF Sound, Opens, Trades
  <2> QED BY <2>1, <2>2
<1>3. OpenedOnce'
  BY DEF LedgerInv, OpenedOnce, Opens
<1> QED BY <1>1, <1>2, <1>3 DEF LedgerInv

\* Letting go of one's locks leaves the others'.
LEMMA Unlocking ==
    ASSUME Shapes, NEW c \in Calls, Unlock(c)
    PROVE  /\ rowLock' \in [Investors -> Calls \cup {NoCall}]
           /\ \A i \in Investors : rowLock[i] \in Calls \ {c} => rowLock'[i] = rowLock[i]
  BY DEF Shapes, Unlock

\* A request that is at work has all the fields of one.
LEMMA AtWork ==
    ASSUME LedgerInv, NEW c \in Calls, call[c].pc # "idle"
    PROVE  /\ DOMAIN call[c] = CallFields
           /\ call[c].who \in Investors
           /\ call[c].op \in Ops
           /\ Sound(c)
  BY DEF LedgerInv, Sound

LEMMA GotoStep ==
    ASSUME LedgerInv, NEW c \in Calls, NEW step, call[c].pc # "idle", Goto(c, step)
    PROVE  /\ DOMAIN call' = Calls
           /\ \A d \in Calls \ {c} : call'[d] = call[d]
           /\ DOMAIN call'[c] = CallFields
           /\ call'[c].pc = step
           /\ \A f \in CallFields \ {"pc"} : call'[c][f] = call[c][f]
  BY AtWork DEF LedgerInv, Shapes, Goto, CallFields

\* A request that stops, for good or until the reserve is settled, answers
\* for nothing any more.
LEMMA StopStep ==
    ASSUME LedgerInv, NEW c \in Calls, call[c].pc # "idle",
           NEW step \in {"done", "rejected", "refused", "settle", "lost"},
           DOMAIN call'[c] = CallFields, call'[c].pc = step,
           call'[c].op = call[c].op, call'[c].who = call[c].who
    PROVE  Sound(c)'
<1>1. call[c].who \in Investors /\ call[c].op \in Ops
  BY AtWork
<1> QED BY <1>1 DEF Sound, Opens, Trades, Ops, CallFields

---------------------------------------------------------------------------
(* Steps that leave the ledger alone *)

LEMMA RequestStep ==
    ASSUME LedgerInv, TreasuryAssumption, NEW c \in Calls, NEW op \in Ops,
           NEW i \in Investors, NEW a, Request(c, op, i, a)
    PROVE  LedgerInv'
<1>1. /\ DOMAIN call' = Calls
      /\ \A d \in Calls \ {c} : call'[d] = call[d]
      /\ DOMAIN call'[c] = CallFields
      /\ call'[c].op = op /\ call'[c].who = i
      /\ call'[c].pc = CASE op = "withdraw" -> "gate" [] op = "seed" -> "count"
                         [] OTHER -> "equity"
  BY DEF Request, LedgerInv, Shapes, CallFields
<1>2. UNCHANGED <<ledger, booked, rowLock>>
  BY DEF Request
<1>3. op \in {"create", "seed"} =>
         ~ledger[i].active
         /\ \A d \in Calls : call[d].op \in {"create", "seed"} => call[d].who # i
  BY DEF Request
<1>4. Sound(c)'
  BY <1>1, <1>2, <1>3 DEF Sound, Opens, Trades, Ops, CallFields
<1>5. \A d \in Calls : Sound(d)'
  <2> TAKE d \in Calls
  <2>1. CASE d # c
    <3>1. Sound(d) /\ call'[d] = call[d]
      BY <1>1, <2>1 DEF LedgerInv
    <3> QED BY <1>2, <3>1 DEF Sound, Opens, Trades
  <2> QED BY <1>4, <2>1
<1>6. Shapes' /\ JournalExplainsHoldings' /\ NoRowNoUnits'
  BY <1>1, <1>2 DEF LedgerInv, Shapes, JournalExplainsHoldings, NoRowNoUnits
<1>7. OpenedOnce'
  <2> SUFFICES ASSUME NEW d \in Calls, NEW e \in Calls, d # e, Opens(d)', Opens(e)'
               PROVE  call'[d].who # call'[e].who
    BY DEF OpenedOnce, Opens
  <2>1. CASE d # c /\ e # c
    BY <1>1, <2>1 DEF LedgerInv, OpenedOnce, Opens
  <2>2. CASE d = c
    BY <1>1, <1>3, <2>2 DEF Opens
  <2>3. CASE e = c
    BY <1>1, <1>3, <2>3 DEF Opens
  <2> QED BY <2>1, <2>2, <2>3
<1> QED BY <1>5, <1>6, <1>7 DEF LedgerInv

LEMMA ReserveGateStep ==
    ASSUME LedgerInv, NEW c \in Calls, ReserveGate(c)
    PROVE  LedgerInv'
<1>1. Sound(c) /\ call[c].pc = "gate" /\ DOMAIN call[c] = CallFields
  BY AtWork DEF ReserveGate, At
<1>2. /\ DOMAIN call' = Calls
      /\ \A d \in Calls \ {c} : call'[d] = call[d]
      /\ DOMAIN call'[c] = CallFields
      /\ call'[c].op = call[c].op /\ call'[c].who = call[c].who
      /\ call'[c].pc \in {"rejected", "equity"}
  BY <1>1 DEF ReserveGate, LedgerInv, Shapes, CallFields
<1>3. UNCHANGED <<ledger, booked, rowLock>>
  BY DEF ReserveGate
<1>4. Sound(c)'
  BY <1>1, <1>2, <1>3 DEF Sound, Opens, Trades, CallFields
<1> QED BY <1>2, <1>3, <1>4, OwnStep DEF LedgerInv, Shapes

LEMMA ReadEquityStep ==
    ASSUME LedgerInv, NEW c \in Calls, ReadEquity(c)
    PROVE  LedgerInv'
<1>1. Sound(c) /\ call[c].pc = "equity" /\ DOMAIN call[c] = CallFields
  BY AtWork DEF ReadEquity, At
<1>2. /\ DOMAIN call' = Calls
      /\ \A d \in Calls \ {c} : call'[d] = call[d]
      /\ DOMAIN call'[c] = CallFields
      /\ call'[c].op = call[c].op /\ call'[c].who = call[c].who
      /\ call'[c].pc = IF call[c].op = "create" THEN "sum" ELSE "lock"
  BY <1>1 DEF ReadEquity, LedgerInv, Shapes, CallFields
<1>3. UNCHANGED <<ledger, booked, rowLock>>
  BY DEF ReadEquity
<1>4. Sound(c)'
  BY <1>1, <1>2, <1>3 DEF Sound, Opens, Trades, CallFields
<1> QED BY <1>2, <1>3, <1>4, OwnStep DEF LedgerInv, Shapes

LEMMA CountActiveStep ==
    ASSUME LedgerInv, NEW c \in Calls, CountActive(c)
    PROVE  LedgerInv'
<1>1. Sound(c) /\ call[c].pc = "count" /\ Opens(c) /\ DOMAIN call[c] = CallFields
  BY AtWork DEF CountActive, At, Sound
<1>2. /\ DOMAIN call' = Calls
      /\ \A d \in Calls \ {c} : call'[d] = call[d]
      /\ DOMAIN call'[c] = CallFields
      /\ call'[c].op = call[c].op /\ call'[c].who = call[c].who
      /\ call'[c].pc \in {"done", "sum"}
  BY <1>1 DEF CountActive, LedgerInv, Shapes, CallFields
<1>3. UNCHANGED <<ledger, booked, rowLock>>
  BY DEF CountActive
<1>4. Sound(c)'
  BY <1>1, <1>2, <1>3 DEF Sound, Opens, Trades, CallFields
<1> QED BY <1>2, <1>3, <1>4, OwnStep DEF LedgerInv, Shapes

\* The lock is taken only when nobody has it, and with it what the row holds.
LEMMA LockRowStep ==
    ASSUME LedgerInv, TreasuryAssumption, NEW c \in Calls, LockRow(c)
    PROVE  LedgerInv'
<1>1. Sound(c) /\ call[c].pc = "lock" /\ DOMAIN call[c] = CallFields
      /\ call[c].who \in Investors /\ call[c].op \in Ops
  BY AtWork DEF LockRow, At
<1>2. UNCHANGED <<ledger, booked>>
  BY DEF LockRow
<1>3. CASE ledger[call[c].who].active
  <2>1. rowLock[call[c].who] = NoCall /\ rowLock' = [rowLock EXCEPT ![call[c].who] = c]
    BY <1>3 DEF LockRow
  <2>2. /\ DOMAIN call' = Calls
        /\ \A d \in Calls \ {c} : call'[d] = call[d]
        /\ DOMAIN call'[c] = CallFields
        /\ call'[c].op = call[c].op /\ call'[c].who = call[c].who
        /\ call'[c].pc = "sum" /\ call'[c].held = ledger[call[c].who].units
    BY <1>1, <1>3 DEF LockRow, LedgerInv, Shapes, CallFields
  <2>3. rowLock' \in [Investors -> Calls \cup {NoCall}] /\ rowLock'[call[c].who] = c
    BY <1>1, <2>1 DEF LedgerInv, Shapes
  <2>4. \A i \in Investors : rowLock[i] \in Calls \ {c} => rowLock'[i] = rowLock[i]
    <3>1. NoCall \notin Calls
      BY DEF TreasuryAssumption
    <3> QED BY <2>1, <3>1 DEF LedgerInv, Shapes
  <2>5. ~Opens(c)
    BY <1>1, <1>3 DEF Sound
  <2>6. Sound(c)'
    BY <1>1, <1>2, <1>3, <2>2, <2>3, <2>5 DEF Sound, Opens, Trades, CallFields, Ops
  <2> QED BY <1>2, <2>2, <2>3, <2>4, <2>6, OwnStep
<1>4. CASE ~ledger[call[c].who].active
  <2>1. Goto(c, "rejected") /\ UNCHANGED rowLock
    BY <1>4 DEF LockRow
  <2>2. /\ DOMAIN call' = Calls
        /\ \A d \in Calls \ {c} : call'[d] = call[d]
        /\ DOMAIN call'[c] = CallFields
        /\ call'[c].pc = "rejected"
        /\ call'[c].op = call[c].op /\ call'[c].who = call[c].who
    BY <1>1, <2>1, GotoStep DEF CallFields
  <2>3. Sound(c)'
    BY <1>1, <2>2, StopStep
  <2> QED BY <1>2, <2>1, <2>2, <2>3, OwnStep DEF LedgerInv, Shapes
<1> QED BY <1>3, <1>4

\* Whatever the price, a redemption that goes on takes no more than is held.
LEMMA SumUnitsStep ==
    ASSUME LedgerInv, NEW c \in Calls, SumUnits(c)
    PROVE  LedgerInv'
<1> DEFINE nav == CalculateNAV(call[c].equity, TotalUnits(ledger))
           units == IF nav = 0 THEN 0 ELSE UnitsFor(call[c].amount, nav)
           short == nav = 0 \/ (call[c].op = "withdraw" /\ call[c].held < units)
<1>1. Sound(c) /\ call[c].pc = "sum" /\ DOMAIN call[c] = CallFields
      /\ call[c].who \in Investors /\ call[c].op \in Ops
  BY AtWork DEF SumUnits, At
<1>2. UNCHANGED <<ledger, booked>>
  BY DEF SumUnits
<1>3. /\ call' = [call EXCEPT ![c].nav = nav, ![c].units = units,
                              ![c].pc = IF short THEN "rejected" ELSE "commit"]
      /\ IF short THEN Unlock(c) ELSE UNCHANGED rowLock
  BY DEF SumUnits
<1> HIDE DEF nav, units
<1>4. /\ DOMAIN call' = Calls
      /\ \A d \in Calls \ {c} : call'[d] = call[d]
      /\ DOMAIN call'[c] = CallFields
      /\ call'[c].op = call[c].op /\ call'[c].who = call[c].who
      /\ call'[c].held = call[c].held /\ call'[c].units = units
      /\ call'[c].pc = IF short THEN "rejected" ELSE "commit"
  BY <1>1, <1>3 DEF LedgerInv, Shapes, CallFields
<1>5. CASE short
  <2>1. Sound(c)'
    BY <1>1, <1>4, <1>5, StopStep
  <2>2. Unlock(c)
    BY <1>3, <1>5
  <2> QED BY <1>2, <1>4, <2>1, <2>2, OwnStep, Unlocking DEF LedgerInv
<1>6. CASE ~short
  <2>1. UNCHANGED rowLock /\ call'[c].pc = "commit"
    BY <1>3, <1>4, <1>6
  <2>2. Sound(c)'
    BY <1>1, <1>2, <1>4, <1>6, <2>1 DEF Sound, Opens, Trades, CallFields
  <2> QED BY <1>2, <1>4, <2>1, <2>2, OwnStep DEF LedgerInv, Shapes
<1> QED BY <1>5, <1>6

LEMMA LedgerFailsStep ==
    ASSUME LedgerInv, NEW c \in Calls, LedgerFails(c)
    PROVE  LedgerInv'
<1>1. call[c].pc # "idle" /\ Goto(c, "rejected") /\ Unlock(c) /\ UNCHANGED <<ledger, booked>>
  BY DEF LedgerFails
<1>2. /\ DOMAIN call' = Calls
      /\ \A d \in Calls \ {c} : call'[d] = call[d]
      /\ DOMAIN call'[c] = CallFields
      /\ call'[c].pc = "rejected"
      /\ call'[c].op = call[c].op /\ call'[c].who = call[c].who
  BY <1>1, GotoStep DEF CallFields
<1>3. Sound(c)'
  BY <1>1, <1>2, StopStep
<1> QED BY <1>1, <1>2, <1>3, OwnStep, Unlocking DEF LedgerInv

LEMMA SettleStep ==
    ASSUME LedgerInv, NEW c \in Calls, AddCapital(c) \/ DebitTier1Cash(c)
    PROVE  LedgerInv'
<1>1. call[c].pc # "idle" /\ UNCHANGED <<ledger, booked, rowLock>>
  BY DEF AddCapital, DebitTier1Cash, At
<1>2. PICK step \in {"done", "refused"} : Goto(c, step)
  BY DEF AddCapital, DebitTier1Cash
<1>3. /\ DOMAIN call' = Calls
      /\ \A d \in Calls \ {c} : call'[d] = call[d]
      /\ DOMAIN call'[c] = CallFields
      /\ call'[c].pc = step
      /\ call'[c].op = call[c].op /\ call'[c].who = call[c].who
  BY <1>1, <1>2, GotoStep DEF CallFields
<1>4. Sound(c)'
  BY <1>1, <1>3, StopStep
<1> QED BY <1>1, <1>3, <1>4, OwnStep DEF LedgerInv, Shapes

---------------------------------------------------------------------------
(* Steps that change the ledger *)

\* A commit books what it does to the row, and no other request at work
\* depended on that row: whoever redeems holds its lock, and whoever opens
\* a row is alone to do so.
LEMMA CommitStep ==
    ASSUME LedgerInv, TreasuryAssumption, NEW c \in Calls, Commit(c)
    PROVE  LedgerInv'
<1> DEFINE i == call[c].who
           u == call[c].units
<1>1. Sound(c) /\ call[c].pc = "commit" /\ DOMAIN call[c] = CallFields
      /\ i \in Investors /\ call[c].op \in Ops
  BY AtWork DEF Commit, At
<1>2. Unlock(c)
  BY DEF Commit
<1>3. PICK step \in {"done", "settle"} : Goto(c, step)
  BY DEF Commit
<1>4. /\ DOMAIN call' = Calls
      /\ \A d \in Calls \ {c} : call'[d] = call[d]
      /\ DOMAIN call'[c] = CallFields
      /\ call'[c].pc = step
      /\ call'[c].op = call[c].op /\ call'[c].who = call[c].who
  BY <1>1, <1>3, GotoStep DEF CallFields
<1>5. /\ DOMAIN ledger' = Investors /\ DOMAIN booked' = Investors
      /\ \A j \in Investors \ {i} : ledger'[j] = ledger[j] /\ booked'[j] = booked[j]
      /\ DOMAIN ledger'[i] = RowFields
      /\ ledger'[i].active
      /\ booked'[i] = ledger'[i].units
  <2>1. /\ DOMAIN ledger = Investors /\ DOMAIN booked = Investors
        /\ DOMAIN ledger[i] = RowFields /\ booked[i] = ledger[i].units
    BY <1>1 DEF LedgerInv, Shapes, JournalExplainsHoldings
  <2>2. CASE call[c].op = "withdraw"
    <3>1. /\ ledger' = [ledger EXCEPT ![i].withdrawn = @ + call[c].amount,
                                       ![i].units = Redeemed(@, u)]
          /\ booked' = [booked EXCEPT ![i] = @ - u]
      BY <2>2 DEF Commit
    <3>2. ledger[i].active /\ Redeemed(ledger[i].units, u) = ledger[i].units - u
      BY <1>1, <2>2 DEF Sound, Trades, Redeemed
    <3>3. /\ DOMAIN ledger' = Investors
          /\ \A j \in Investors \ {i} : ledger'[j] = ledger[j]
          /\ DOMAIN ledger'[i] = RowFields /\ ledger'[i].active = ledger[i].active
          /\ ledger'[i].units = Redeemed(ledger[i].units, u)
      BY <1>1, <2>1, <3>1 DEF RowFields
    <3>4. /\ DOMAIN booked' = Investors
          /\ \A j \in Investors \ {i} : booked'[j] = booked[j]
          /\ booked'[i] = booked[i] - u
      BY <1>1, <2>1, <3>1
    <3> QED BY <2>1, <3>2, <3>3, <3>4
  <2>3. CASE call[c].op # "withdraw"
    <3>1. /\ ledger' = [ledger EXCEPT ![i].active = TRUE,
                                       ![i].deposited = @ + call[c].amount, ![i].units = @ + u]
          /\ booked' = [booked EXCEPT ![i] = @ + u]
      BY <2>3 DEF Commit
    <3>2. /\ DOMAIN ledger' = Investors
          /\ \A j \in Investors \ {i} : ledger'[j] = ledger[j]
          /\ DOMAIN ledger'[i] = RowFields /\ ledger'[i].active
          /\ ledger'[i].units = ledger[i].units + u
      BY <1>1, <2>1, <3>1 DEF RowFields
    <3>3. /\ DOMAIN booked' = Investors
          /\ \A j \in Investors \ {i} : booked'[j] = booked[j]
          /\ booked'[i] = booked[i] + u
      BY <1>1, <2>1, <3>1
    <3> QED BY <2>1, <3>2, <3>3
  <2> QED BY <2>2, <2>3
<1>6. Shapes' /\ JournalExplainsHoldings' /\ NoRowNoUnits'
  <2>1. Shapes'
    BY <1>2, <1>4, <1>5, Unlocking DEF LedgerInv, Shapes
  <2>2. JournalExplainsHoldings' /\ NoRowNoUnits'
    BY <1>5 DEF LedgerInv, JournalExplainsHoldings, NoRowNoUnits
  <2> QED BY <2>1, <2>2
<1>7. \A d \in Calls : Sound(d)'
  <2> TAKE d \in Calls
  <2>1. CASE d = c
    BY <1>1, <1>4, <2>1, StopStep
  <2>2. CASE d # c
    <3>1. call'[d] = call[d] /\ Sound(d)
      BY <1>4, <2>2 DEF LedgerInv
    <3>2. CASE call[d].op # "none" /\ call[d].who # i
      <4>1. ledger'[call[d].who] = ledger[call[d].who]
        BY <1>5, <3>1, <3>2 DEF Sound
      <4>2. rowLock[call[d].who] = d => rowLock'[call[d].who] = d
        BY <1>2, <2>2, <3>1, <3>2 DEF Sound, Unlock
      <4> QED BY <3>1, <4>1, <4>2 DEF Sound, Opens, Trades
    <3>3. CASE call[d].op # "none" /\ call[d].who = i
      <4>1. ~(Trades(d) /\ call[d].pc \in {"sum", "commit"})
        <5> SUFFICES ASSUME Trades(d), call[d].pc \in {"sum", "commit"} PROVE FALSE
          OBVIOUS
        <5>1. rowLock[i] = d /\ ledger[i].active
          BY <3>1, <3>3 DEF Sound
        <5>2. CASE Trades(c)
          BY <1>1, <2>2, <5>1, <5>2 DEF Sound
        <5>3. CASE Opens(c)
          BY <1>1, <5>1, <5>3 DEF Sound
        <5> QED BY <1>1, <5>2, <5>3 DEF Trades, Opens, Ops
      <4>2. ~(Opens(d) /\ call[d].pc \in {"gate", "equity", "count", "lock", "sum", "commit"})
        <5> SUFFICES ASSUME Opens(d), ~ledger[i].active PROVE FALSE
          BY <3>1, <3>3 DEF Sound
        <5>1. CASE Trades(c)
          BY <1>1, <5>1 DEF Sound
        <5>2. CASE Opens(c)
          BY <2>2, <3>3, <5>2 DEF LedgerInv, OpenedOnce
        <5> QED BY <1>1, <5>1, <5>2 DEF Trades, Opens, Ops
      <4> QED BY <3>1, <4>1, <4>2 DEF Sound, Opens, Trades
    <3>4. CASE call[d].op = "none"
      BY <3>1, <3>4 DEF Sound, Opens, Trades
    <3> QED BY <3>2, <3>3, <3>4
  <2> QED BY <2>1, <2>2
<1>8. OpenedOnce'
  BY <1>4 DEF LedgerInv, OpenedOnce, Opens
<1> QED BY <1>6, <1>7, <1>8 DEF LedgerInv

\* A restart cuts every request off; the row it may seed had no units.
LEMMA RestartStep ==
    ASSUME LedgerInv, TreasuryAssumption, NEW readable \in BOOLEAN, NEW i \in Investors,
           Restart(readable, i)
    PROVE  LedgerInv'
<1> DEFINE seeds == readable /\ \A j \in Investors : ~ledger[j].active
<1>1. /\ ledger' = (IF seeds THEN [ledger EXCEPT ![i] = SeedRow] ELSE ledger)
      /\ booked' = (IF seeds THEN [booked EXCEPT ![i] = @ + InitialCapital] ELSE booked)
      /\ rowLock' = [j \in Investors |-> NoCall]
      /\ call' = [c \in Calls |->
              IF call[c].pc \in {"idle", "done", "rejected"}
              THEN call[c] ELSE [call[c] EXCEPT !.pc = "lost"]]
  BY DEF Restart
<1>2. Shapes' /\ JournalExplainsHoldings' /\ NoRowNoUnits'
  <2>1. CASE seeds
    <3>1. ledger[i].units = 0 /\ booked[i] = 0
      BY <2>1 DEF LedgerInv, NoRowNoUnits, JournalExplainsHoldings
    <3>2. InitialCapital \in Nat
      BY DEF TreasuryAssumption
    <3>3. /\ DOMAIN ledger' = Investors /\ DOMAIN booked' = Investors
          /\ \A j \in Investors \ {i} : ledger'[j] = ledger[j] /\ booked'[j] = booked[j]
          /\ ledger'[i] = SeedRow /\ booked'[i] = InitialCapital
      BY <1>1, <2>1, <3>1, <3>2 DEF LedgerInv, Shapes
    <3>4. DOMAIN SeedRow = RowFields /\ SeedRow.active /\ SeedRow.units = InitialCapital
      BY DEF SeedRow, RowFields
    <3> QED BY <1>1, <3>3, <3>4
            DEF LedgerInv, Shapes, JournalExplainsHoldings, NoRowNoUnits
  <2>2. CASE ~seeds
    BY <1>1, <2>2 DEF LedgerInv, Shapes, JournalExplainsHoldings, NoRowNoUnits
  <2> QED BY <2>1, <2>2
<1>3. ASSUME NEW c \in Calls
      PROVE  /\ Sound(c)'
             /\ call'[c].op = call[c].op
             /\ call[c].op # "none" => call'[c].who = call[c].who
  <2>1. Sound(c)
    BY DEF LedgerInv
  <2>2. CASE call[c].pc \in {"idle", "done", "rejected"}
    <3>1. call'[c] = call[c]
      BY <1>1, <2>2
    <3> QED BY <2>1, <2>2, <3>1 DEF Sound, Opens, Trades
  <2>3. CASE call[c].pc \notin {"idle", "done", "rejected"}
    <3>1. call'[c] = [call[c] EXCEPT !.pc = "lost"]
      BY <1>1, <2>3
    <3>2. DOMAIN call[c] = CallFields /\ call[c].op \in Ops /\ call[c].who \in Investors
      BY <2>1, <2>3 DEF Sound
    <3>3. /\ DOMAIN call'[c] = CallFields /\ call'[c].pc = "lost"
          /\ call'[c].op = call[c].op /\ call'[c].who = call[c].who
      BY <3>1, <3>2 DEF CallFields
    <3> QED BY <2>3, <3>3, StopStep
  <2> QED BY <2>2, <2>3
<1>4. OpenedOnce'
  <2> SUFFICES ASSUME NEW c \in Calls, NEW d \in Calls, c # d, Opens(c)', Opens(d)'
               PROVE  call'[c].who # call'[d].who
    BY DEF OpenedOnce, Opens
  <2>1. Opens(c) /\ Opens(d)
    BY <1>3 DEF Opens
  <2>2. call'[c].who = call[c].who /\ call'[d].who = call[d].who
    BY <1>3, <2>1 DEF Opens
  <2> QED BY <2>1, <2>2 DEF LedgerInv, OpenedOnce
<1> QED BY <1>2, <1>3, <1>4 DEF LedgerInv

---------------------------------------------------------------------------
(* The theorem *)

LEMMA LedgerInvInit == ASSUME TreasuryInit, TreasuryAssumption PROVE LedgerInv
<1>1. PICK l \in FirstLedgers : Booted(l)
  BY DEF TreasuryInit
<1>2. /\ l \in [Investors -> [active: BOOLEAN, deposited: Nat, withdrawn: Nat, units: Nat]]
      /\ \A i \in Investors : ~l[i].active => l[i].units = 0
  BY DEF TreasuryAssumption
<1>3. /\ ledger = l /\ booked = [i \in Investors |-> l[i].units]
      /\ rowLock = [i \in Investors |-> NoCall] /\ call = [c \in Calls |-> Idle]
  BY <1>1 DEF Booted
<1>4. Shapes /\ JournalExplainsHoldings /\ NoRowNoUnits
  <2>1. \A i \in Investors : DOMAIN ledger[i] = RowFields
    BY <1>2, <1>3 DEF RowFields
  <2> QED BY <1>2, <1>3, <2>1 DEF Shapes, JournalExplainsHoldings, NoRowNoUnits
<1>5. \A c \in Calls : Sound(c) /\ ~Opens(c)
  BY <1>3 DEF Sound, Opens, Trades, Idle
<1> QED BY <1>4, <1>5 DEF LedgerInv, OpenedOnce

LEMMA LedgerInvNext ==
    ASSUME LedgerInv, TreasuryAssumption, [TreasuryNext]_treasuryVars
    PROVE  LedgerInv'
<1>1. ASSUME NEW c \in Calls, Step(c) \/ LedgerFails(c) PROVE LedgerInv'
  BY <1>1, ReserveGateStep, ReadEquityStep, CountActiveStep, LockRowStep, SumUnitsStep,
     CommitStep, SettleStep, LedgerFailsStep DEF Step
<1>2. ASSUME NEW c \in Calls, NEW op \in Ops, NEW i \in Investors, NEW a \in Amounts,
             Request(c, op, i, a)
      PROVE  LedgerInv'
  BY <1>2, RequestStep
<1>3. ASSUME UNCHANGED <<ledger, booked, rowLock, call>> PROVE LedgerInv'
  BY <1>3 DEF LedgerInv, Shapes, JournalExplainsHoldings, NoRowNoUnits, Sound, Opens,
              Trades, OpenedOnce
<1>4. ASSUME NEW readable \in BOOLEAN, NEW i \in Investors, Restart(readable, i)
      PROVE  LedgerInv'
  BY <1>4, RestartStep
<1>5. CASE UNCHANGED treasuryVars
  BY <1>3, <1>5 DEF treasuryVars
<1>6. CASE TreasuryNext
  <2>1. ASSUME \/ \E v \in EquityLevels : MarketMoves(v)
               \/ \E p \in Profits : SweepProfitToTier1(p)
               \/ \E pct \in Tier1Pcts : ApplyMacroRegime(pct)
        PROVE  LedgerInv'
    BY <1>3, <2>1 DEF MarketMoves, SweepProfitToTier1, ApplyMacroRegime
  <2> QED BY <1>1, <1>2, <1>4, <1>6, <2>1 DEF TreasuryNext
<1> QED BY <1>5, <1>6

THEOREM LedgerInvariant == TreasurySpec => []LedgerInv
<1>1. TreasuryInit => LedgerInv
  BY LedgerInvInit, TreasuryAssumption
<1>2. LedgerInv /\ [TreasuryNext]_treasuryVars => LedgerInv'
  BY LedgerInvNext, TreasuryAssumption
<1> QED BY <1>1, <1>2, PTL DEF TreasurySpec

\* For any investors and any requests: what the journal of transactions says
\* an investor has is what the row says, through races of deposits and
\* withdrawals, failed transactions and restarts.
THEOREM TransactionsAddUp == TreasurySpec => []JournalExplainsHoldings
<1>1. LedgerInv => JournalExplainsHoldings
  BY DEF LedgerInv
<1> QED BY <1>1, LedgerInvariant, PTL
---------------------------------------------------------------------------
(* The reserve and the ledger *)

\* The amounts are numbers and the reserve is never overdrawn.
Money ==
    /\ reserve \in Nat /\ opening \in Nat /\ credited \in Nat /\ tier1Pct \in Nat
    /\ \A i \in Investors : ledger[i].deposited \in Nat /\ ledger[i].withdrawn \in Nat
    /\ \A c \in Calls : call[c].op # "none" => call[c].amount \in Nat

Owed == SumFunction([c \in Calls |-> Owes(c)])

ReserveInv == LedgerInv /\ Money /\ ReserveMatchesLedger

\* The sums are numbers.
LEMMA LedgerSumsType ==
    ASSUME Money, TreasuryAssumption
    PROVE  /\ TotalWithdrawn(ledger) \in Int
           /\ Owed \in Int
           /\ \A c \in Calls : Owes(c) \in Nat
<1>1. \A c \in Calls : Owes(c) \in Nat
  BY DEF Money, Owes
<1>2. TotalWithdrawn(ledger) \in Int
  <2> DEFINE f == [i \in Investors |-> ledger[i].withdrawn]
  <2>1. DOMAIN f = Investors /\ \A i \in Investors : f[i] \in Int
    BY DEF Money
  <2> HIDE DEF f
  <2>2. SumFunction(f) \in Int
    BY <2>1, SumIsInt DEF TreasuryAssumption, SumFunction
  <2> QED BY <2>2 DEF TotalWithdrawn, f
<1>3. Owed \in Int
  <2> DEFINE f == [c \in Calls |-> Owes(c)]
  <2>1. DOMAIN f = Calls /\ \A c \in Calls : f[c] \in Int
    BY <1>1
  <2> HIDE DEF f
  <2>2. SumFunction(f) \in Int
    BY <2>1, SumIsInt DEF TreasuryAssumption, SumFunction
  <2> QED BY <2>2 DEF Owed, f
<1> QED BY <1>1, <1>2, <1>3

LEMMA NetCapitalType ==
    ASSUME TreasuryAssumption, NEW l,
           \A i \in Investors : l[i].deposited \in Nat /\ l[i].withdrawn \in Nat
    PROVE  /\ NetCapital(l) \in Int
           /\ BootCapital(l) \in Nat
           /\ TotalWithdrawn(l) \in Nat
           /\ Reserved(BootCapital(l)) \in Nat
           /\ Reserved(InitialCapital) \in Nat
<1>1. NetCapital(l) \in Int
  <2> DEFINE f == [i \in Investors |-> l[i].deposited - l[i].withdrawn]
  <2>1. DOMAIN f = Investors /\ \A i \in Investors : f[i] \in Int
    OBVIOUS
  <2> HIDE DEF f
  <2>2. SumFunction(f) \in Int
    BY <2>1, SumIsInt DEF TreasuryAssumption, SumFunction
  <2> QED BY <2>2 DEF NetCapital, f
<1>2. InitialCapital \in Nat
  BY DEF TreasuryAssumption
<1>3. BootCapital(l) \in Nat
  BY <1>1, <1>2 DEF BootCapital
<1>4. \A n \in Nat : Reserved(n) \in Nat
  <2> TAKE n \in Nat
  <2>1. n * DefaultTier1Pct \in Nat
    BY DEF DefaultTier1Pct
  <2>2. \A m \in Nat : m \div 100 \in Nat
    OBVIOUS
  <2> QED BY <2>1, <2>2 DEF Reserved
<1>5. TotalWithdrawn(l) \in Nat
  <2> DEFINE f == [i \in Investors |-> l[i].withdrawn]
  <2>1. DOMAIN f = Investors /\ \A i \in Investors : f[i] \in Nat
    OBVIOUS
  <2> HIDE DEF f
  <2>2. SumFunction(f) \in Nat
    BY <2>1, SumIsNat DEF TreasuryAssumption, SumFunction
  <2> QED BY <2>2 DEF TotalWithdrawn, f
<1> QED BY <1>1, <1>2, <1>3, <1>4, <1>5

\* One row or one request changes: its sum moves by the difference.
LEMMA WithdrawnMoves ==
    ASSUME Money, TreasuryAssumption, NEW i \in Investors, ledger'[i].withdrawn \in Int,
           \A j \in Investors \ {i} : ledger'[j] = ledger[j]
    PROVE  TotalWithdrawn(ledger)' =
              TotalWithdrawn(ledger) - ledger[i].withdrawn + ledger'[i].withdrawn
<1> DEFINE f == [j \in Investors |-> ledger[j].withdrawn]
           g == [j \in Investors |-> ledger'[j].withdrawn]
<1>1. /\ DOMAIN f = Investors /\ DOMAIN g = Investors
      /\ \A j \in Investors : f[j] \in Int
      /\ g[i] = ledger'[i].withdrawn /\ f[i] = ledger[i].withdrawn
      /\ \A j \in Investors \ {i} : g[j] = f[j]
  BY DEF Money
<1>2. TotalWithdrawn(ledger) = SumFunction(f) /\ TotalWithdrawn(ledger)' = SumFunction(g)
  BY DEF TotalWithdrawn
<1> HIDE DEF f, g
<1>3. SumFunctionOnSet(g, Investors) = SumFunctionOnSet(f, Investors) - f[i] + g[i]
  BY <1>1, SumChanges DEF TreasuryAssumption
<1> QED BY <1>1, <1>2, <1>3 DEF SumFunction

LEMMA OwedMoves ==
    ASSUME Money, TreasuryAssumption, NEW c \in Calls, Owes(c)' \in Int,
           \A d \in Calls \ {c} : call'[d] = call[d]
    PROVE  Owed' = Owed - Owes(c) + Owes(c)'
<1> DEFINE f == [d \in Calls |-> Owes(d)]
           g == [d \in Calls |-> Owes(d)']
<1>1. /\ DOMAIN f = Calls /\ DOMAIN g = Calls
      /\ \A d \in Calls : f[d] \in Int
      /\ g[c] = Owes(c)' /\ f[c] = Owes(c)
      /\ \A d \in Calls \ {c} : g[d] = f[d]
  <2>1. \A d \in Calls : Owes(d) \in Int
    BY LedgerSumsType
  <2>2. \A d \in Calls \ {c} : Owes(d)' = Owes(d)
    BY DEF Owes
  <2> QED BY <2>1, <2>2
<1>2. Owed = SumFunction(f) /\ Owed' = SumFunction(g)
  BY DEF Owed
<1> HIDE DEF f, g
<1>3. SumFunctionOnSet(g, Calls) = SumFunctionOnSet(f, Calls) - f[c] + g[c]
  BY <1>1, SumChanges DEF TreasuryAssumption
<1> QED BY <1>1, <1>2, <1>3 DEF SumFunction

\* A step of one request that pays nothing out and settles nothing.
LEMMA QuietStep ==
    ASSUME ReserveInv, TreasuryAssumption, NEW c \in Calls,
           \A d \in Calls \ {c} : call'[d] = call[d],
           call'[c].op # "none" => call'[c].amount \in Nat,
           Owes(c)' = Owes(c),
           UNCHANGED <<ledger, reserve, tier1Pct, credited, opening>>
    PROVE  Money' /\ ReserveMatchesLedger' /\ Owed' = Owed
<1>1. Money'
  BY DEF ReserveInv, Money
<1>2. Owes(c) \in Nat /\ Owed \in Int
  BY LedgerSumsType DEF ReserveInv
<1>3. Owed' = Owed
  BY <1>2, OwedMoves DEF ReserveInv
<1>4. TotalWithdrawn(ledger)' = TotalWithdrawn(ledger)
  BY DEF TotalWithdrawn
<1> QED BY <1>1, <1>3, <1>4 DEF ReserveInv, ReserveMatchesLedger, Owed

LEMMA RequestKeeps ==
    ASSUME ReserveInv, TreasuryAssumption, NEW c \in Calls, NEW op \in Ops,
           NEW i \in Investors, NEW a \in Amounts, Request(c, op, i, a)
    PROVE  Money' /\ ReserveMatchesLedger' /\ Owed' = Owed
<1>1. /\ \A d \in Calls \ {c} : call'[d] = call[d]
      /\ call'[c].op = op
      /\ call'[c].amount = IF op = "seed" THEN InitialCapital ELSE a
      /\ call'[c].pc \in {"gate", "count", "equity"}
  BY DEF Request, ReserveInv, LedgerInv, Shapes
<1>2. call'[c].amount \in Nat
  BY <1>1 DEF TreasuryAssumption
<1>3. call[c].pc = "idle" /\ UNCHANGED <<ledger, reserve, tier1Pct, credited, opening>>
  BY DEF Request, At
<1>4. Owes(c) = 0 /\ Owes(c)' = 0
  BY <1>1, <1>3 DEF Owes
<1> QED BY <1>1, <1>2, <1>3, <1>4, QuietStep

\* The steps up to the commit, and the failure of any of them.
LEMMA WorkKeeps ==
    ASSUME ReserveInv, TreasuryAssumption, NEW c \in Calls,
           ReserveGate(c) \/ ReadEquity(c) \/ CountActive(c) \/ LockRow(c) \/ SumUnits(c)
             \/ LedgerFails(c)
    PROVE  Money' /\ ReserveMatchesLedger' /\ Owed' = Owed
<1>1. call[c].pc \in {"gate", "equity", "count", "lock", "sum", "commit"}
  BY DEF ReserveGate, ReadEquity, CountActive, LockRow, SumUnits, LedgerFails, At
<1>2. DOMAIN call[c] = CallFields /\ call[c].op \in Ops /\ DOMAIN call = Calls
  BY <1>1, AtWork DEF ReserveInv, LedgerInv, Shapes
<1>3. UNCHANGED <<ledger, reserve, tier1Pct, credited, opening>>
  BY DEF ReserveGate, ReadEquity, CountActive, LockRow, SumUnits, LedgerFails
<1>4. /\ \A d \in Calls \ {c} : call'[d] = call[d]
      /\ call'[c].op = call[c].op /\ call'[c].amount = call[c].amount
      /\ call'[c].pc \in {"gate", "equity", "count", "lock", "sum", "commit", "rejected", "done"}
  <2>1. CASE ReserveGate(c) \/ ReadEquity(c) \/ CountActive(c)
    BY <1>2, <2>1 DEF ReserveGate, ReadEquity, CountActive, CallFields
  <2>2. CASE LockRow(c)
    BY <1>2, <2>2 DEF LockRow, Goto, CallFields
  <2>3. CASE SumUnits(c)
    <3> DEFINE nav == CalculateNAV(call[c].equity, TotalUnits(ledger))
               units == IF nav = 0 THEN 0 ELSE UnitsFor(call[c].amount, nav)
               short == nav = 0 \/ (call[c].op = "withdraw" /\ call[c].held < units)
    <3>1. call' = [call EXCEPT ![c].nav = nav, ![c].units = units,
                               ![c].pc = IF short THEN "rejected" ELSE "commit"]
      BY <2>3 DEF SumUnits
    <3> HIDE DEF nav, units, short
    <3> QED BY <1>2, <3>1 DEF CallFields
  <2>4. CASE LedgerFails(c)
    BY <1>2, <2>4 DEF LedgerFails, Goto, CallFields
  <2> QED BY <2>1, <2>2, <2>3, <2>4
<1>5. Owes(c) = 0 /\ Owes(c)' = 0
  BY <1>1, <1>4 DEF Owes
<1>6. call'[c].amount \in Nat
  BY <1>2, <1>4 DEF ReserveInv, Money, Ops
<1> QED BY <1>3, <1>4, <1>5, <1>6, QuietStep

\* A withdrawal that commits is owed by the reserve from then on.
LEMMA CommitKeeps ==
    ASSUME ReserveInv, TreasuryAssumption, NEW c \in Calls, Commit(c)
    PROVE  /\ Money' /\ ReserveMatchesLedger'
           /\ call[c].op = "withdraw" => Owed' = Owed + call[c].amount
           /\ call[c].op # "withdraw" => Owed' = Owed
<1> DEFINE i == call[c].who
           a == call[c].amount
<1>1. /\ DOMAIN call[c] = CallFields /\ i \in Investors /\ call[c].op \in Ops
      /\ call[c].pc = "commit" /\ DOMAIN call = Calls
  BY AtWork DEF Commit, At, ReserveInv, LedgerInv, Shapes
<1>2. a \in Nat /\ ledger[i].withdrawn \in Nat /\ ledger[i].deposited \in Nat
      /\ DOMAIN ledger = Investors /\ DOMAIN ledger[i] = RowFields
  BY <1>1 DEF ReserveInv, Money, Ops, LedgerInv, Shapes
<1>3. UNCHANGED <<reserve, tier1Pct, credited, opening>>
  BY DEF Commit
<1>4. /\ \A d \in Calls \ {c} : call'[d] = call[d]
      /\ call'[c].op = call[c].op /\ call'[c].amount = a
      /\ call'[c].pc = IF call[c].op \in {"create", "seed"} THEN "done" ELSE "settle"
  BY <1>1 DEF Commit, Goto, CallFields
<1>5. Owes(c) = 0
  BY <1>1 DEF Owes
<1>6. CASE call[c].op = "withdraw"
  <2>1. ledger' = [ledger EXCEPT ![i].withdrawn = @ + a,
                                 ![i].units = Redeemed(@, call[c].units)]
    BY <1>6 DEF Commit
  <2>2. /\ \A j \in Investors \ {i} : ledger'[j] = ledger[j]
        /\ ledger'[i].withdrawn = ledger[i].withdrawn + a
        /\ ledger'[i].deposited = ledger[i].deposited
    BY <1>1, <1>2, <2>1 DEF RowFields
  <2>3. Owes(c)' = a
    BY <1>4, <1>6 DEF Owes
  <2>4. Owed \in Int /\ TotalWithdrawn(ledger) \in Int
    BY LedgerSumsType DEF ReserveInv
  <2>5. Owed' = Owed + a
    <3>1. Owed' = Owed - Owes(c) + Owes(c)'
      BY <1>2, <1>4, <2>3, OwedMoves DEF ReserveInv
    <3> QED BY <1>2, <1>5, <2>3, <2>4, <3>1
  <2>6. TotalWithdrawn(ledger)' = TotalWithdrawn(ledger) + a
    <3>1. TotalWithdrawn(ledger)' =
             TotalWithdrawn(ledger) - ledger[i].withdrawn + ledger'[i].withdrawn
      BY <1>1, <1>2, <2>2, WithdrawnMoves DEF ReserveInv
    <3> QED BY <1>2, <2>2, <2>4, <3>1
  <2>7. Money'
    BY <1>1, <1>2, <1>3, <1>4, <2>2 DEF ReserveInv, Money
  <2>8. reserve = opening + credited - TotalWithdrawn(ledger) + Owed
    BY DEF ReserveInv, ReserveMatchesLedger, Owed
  <2>9. reserve' = opening' + credited' - TotalWithdrawn(ledger)' + Owed'
    BY <1>2, <1>3, <2>4, <2>5, <2>6, <2>8 DEF ReserveInv, Money
  <2> QED BY <1>6, <2>5, <2>7, <2>9 DEF ReserveMatchesLedger, Owed
<1>7. CASE call[c].op # "withdraw"
  <2>1. ledger' = [ledger EXCEPT ![i].active = TRUE,
                                 ![i].deposited = @ + a, ![i].units = @ + call[c].units]
    BY <1>7 DEF Commit
  <2>2. /\ \A j \in Investors \ {i} : ledger'[j] = ledger[j]
        /\ ledger'[i].withdrawn = ledger[i].withdrawn
        /\ ledger'[i].deposited = ledger[i].deposited + a
    BY <1>1, <1>2, <2>1 DEF RowFields
  <2>3. Owes(c)' = 0
    BY <1>4, <1>7 DEF Owes
  <2>4. Owed \in Int /\ TotalWithdrawn(ledger) \in Int
    BY LedgerSumsType DEF ReserveInv
  <2>5. Owed' = Owed
    BY <1>4, <1>5, <2>3, <2>4, OwedMoves DEF ReserveInv
  <2>6. TotalWithdrawn(ledger)' = TotalWithdrawn(ledger)
    BY <1>1, <1>2, <2>2, <2>4, WithdrawnMoves DEF ReserveInv
  <2>7. Money'
    BY <1>1, <1>2, <1>3, <1>4, <2>2 DEF ReserveInv, Money
  <2> QED BY <1>3, <1>7, <2>5, <2>6, <2>7 DEF ReserveInv, ReserveMatchesLedger, Owed
<1> QED BY <1>6, <1>7

\* A deposit's share is credited; a debit takes out what was owed, or is
\* refused and stays owed.
LEMMA SettleKeeps ==
    ASSUME ReserveInv, TreasuryAssumption, NEW c \in Calls, AddCapital(c) \/ DebitTier1Cash(c)
    PROVE  /\ Money' /\ ReserveMatchesLedger'
           /\ Owed' = IF DebitTier1Cash(c) /\ ~(call[c].amount > reserve)
                      THEN Owed - call[c].amount ELSE Owed
<1> DEFINE a == call[c].amount
<1>1. /\ DOMAIN call[c] = CallFields /\ call[c].op \in Ops
      /\ call[c].pc = "settle" /\ DOMAIN call = Calls
  BY AtWork DEF AddCapital, DebitTier1Cash, At, ReserveInv, LedgerInv, Shapes
<1>2. a \in Nat
  BY <1>1 DEF ReserveInv, Money, Ops
<1>3. TotalWithdrawn(ledger)' = TotalWithdrawn(ledger) /\ UNCHANGED <<ledger, tier1Pct, opening>>
  BY DEF AddCapital, DebitTier1Cash, TotalWithdrawn
<1>4. ASSUME NEW step, Goto(c, step)
      PROVE  /\ \A d \in Calls \ {c} : call'[d] = call[d]
             /\ call'[c].op = call[c].op /\ call'[c].amount = a /\ call'[c].pc = step
  BY <1>1, <1>4 DEF Goto, CallFields
<1>5. Owed \in Int /\ TotalWithdrawn(ledger) \in Int
      /\ reserve \in Int /\ opening \in Int /\ credited \in Int
  BY LedgerSumsType DEF ReserveInv, Money
<1>6. reserve = opening + credited - TotalWithdrawn(ledger) + Owed
  BY DEF ReserveInv, ReserveMatchesLedger, Owed
<1>7. CASE AddCapital(c)
  <2> DEFINE share == (a * tier1Pct) \div 100
  <2>1. reserve' = reserve + share /\ credited' = credited + share
        /\ call[c].op = "deposit" /\ Goto(c, "done")
    BY <1>7 DEF AddCapital
  <2>2. share \in Nat
    <3>1. a * tier1Pct \in Nat
      BY <1>2 DEF ReserveInv, Money
    <3>2. \A m \in Nat : m \div 100 \in Nat
      OBVIOUS
    <3> QED BY <3>1, <3>2
  <2> HIDE DEF share
  <2>3. Owes(c) = 0 /\ Owes(c)' = 0
    BY <1>4, <2>1 DEF Owes
  <2>4. Owed' = Owed
    BY <1>4, <1>5, <2>1, <2>3, OwedMoves DEF ReserveInv
  <2>5. Money'
    BY <1>2, <1>3, <1>4, <2>1, <2>2 DEF ReserveInv, Money
  <2>6. reserve' = opening' + credited' - TotalWithdrawn(ledger)' + Owed'
    BY <1>3, <1>5, <1>6, <2>1, <2>2, <2>4
  <2>7. ~DebitTier1Cash(c)
    BY <2>1 DEF DebitTier1Cash
  <2> QED BY <2>4, <2>5, <2>6, <2>7 DEF ReserveMatchesLedger, Owed
<1>8. CASE DebitTier1Cash(c) /\ a > reserve
  <2>1. Goto(c, "refused") /\ UNCHANGED <<reserve, credited>> /\ call[c].op = "withdraw"
    BY <1>8 DEF DebitTier1Cash
  <2>2. Owes(c)' = Owes(c)
    BY <1>1, <1>4, <2>1 DEF Owes
  <2> QED BY <1>2, <1>3, <1>4, <1>8, <2>1, <2>2, QuietStep
<1>9. CASE DebitTier1Cash(c) /\ ~(a > reserve)
  <2>1. Goto(c, "done") /\ reserve' = reserve - a /\ credited' = credited
        /\ call[c].op = "withdraw"
    BY <1>9 DEF DebitTier1Cash
  <2>2. Owes(c) = a /\ Owes(c)' = 0
    BY <1>1, <1>4, <2>1 DEF Owes
  <2>3. Owed' = Owed - a
    <3>1. Owed' = Owed - Owes(c) + Owes(c)'
      BY <1>4, <2>1, <2>2, OwedMoves DEF ReserveInv
    <3> QED BY <1>2, <1>5, <2>2, <3>1
  <2>4. Money'
    BY <1>2, <1>3, <1>4, <1>9, <2>1 DEF ReserveInv, Money
  <2>5. reserve' = opening' + credited' - TotalWithdrawn(ledger)' + Owed'
    BY <1>2, <1>3, <1>5, <1>6, <2>1, <2>3
  <2> QED BY <1>9, <2>3, <2>4, <2>5 DEF ReserveMatchesLedger, Owed
<1> QED BY <1>7, <1>8, <1>9

\* What the daemon, the market and the macro regime do.
LEMMA RestKeeps ==
    ASSUME ReserveInv, TreasuryAssumption,
           \/ \E v \in EquityLevels : MarketMoves(v)
           \/ \E p \in Profits : SweepProfitToTier1(p)
           \/ \E pct \in Tier1Pcts : ApplyMacroRegime(pct)
           \/ UNCHANGED treasuryVars
    PROVE  Money' /\ ReserveMatchesLedger' /\ Owed' = Owed
<1>1. UNCHANGED <<ledger, call, opening>>
  BY DEF MarketMoves, SweepProfitToTier1, ApplyMacroRegime, treasuryVars
<1>2. TotalWithdrawn(ledger)' = TotalWithdrawn(ledger) /\ Owed' = Owed
  BY <1>1 DEF TotalWithdrawn, Owed, Owes
<1>3. PICK p \in Nat : reserve' = reserve + p /\ credited' = credited + p
  <2>1. CASE \E p \in Profits : SweepProfitToTier1(p)
    BY <2>1 DEF SweepProfitToTier1, TreasuryAssumption
  <2>2. CASE UNCHANGED <<reserve, credited>>
    <3>1. reserve' = reserve + 0 /\ credited' = credited + 0
      BY <2>2 DEF ReserveInv, Money
    <3> QED BY <3>1
  <2> QED BY <2>1, <2>2 DEF MarketMoves, ApplyMacroRegime, treasuryVars
<1>4. tier1Pct' \in Nat
  BY DEF MarketMoves, SweepProfitToTier1, ApplyMacroRegime, treasuryVars,
         TreasuryAssumption, ReserveInv, Money
<1>5. Money'
  BY <1>1, <1>3, <1>4 DEF ReserveInv, Money
<1>6. Owed \in Int /\ TotalWithdrawn(ledger) \in Int
      /\ reserve \in Int /\ opening \in Int /\ credited \in Int
  BY LedgerSumsType DEF ReserveInv, Money
<1>7. reserve = opening + credited - TotalWithdrawn(ledger) + Owed
  BY DEF ReserveInv, ReserveMatchesLedger, Owed
<1>8. reserve' = opening' + credited' - TotalWithdrawn(ledger)' + Owed'
  BY <1>1, <1>2, <1>3, <1>6, <1>7
<1> QED BY <1>2, <1>5, <1>8 DEF ReserveMatchesLedger, Owed

\* A process that boots owes nothing: the debits it refused are forgotten.
LEMMA RestartKeeps ==
    ASSUME ReserveInv, TreasuryAssumption, NEW readable \in BOOLEAN, NEW i \in Investors,
           Restart(readable, i)
    PROVE  Money' /\ ReserveMatchesLedger' /\ Owed' = 0
<1> DEFINE seeds == readable /\ \A j \in Investors : ~ledger[j].active
           l == IF seeds THEN [ledger EXCEPT ![i] = SeedRow] ELSE ledger
           capital == IF readable THEN BootCapital(l) ELSE InitialCapital
<1>1. /\ ledger' = l
      /\ call' = [c \in Calls |->
              IF call[c].pc \in {"idle", "done", "rejected"}
              THEN call[c] ELSE [call[c] EXCEPT !.pc = "lost"]]
      /\ reserve' = Reserved(capital)
      /\ tier1Pct' = DefaultTier1Pct
      /\ credited' = 0
      /\ opening' = Reserved(capital) + TotalWithdrawn(l)
  BY DEF Restart
<1>2. \A j \in Investors : l[j].deposited \in Nat /\ l[j].withdrawn \in Nat
  <2>1. SeedRow.deposited \in Nat /\ SeedRow.withdrawn \in Nat
    BY DEF SeedRow, TreasuryAssumption
  <2>2. \A j \in Investors : l[j] = ledger[j] \/ l[j] = SeedRow
    BY DEF ReserveInv, LedgerInv, Shapes
  <2> HIDE DEF l
  <2> QED BY <2>1, <2>2 DEF ReserveInv, Money
<1> HIDE DEF l, seeds
<1>3. Reserved(capital) \in Nat /\ TotalWithdrawn(l) \in Nat
  BY <1>2, NetCapitalType
<1>4. \A c \in Calls : Owes(c)' = 0
  <2> TAKE c \in Calls
  <2>1. CASE call[c].pc \in {"idle", "done", "rejected"}
    BY <1>1, <2>1 DEF Owes
  <2>2. CASE call[c].pc \notin {"idle", "done", "rejected"}
    <3>1. DOMAIN call[c] = CallFields
      BY <2>2, AtWork DEF ReserveInv
    <3>2. call'[c].pc = "lost"
      BY <1>1, <2>2, <3>1 DEF CallFields
    <3> QED BY <3>2 DEF Owes
  <2> QED BY <2>1, <2>2
<1>5. Owed' = 0
  <2> DEFINE f == [c \in Calls |-> Owes(c)']
  <2>1. DOMAIN f = Calls /\ \A c \in Calls : f[c] = 0
    BY <1>4
  <2>2. Owed' = SumFunction(f)
    BY DEF Owed
  <2> HIDE DEF f
  <2> QED BY <2>1, <2>2, SumOfZeros DEF TreasuryAssumption, SumFunction
<1>6. Money'
  <2>1. \A c \in Calls : call'[c].op = call[c].op
                         /\ (call[c].op # "none" => call'[c].amount = call[c].amount)
    <3> TAKE c \in Calls
    <3>1. CASE call[c].pc \in {"idle", "done", "rejected"}
      BY <1>1, <3>1
    <3>2. CASE call[c].pc \notin {"idle", "done", "rejected"}
      <4>1. DOMAIN call[c] = CallFields
        BY <3>2, AtWork DEF ReserveInv
      <4> QED BY <1>1, <3>2, <4>1 DEF CallFields
    <3> QED BY <3>1, <3>2
  <2>2. reserve' \in Nat /\ credited' \in Nat /\ tier1Pct' \in Nat /\ opening' \in Nat
    BY <1>1, <1>3 DEF DefaultTier1Pct
  <2>3. \A j \in Investors : ledger'[j].deposited \in Nat /\ ledger'[j].withdrawn \in Nat
    BY <1>1, <1>2
  <2>4. \A c \in Calls : call'[c].op # "none" => call'[c].amount \in Nat
    BY <2>1 DEF ReserveInv, Money
  <2> HIDE DEF capital
  <2> QED BY <2>2, <2>3, <2>4 DEF Money
<1>7. TotalWithdrawn(ledger)' = TotalWithdrawn(l)
  BY <1>1 DEF TotalWithdrawn
<1>8. reserve' = opening' + credited' - TotalWithdrawn(ledger)' + Owed'
  <2> HIDE DEF capital
  <2> QED BY <1>1, <1>3, <1>5, <1>7
<1> QED BY <1>5, <1>6, <1>8 DEF ReserveMatchesLedger, Owed

LEMMA ReserveInvInit == ASSUME TreasuryInit, TreasuryAssumption PROVE Money /\ ReserveMatchesLedger
<1>1. PICK l \in FirstLedgers : Booted(l)
  BY DEF TreasuryInit
<1>2. \A i \in Investors : l[i].deposited \in Nat /\ l[i].withdrawn \in Nat
  BY DEF TreasuryAssumption
<1>3. Reserved(BootCapital(l)) \in Nat /\ TotalWithdrawn(l) \in Nat
  BY <1>2, NetCapitalType
<1>4. /\ ledger = l /\ reserve = Reserved(BootCapital(l)) /\ credited = 0
      /\ tier1Pct = DefaultTier1Pct /\ call = [c \in Calls |-> Idle]
      /\ opening = Reserved(BootCapital(l)) + TotalWithdrawn(l)
  BY <1>1 DEF Booted
<1>5. Money
  BY <1>2, <1>3, <1>4 DEF Money, DefaultTier1Pct, Idle
<1>6. Owed = 0
  <2> DEFINE f == [c \in Calls |-> Owes(c)]
  <2>1. DOMAIN f = Calls /\ \A c \in Calls : f[c] = 0
    BY <1>4 DEF Owes, Idle
  <2>2. Owed = SumFunction(f)
    BY DEF Owed
  <2> HIDE DEF f
  <2> QED BY <2>1, <2>2, SumOfZeros DEF TreasuryAssumption, SumFunction
<1>7. reserve = opening + credited - TotalWithdrawn(ledger) + Owed
  BY <1>3, <1>4, <1>6
<1> QED BY <1>5, <1>7 DEF ReserveMatchesLedger, Owed

LEMMA ReserveInvNext ==
    ASSUME ReserveInv, TreasuryAssumption, [TreasuryNext]_treasuryVars
    PROVE  Money' /\ ReserveMatchesLedger'
<1>1. ASSUME NEW c \in Calls, Step(c) \/ LedgerFails(c)
      PROVE  Money' /\ ReserveMatchesLedger'
  BY <1>1, WorkKeeps, CommitKeeps, SettleKeeps DEF Step
<1>2. ASSUME NEW c \in Calls, NEW op \in Ops, NEW i \in Investors, NEW a \in Amounts,
             Request(c, op, i, a)
      PROVE  Money' /\ ReserveMatchesLedger'
  BY <1>2, RequestKeeps
<1>3. ASSUME NEW readable \in BOOLEAN, NEW i \in Investors, Restart(readable, i)
      PROVE  Money' /\ ReserveMatchesLedger'
  BY <1>3, RestartKeeps
<1> QED BY <1>1, <1>2, <1>3, RestKeeps DEF TreasuryNext

THEOREM ReserveInvariant == TreasurySpec => [](Money /\ ReserveMatchesLedger)
<1>1. TreasuryInit => Money /\ ReserveMatchesLedger
  BY ReserveInvInit, TreasuryAssumption
<1>2. LedgerInv /\ Money /\ ReserveMatchesLedger /\ [TreasuryNext]_treasuryVars
        => Money' /\ ReserveMatchesLedger'
  BY ReserveInvNext, TreasuryAssumption DEF ReserveInv
<1> QED BY <1>1, <1>2, LedgerInvariant, PTL DEF TreasurySpec

\* For any investors and any requests: since the boot the reserve has lost
\* exactly what the ledger paid out, except the debits still to come or
\* refused.
THEOREM ReserveAgrees == TreasurySpec => []ReserveMatchesLedger
  BY ReserveInvariant, PTL
---------------------------------------------------------------------------
(* A refusal needs a race *)

\* A withdrawal that has passed the gate is covered, until another one is
\* paid out of the same reserve.
Checked(c) == call[c].op = "withdraw" /\ call[c].pc \in {"equity", "lock", "sum", "commit", "settle"}

AnotherPaid(c) == \E d \in Calls \ {c} : call[d].op = "withdraw" /\ call[d].pc = "done"

Covered(c) ==
    /\ Checked(c) => call[c].amount <= reserve \/ AnotherPaid(c)
    /\ call[c].pc = "refused" => AnotherPaid(c)

RaceInv == \A c \in Calls : Covered(c)

\* A step of one request that takes nothing out of the reserve leaves the
\* others covered.
LEMMA OthersCovered ==
    ASSUME RaceInv, Money, NEW c \in Calls, NEW e \in Calls \ {c}, call[c].pc # "done",
           \A d \in Calls \ {c} : call'[d] = call[d], reserve' \in Nat, reserve' >= reserve
    PROVE  Covered(e)'
<1>1. Covered(e) /\ call'[e] = call[e]
  BY DEF RaceInv
<1>2. AnotherPaid(e) => AnotherPaid(e)'
  BY DEF AnotherPaid
<1>3. Checked(e) => call[e].amount \in Nat
  BY DEF Checked, Money
<1> QED BY <1>1, <1>2, <1>3 DEF Covered, Checked, Money

LEMMA RaceStep ==
    ASSUME ReserveInv, TreasuryAssumption, RaceInv, NEW c \in Calls, Step(c) \/ LedgerFails(c),
           reserve' \in Nat
    PROVE  RaceInv'
<1>1. /\ DOMAIN call = Calls /\ call[c].pc \notin {"idle", "done"}
      /\ DOMAIN call[c] = CallFields /\ call[c].op \in Ops
  <2>1. DOMAIN call = Calls /\ call[c].pc \notin {"idle", "done"}
    BY DEF ReserveInv, LedgerInv, Shapes, Step, ReserveGate, ReadEquity, CountActive, LockRow,
           SumUnits, Commit, AddCapital, DebitTier1Cash, LedgerFails, At
  <2> QED BY <2>1, AtWork DEF ReserveInv
<1>2. reserve \in Nat /\ call[c].amount \in Nat
  BY <1>1 DEF ReserveInv, Money, Ops
<1>3. ASSUME NEW step, Goto(c, step)
      PROVE  /\ \A d \in Calls \ {c} : call'[d] = call[d]
             /\ call'[c].op = call[c].op /\ call'[c].amount = call[c].amount
             /\ call'[c].pc = step
  BY <1>1, <1>3 DEF Goto, CallFields
<1>4. Covered(c)
  BY DEF RaceInv
<1>5. ASSUME \A d \in Calls \ {c} : call'[d] = call[d]
      PROVE  AnotherPaid(c)' = AnotherPaid(c)
  BY <1>5 DEF AnotherPaid
<1>6. CASE ReserveGate(c)
  <2>1. /\ \A d \in Calls \ {c} : call'[d] = call[d]
        /\ call'[c].op = call[c].op /\ call'[c].amount = call[c].amount
        /\ call'[c].pc = IF call[c].amount > reserve THEN "rejected" ELSE "equity"
        /\ reserve' = reserve
    BY <1>1, <1>6 DEF ReserveGate, CallFields
  <2>2. Covered(c)'
    BY <1>2, <2>1 DEF Covered, Checked
  <2>3. reserve' >= reserve
    BY <1>2, <2>1
  <2> QED BY <1>1, <2>1, <2>2, <2>3, OthersCovered DEF RaceInv, ReserveInv
<1>7. ASSUME \A d \in Calls \ {c} : call'[d] = call[d], call'[c].op = call[c].op,
             call'[c].amount = call[c].amount, call'[c].pc # "refused", reserve' >= reserve,
             call'[c].pc \in {"equity", "lock", "sum", "commit", "settle"} =>
                call[c].op # "withdraw"
                \/ call[c].pc \in {"equity", "lock", "sum", "commit", "settle"}
      PROVE  RaceInv'
  <2>1. Covered(c)'
    BY <1>2, <1>4, <1>5, <1>7 DEF Covered, Checked
  <2> QED BY <1>1, <1>7, <2>1, OthersCovered DEF RaceInv, ReserveInv
<1>8. CASE ReadEquity(c) \/ CountActive(c) \/ LockRow(c)
  <2>1. Sound(c)
    BY DEF ReserveInv, LedgerInv
  <2>2. /\ \A d \in Calls \ {c} : call'[d] = call[d]
        /\ call'[c].op = call[c].op /\ call'[c].amount = call[c].amount
        /\ call'[c].pc # "refused" /\ reserve' = reserve
    BY <1>1, <1>8 DEF ReadEquity, CountActive, LockRow, Goto, CallFields
  <2>3. call[c].op # "withdraw" \/ call[c].pc \in {"equity", "lock"}
    BY <1>8, <2>1 DEF ReadEquity, CountActive, LockRow, At, Sound, Opens
  <2> QED BY <1>2, <1>7, <2>2, <2>3
<1>9. CASE SumUnits(c)
  <2> DEFINE nav == CalculateNAV(call[c].equity, TotalUnits(ledger))
             units == IF nav = 0 THEN 0 ELSE UnitsFor(call[c].amount, nav)
             short == nav = 0 \/ (call[c].op = "withdraw" /\ call[c].held < units)
  <2>1. call' = [call EXCEPT ![c].nav = nav, ![c].units = units,
                             ![c].pc = IF short THEN "rejected" ELSE "commit"]
        /\ reserve' = reserve /\ call[c].pc = "sum"
    BY <1>9 DEF SumUnits, At
  <2> HIDE DEF nav, units, short
  <2>2. /\ \A d \in Calls \ {c} : call'[d] = call[d]
        /\ call'[c].op = call[c].op /\ call'[c].amount = call[c].amount
        /\ call'[c].pc # "refused"
    BY <1>1, <2>1 DEF CallFields
  <2>3. reserve' >= reserve /\ call[c].pc \in {"equity", "lock", "sum", "commit", "settle"}
    BY <1>2, <2>1
  <2> QED BY <1>7, <2>2, <2>3
<1>10. CASE Commit(c) \/ LedgerFails(c)
  <2>1. PICK step \in {"done", "settle", "rejected"} : Goto(c, step) /\ (step = "settle" => Commit(c))
    BY <1>10 DEF Commit, LedgerFails
  <2>2. reserve' = reserve /\ (Commit(c) => call[c].pc = "commit")
    BY <1>10 DEF Commit, LedgerFails, At
  <2> QED BY <1>2, <1>3, <1>7, <2>1, <2>2
<1>11. CASE AddCapital(c)
  <2>1. Goto(c, "done") /\ reserve' = reserve + (call[c].amount * tier1Pct) \div 100
    BY <1>11 DEF AddCapital
  <2>2. (call[c].amount * tier1Pct) \div 100 \in Nat
    <3>1. call[c].amount * tier1Pct \in Nat
      BY <1>2 DEF ReserveInv, Money
    <3>2. \A m \in Nat : m \div 100 \in Nat
      OBVIOUS
    <3> QED BY <3>1, <3>2
  <2>3. reserve' >= reserve
    BY <1>2, <2>1, <2>2
  <2> QED BY <1>3, <1>7, <2>1, <2>3
<1>12. CASE DebitTier1Cash(c) /\ call[c].amount > reserve
  <2>1. Goto(c, "refused") /\ reserve' = reserve /\ Checked(c)
    BY <1>12 DEF DebitTier1Cash, At, Checked
  <2>2. AnotherPaid(c)
    BY <1>2, <1>4, <1>12, <2>1 DEF Covered
  <2>3. Covered(c)'
    BY <1>3, <1>5, <2>1, <2>2 DEF Covered, Checked
  <2>4. reserve' >= reserve
    BY <1>2, <2>1
  <2> QED BY <1>1, <1>3, <2>1, <2>3, <2>4, OthersCovered DEF RaceInv, ReserveInv
<1>13. CASE DebitTier1Cash(c) /\ ~(call[c].amount > reserve)
  <2>1. Goto(c, "done") /\ call[c].op = "withdraw"
    BY <1>13 DEF DebitTier1Cash
  <2>2. \A d \in Calls \ {c} : AnotherPaid(d)'
    BY <1>3, <2>1 DEF AnotherPaid
  <2>3. Covered(c)'
    BY <1>3, <2>1 DEF Covered, Checked
  <2> QED BY <2>2, <2>3 DEF RaceInv, Covered
<1> QED BY <1>6, <1>8, <1>9, <1>10, <1>11, <1>12, <1>13 DEF Step

LEMMA RaceRequest ==
    ASSUME ReserveInv, RaceInv, NEW c \in Calls, NEW op \in Ops, NEW i \in Investors, NEW a,
           Request(c, op, i, a)
    PROVE  RaceInv'
<1>1. /\ \A d \in Calls \ {c} : call'[d] = call[d]
      /\ call'[c].op = op
      /\ call'[c].pc = CASE op = "withdraw" -> "gate" [] op = "seed" -> "count"
                         [] OTHER -> "equity"
      /\ call[c].pc = "idle" /\ reserve' = reserve
  BY DEF Request, At, ReserveInv, LedgerInv, Shapes
<1>2. Covered(c)'
  BY <1>1 DEF Covered, Checked, Ops
<1>3. reserve' \in Nat /\ reserve' >= reserve
  BY <1>1 DEF ReserveInv, Money
<1> QED BY <1>1, <1>2, <1>3, OthersCovered DEF RaceInv, ReserveInv

LEMMA RaceRestart ==
    ASSUME ReserveInv, RaceInv, NEW readable \in BOOLEAN, NEW i \in Investors,
           Restart(readable, i)
    PROVE  RaceInv'
<1> SUFFICES ASSUME NEW c \in Calls PROVE Covered(c)'
  BY DEF RaceInv
<1>1. call' = [d \in Calls |->
              IF call[d].pc \in {"idle", "done", "rejected"}
              THEN call[d] ELSE [call[d] EXCEPT !.pc = "lost"]]
  BY DEF Restart
<1>2. CASE call[c].pc \in {"idle", "done", "rejected"}
  BY <1>1, <1>2 DEF Covered, Checked
<1>3. CASE call[c].pc \notin {"idle", "done", "rejected"}
  <2>1. DOMAIN call[c] = CallFields
    BY <1>3, AtWork DEF ReserveInv
  <2>2. call'[c].pc = "lost"
    BY <1>1, <1>3, <2>1 DEF CallFields
  <2> QED BY <2>2 DEF Covered, Checked
<1> QED BY <1>2, <1>3

LEMMA RaceRest ==
    ASSUME ReserveInv, TreasuryAssumption, RaceInv, reserve' \in Nat,
           \/ \E v \in EquityLevels : MarketMoves(v)
           \/ \E p \in Profits : SweepProfitToTier1(p)
           \/ \E pct \in Tier1Pcts : ApplyMacroRegime(pct)
           \/ UNCHANGED treasuryVars
    PROVE  RaceInv'
<1>1. UNCHANGED call
  BY DEF MarketMoves, SweepProfitToTier1, ApplyMacroRegime, treasuryVars
<1>2. reserve' >= reserve /\ reserve \in Nat
  BY DEF MarketMoves, SweepProfitToTier1, ApplyMacroRegime, treasuryVars,
         TreasuryAssumption, ReserveInv, Money
<1> SUFFICES ASSUME NEW c \in Calls PROVE Covered(c)'
  BY DEF RaceInv
<1>3. Covered(c) /\ (Checked(c) => call[c].amount \in Nat)
  BY DEF RaceInv, Checked, ReserveInv, Money
<1>4. AnotherPaid(c)' = AnotherPaid(c) /\ Checked(c)' = Checked(c)
  BY <1>1 DEF AnotherPaid, Checked
<1> QED BY <1>1, <1>2, <1>3, <1>4 DEF Covered

\* For any number of requests: a debit is refused only when another withdrawal
\* was paid out of the reserve the refused one had been checked against.
THEOREM RefusalsNeedRaces == TreasurySpec => []RefusalNeedsRace
<1>1. TreasuryInit => RaceInv
  BY DEF TreasuryInit, Booted, RaceInv, Covered, Checked, Idle
<1>2. LedgerInv /\ Money /\ ReserveMatchesLedger /\ RaceInv /\ [TreasuryNext]_treasuryVars
        => RaceInv'
  <2> SUFFICES ASSUME ReserveInv, RaceInv, [TreasuryNext]_treasuryVars PROVE RaceInv'
    BY DEF ReserveInv
  <2>1. reserve' \in Nat
    BY ReserveInvNext, TreasuryAssumption DEF Money
  <2> QED BY <2>1, RaceStep, RaceRequest, RaceRestart, RaceRest, TreasuryAssumption
          DEF TreasuryNext
<1>3. RaceInv => RefusalNeedsRace
  BY DEF RaceInv, Covered, AnotherPaid, RefusalNeedsRace
<1> QED BY <1>1, <1>2, <1>3, LedgerInvariant, ReserveInvariant, PTL DEF TreasurySpec

---------------------------------------------------------------------------
(* Types *)

\* The rows are rows, and what a request has read and worked out are numbers.
Rows ==
    /\ ledger \in [Investors -> Row] /\ booked \in [Investors -> Int]
    /\ equity \in Nat /\ tier1Pct \in 0..100
    /\ \A c \in Calls : call[c].op # "none" => call[c].equity \in Nat /\ call[c].units \in Nat

TypesInv == ReserveInv /\ Rows

LEMMA Quotients ==
    ASSUME NEW a \in Nat, NEW b \in Nat \ {0}
    PROVE  a \div b \in Nat
<1> DEFINE q == a \div b
<1>1. q \in Int /\ b * q <= a /\ a < b * q + b
  OBVIOUS
<1>2. \A n \in Int : n <= -1 => b * n <= -b
  OBVIOUS
<1> HIDE DEF q
<1>3. q >= 0
  BY <1>1, <1>2
<1> QED BY <1>1, <1>3 DEF q

LEMMA Products == \A a, b \in Nat : a * b \in Nat
  OBVIOUS

LEMMA NavType ==
    ASSUME TreasuryAssumption, NEW eq \in Nat, NEW units \in Nat
    PROVE  CalculateNAV(eq, units) \in Nat
<1>1. NavScale \in Nat
  BY DEF TreasuryAssumption
<1>2. CASE units <= 0 \/ eq <= 0
  BY <1>1, <1>2 DEF CalculateNAV
<1>3. CASE ~(units <= 0 \/ eq <= 0)
  <2> DEFINE a == 2 * eq * NavScale + units
             b == 2 * units
  <2>1. a \in Nat /\ b \in Nat \ {0}
    <3>1. 2 * eq \in Nat /\ b \in Nat \ {0}
      BY <1>3
    <3>2. (2 * eq) * NavScale \in Nat
      BY <1>1, <3>1, Products
    <3> QED BY <3>1, <3>2
  <2>2. CalculateNAV(eq, units) = a \div b
    BY <1>3 DEF CalculateNAV
  <2> HIDE DEF a, b
  <2> QED BY <2>1, <2>2, Quotients
<1> QED BY <1>2, <1>3

LEMMA UnitsType ==
    ASSUME TreasuryAssumption, NEW amount \in Nat, NEW nav \in Nat \ {0}
    PROVE  UnitsFor(amount, nav) \in Nat
<1>1. amount * NavScale \in Nat
  BY Products DEF TreasuryAssumption
<1> QED BY <1>1, Quotients DEF UnitsFor

LEMMA TotalUnitsType ==
    ASSUME TreasuryAssumption, Rows
    PROVE  TotalUnits(ledger) \in Nat
<1> DEFINE f == [i \in Investors |-> ledger[i].units]
<1>1. DOMAIN f = Investors /\ \A i \in Investors : f[i] \in Nat
  BY DEF Rows, Row
<1> HIDE DEF f
<1>2. SumFunction(f) \in Nat
  BY <1>1, SumIsNat DEF TreasuryAssumption, SumFunction
<1> QED BY <1>2 DEF TotalUnits, f

\* A step of one request that changes neither the rows nor what it worked out.
LEMMA KeepsRows ==
    ASSUME TypesInv, NEW c \in Calls,
           \A d \in Calls \ {c} : call'[d] = call[d],
           call'[c].op # "none" => call'[c].equity \in Nat /\ call'[c].units \in Nat,
           UNCHANGED <<ledger, booked, equity, tier1Pct>>
    PROVE  Rows'
  BY DEF TypesInv, Rows

LEMMA GotoKeeps ==
    ASSUME TypesInv, NEW c \in Calls, NEW step, call[c].pc # "idle", Goto(c, step)
    PROVE  /\ \A d \in Calls \ {c} : call'[d] = call[d]
           /\ call'[c].equity \in Nat /\ call'[c].units \in Nat
<1>1. /\ \A d \in Calls \ {c} : call'[d] = call[d]
      /\ \A f \in CallFields \ {"pc"} : call'[c][f] = call[c][f]
      /\ call[c].op \in Ops
  BY GotoStep, AtWork DEF TypesInv, ReserveInv
<1>2. call'[c].equity = call[c].equity /\ call'[c].units = call[c].units
  BY <1>1 DEF CallFields
<1>3. call[c].equity \in Nat /\ call[c].units \in Nat
  BY <1>1 DEF TypesInv, Rows, Ops
<1> QED BY <1>1, <1>2, <1>3

LEMMA RequestTypes ==
    ASSUME TypesInv, NEW c \in Calls, NEW op \in Ops,
           NEW i \in Investors, NEW a \in Amounts, Request(c, op, i, a)
    PROVE  Rows'
<1>1. /\ \A d \in Calls \ {c} : call'[d] = call[d]
      /\ call'[c].equity = 0 /\ call'[c].units = 0
      /\ UNCHANGED <<ledger, booked, equity, tier1Pct>>
  BY DEF Request, TypesInv, ReserveInv, LedgerInv, Shapes
<1> QED BY <1>1, KeepsRows

LEMMA ReadingTypes ==
    ASSUME TypesInv, TreasuryAssumption, NEW c \in Calls,
           ReserveGate(c) \/ ReadEquity(c) \/ CountActive(c) \/ LockRow(c)
    PROVE  Rows'
<1>1. /\ call[c].pc # "idle" /\ UNCHANGED <<ledger, booked, equity, tier1Pct>>
  BY DEF ReserveGate, ReadEquity, CountActive, LockRow, At
<1>2. /\ DOMAIN call[c] = CallFields /\ DOMAIN call = Calls /\ call[c].op \in Ops
      /\ call[c].equity \in Nat /\ call[c].units \in Nat
  BY <1>1, AtWork DEF TypesInv, ReserveInv, LedgerInv, Shapes, Rows, Ops
<1>3. /\ \A d \in Calls \ {c} : call'[d] = call[d]
      /\ call'[c].equity \in {call[c].equity, equity, InitialCapital}
      /\ call'[c].units = call[c].units
  <2>1. CASE ReserveGate(c) \/ ReadEquity(c) \/ CountActive(c)
    BY <1>2, <2>1 DEF ReserveGate, ReadEquity, CountActive, CallFields
  <2>2. CASE LockRow(c)
    BY <1>2, <2>2 DEF LockRow, Goto, CallFields
  <2> QED BY <2>1, <2>2
<1>4. equity \in Nat /\ InitialCapital \in Nat
  BY DEF TypesInv, Rows, TreasuryAssumption
<1> QED BY <1>1, <1>2, <1>3, <1>4, KeepsRows

\* The units of a transaction are a number: a price of zero prices nothing.
LEMMA SumUnitsTypes ==
    ASSUME TypesInv, TreasuryAssumption, NEW c \in Calls, SumUnits(c)
    PROVE  Rows'
<1> DEFINE nav == CalculateNAV(call[c].equity, TotalUnits(ledger))
           units == IF nav = 0 THEN 0 ELSE UnitsFor(call[c].amount, nav)
           short == nav = 0 \/ (call[c].op = "withdraw" /\ call[c].held < units)
<1>1. /\ call[c].pc = "sum" /\ UNCHANGED <<ledger, booked, equity, tier1Pct>>
      /\ call' = [call EXCEPT ![c].nav = nav, ![c].units = units,
                              ![c].pc = IF short THEN "rejected" ELSE "commit"]
  BY DEF SumUnits, At
<1>2. /\ DOMAIN call[c] = CallFields /\ DOMAIN call = Calls /\ call[c].op \in Ops
      /\ call[c].equity \in Nat /\ call[c].amount \in Nat
  BY <1>1, AtWork DEF TypesInv, ReserveInv, LedgerInv, Shapes, Rows, Money, Ops
<1>3. nav \in Nat
  BY <1>2, TotalUnitsType, NavType DEF TypesInv
<1> HIDE DEF nav
<1>4. units \in Nat
  BY <1>2, <1>3, UnitsType
<1> HIDE DEF units, short
<1>5. /\ \A d \in Calls \ {c} : call'[d] = call[d]
      /\ call'[c].equity = call[c].equity /\ call'[c].units = units
  BY <1>1, <1>2 DEF CallFields
<1> QED BY <1>1, <1>2, <1>4, <1>5, KeepsRows

LEMMA CommitTypes ==
    ASSUME TypesInv, NEW c \in Calls, Commit(c)
    PROVE  Rows'
<1> DEFINE i == call[c].who
           a == call[c].amount
           u == call[c].units
<1>1. /\ call[c].pc = "commit" /\ UNCHANGED <<equity, tier1Pct>>
      /\ \E step : Goto(c, step)
  BY DEF Commit, At
<1>2. i \in Investors /\ call[c].op \in Ops /\ a \in Nat /\ u \in Nat
  BY <1>1, AtWork DEF TypesInv, ReserveInv, Money, Rows, Ops
<1>3. ledger \in [Investors -> Row] /\ ledger[i] \in Row
  BY <1>2 DEF TypesInv, Rows
<1> HIDE DEF i, a, u
<1>4. \A n \in Nat : Redeemed(n, u) \in Nat
  BY <1>2 DEF Redeemed
<1>5. booked' \in [Investors -> Int]
  <2>1. booked' = [booked EXCEPT ![i] = @ - u] \/ booked' = [booked EXCEPT ![i] = @ + u]
    BY DEF Commit, i, u
  <2>2. booked \in [Investors -> Int] /\ booked[i] + u \in Int /\ booked[i] - u \in Int
    BY <1>2 DEF TypesInv, Rows
  <2> QED BY <2>1, <2>2
<1>6. ledger' \in [Investors -> Row]
  <2>1. CASE call[c].op = "withdraw"
    <3>1. ledger' = [ledger EXCEPT ![i].withdrawn = @ + a, ![i].units = Redeemed(@, u)]
      BY <2>1 DEF Commit, i, a, u
    <3>2. ledger[i].withdrawn + a \in Nat /\ Redeemed(ledger[i].units, u) \in Nat
      BY <1>2, <1>3, <1>4 DEF Row
    <3> QED BY <1>2, <1>3, <3>1, <3>2 DEF Row
  <2>2. CASE call[c].op # "withdraw"
    <3>1. ledger' = [ledger EXCEPT ![i].active = TRUE, ![i].deposited = @ + a, ![i].units = @ + u]
      BY <2>2 DEF Commit, i, a, u
    <3>2. ledger[i].deposited + a \in Nat /\ ledger[i].units + u \in Nat
      BY <1>2, <1>3 DEF Row
    <3> QED BY <1>2, <1>3, <3>1, <3>2 DEF Row
  <2> QED BY <2>1, <2>2
<1>7. /\ \A d \in Calls \ {c} : call'[d] = call[d]
      /\ call'[c].equity \in Nat /\ call'[c].units \in Nat
  BY <1>1, GotoKeeps
<1> QED BY <1>1, <1>5, <1>6, <1>7 DEF TypesInv, Rows

LEMMA SettlingTypes ==
    ASSUME TypesInv, NEW c \in Calls, LedgerFails(c) \/ AddCapital(c) \/ DebitTier1Cash(c)
    PROVE  Rows'
<1>1. call[c].pc # "idle" /\ UNCHANGED <<ledger, booked, equity, tier1Pct>> /\ \E step : Goto(c, step)
  BY DEF LedgerFails, AddCapital, DebitTier1Cash, At
<1>2. /\ \A d \in Calls \ {c} : call'[d] = call[d]
      /\ call'[c].equity \in Nat /\ call'[c].units \in Nat
  BY <1>1, GotoKeeps
<1> QED BY <1>1, <1>2, KeepsRows

LEMMA RestartTypes ==
    ASSUME TypesInv, TreasuryAssumption, NEW readable \in BOOLEAN, NEW i \in Investors,
           Restart(readable, i)
    PROVE  Rows'
<1> DEFINE seeds == readable /\ \A j \in Investors : ~ledger[j].active
           l == IF seeds THEN [ledger EXCEPT ![i] = SeedRow] ELSE ledger
           capital == IF readable THEN BootCapital(l) ELSE InitialCapital
<1>1. /\ ledger' = l /\ booked' = IF seeds THEN [booked EXCEPT ![i] = @ + InitialCapital] ELSE booked
      /\ equity' = capital /\ tier1Pct' = DefaultTier1Pct
      /\ call' = [c \in Calls |->
              IF call[c].pc \in {"idle", "done", "rejected"}
              THEN call[c] ELSE [call[c] EXCEPT !.pc = "lost"]]
  BY DEF Restart
<1>2. InitialCapital \in Nat /\ SeedRow \in Row
  BY DEF TreasuryAssumption, SeedRow, Row
<1> HIDE DEF seeds
<1>3. l \in [Investors -> Row] /\ booked' \in [Investors -> Int]
  BY <1>1, <1>2 DEF TypesInv, Rows
<1> HIDE DEF l
<1>4. \A j \in Investors : l[j].deposited \in Nat /\ l[j].withdrawn \in Nat
  BY <1>3 DEF Row
<1>5. capital \in Nat
  BY <1>2, <1>4, NetCapitalType
<1>6. ASSUME NEW c \in Calls, call'[c].op # "none"
      PROVE  call'[c].equity \in Nat /\ call'[c].units \in Nat
  <2>1. CASE call[c].pc \in {"idle", "done", "rejected"}
    BY <1>1, <1>6, <2>1 DEF TypesInv, Rows
  <2>2. CASE call[c].pc \notin {"idle", "done", "rejected"}
    <3>1. /\ DOMAIN call[c] = CallFields /\ call[c].op \in Ops
          /\ call'[c] = [call[c] EXCEPT !.pc = "lost"]
      BY <1>1, <2>2, AtWork DEF TypesInv, ReserveInv
    <3>2. call'[c].equity = call[c].equity /\ call'[c].units = call[c].units
      BY <3>1 DEF CallFields
    <3> QED BY <3>1, <3>2 DEF TypesInv, Rows, Ops
  <2> QED BY <2>1, <2>2
<1> QED BY <1>1, <1>3, <1>5, <1>6 DEF Rows, DefaultTier1Pct

LEMMA TypesInit == ASSUME TreasuryInit, TreasuryAssumption PROVE Rows
<1>1. PICK l \in FirstLedgers : Booted(l)
  BY DEF TreasuryInit
<1>2. l \in [Investors -> Row]
  BY DEF TreasuryAssumption, Row
<1>3. \A i \in Investors : l[i].deposited \in Nat /\ l[i].withdrawn \in Nat
  BY <1>2 DEF Row
<1>4. BootCapital(l) \in Nat
  BY <1>3, NetCapitalType
<1> QED BY <1>1, <1>2, <1>4 DEF Booted, Rows, DefaultTier1Pct, Idle

LEMMA TypesNext ==
    ASSUME TypesInv, TreasuryAssumption, [TreasuryNext]_treasuryVars
    PROVE  Rows'
<1>1. CASE UNCHANGED treasuryVars
  BY <1>1 DEF treasuryVars, TypesInv, Rows
<1>2. ASSUME NEW c \in Calls, Step(c) \/ LedgerFails(c) PROVE Rows'
  BY <1>2, ReadingTypes, SumUnitsTypes, CommitTypes, SettlingTypes DEF Step
<1>3. ASSUME NEW v \in EquityLevels, MarketMoves(v) PROVE Rows'
  BY <1>3 DEF MarketMoves, TreasuryAssumption, TypesInv, Rows
<1>4. ASSUME NEW p \in Profits, SweepProfitToTier1(p) PROVE Rows'
  BY <1>4 DEF SweepProfitToTier1, TypesInv, Rows
<1>5. ASSUME NEW pct \in Tier1Pcts, ApplyMacroRegime(pct) PROVE Rows'
  BY <1>5 DEF ApplyMacroRegime, TreasuryAssumption, TypesInv, Rows
<1> QED BY <1>1, <1>2, <1>3, <1>4, <1>5, RequestTypes, RestartTypes DEF TreasuryNext

LEMMA TypesFollow == TypesInv => TreasuryTypeOK
<1> SUFFICES ASSUME TypesInv PROVE TreasuryTypeOK
  OBVIOUS
<1> QED BY DEF TypesInv, ReserveInv, LedgerInv, Shapes, Money, Rows, TreasuryTypeOK

\* For any investors, requests and prices: no row ever holds a negative number
\* of units, the reserve is never overdrawn, and a price that rounds to zero
\* books nothing.
THEOREM TreasuryIsTyped == TreasurySpec => []TreasuryTypeOK
<1>1. TreasuryInit => Rows
  BY TypesInit, TreasuryAssumption
<1>2. LedgerInv /\ Money /\ ReserveMatchesLedger /\ Rows /\ [TreasuryNext]_treasuryVars => Rows'
  BY TypesNext, TreasuryAssumption DEF TypesInv, ReserveInv
<1>3. LedgerInv /\ Money /\ ReserveMatchesLedger /\ Rows => TreasuryTypeOK
  BY TypesFollow DEF TypesInv, ReserveInv
<1> QED BY <1>1, <1>2, <1>3, LedgerInvariant, ReserveInvariant, PTL DEF TreasurySpec

---------------------------------------------------------------------------
(* The books *)

\* A request asks for an amount, and the process counts its boots.
Asked ==
    /\ \A c \in Calls : call[c].op # "none" =>
          /\ call[c].amount \in Amounts \cup {InitialCapital}
          /\ call[c].op = "withdraw" => call[c].amount \in Amounts
    /\ DOMAIN budget = {"moves", "faults", "boots"}

BooksInv == TypesInv /\ Asked

\* One movement of the books, or none.
BooksStep == [Books!Next]_(Books!ledgerVars)

\* A debit never exceeds what is owed.
LEMMA OwedCovers ==
    ASSUME Money, TreasuryAssumption, NEW c \in Calls
    PROVE  Owes(c) <= Owed
<1> DEFINE f == [d \in Calls |-> Owes(d)]
<1>1. DOMAIN f = Calls /\ f[c] = Owes(c) /\ \A d \in Calls : f[d] \in Nat
  BY LedgerSumsType
<1>2. Owed = SumFunction(f)
  BY DEF Owed
<1> HIDE DEF f
<1>3. IsFiniteSet(Calls) /\ IsFiniteSet(Calls \ {c})
  BY FS_RemoveElement DEF TreasuryAssumption
<1>4. SumFunctionOnSet(f, Calls) = f[c] + SumFunctionOnSet(f, Calls \ {c})
  BY <1>1, <1>3, SumTakesOut
<1>5. SumFunctionOnSet(f, Calls \ {c}) \in Nat
  BY <1>1, <1>3, SumIsNat
<1> QED BY <1>1, <1>2, <1>4, <1>5 DEF SumFunction

LEMMA NothingMoves ==
    ASSUME Owed' = Owed, budget'.boots = budget.boots, UNCHANGED <<ledger, booked, reserve>>
    PROVE  BooksStep
  BY DEF BooksStep, Books!ledgerVars, Owed

\* A step of one request asks for nothing new.
LEMMA KeepsAsking ==
    ASSUME BooksInv, NEW c \in Calls, Step(c) \/ LedgerFails(c)
    PROVE  Asked' /\ budget'.boots = budget.boots
<1>1. /\ DOMAIN call[c] = CallFields /\ DOMAIN call = Calls /\ call[c].op \in Ops
  <2>1. call[c].pc # "idle"
    BY DEF Step, ReserveGate, ReadEquity, CountActive, LockRow, SumUnits, Commit, AddCapital,
           DebitTier1Cash, LedgerFails, At
  <2> QED BY <2>1, AtWork DEF BooksInv, TypesInv, ReserveInv, LedgerInv, Shapes
<1>2. DOMAIN budget' = {"moves", "faults", "boots"} /\ budget'.boots = budget.boots
  BY DEF Step, ReserveGate, ReadEquity, CountActive, LockRow, SumUnits, Commit, AddCapital,
         DebitTier1Cash, LedgerFails, BooksInv, Asked
<1>3. /\ \A d \in Calls \ {c} : call'[d] = call[d]
      /\ call'[c].op = call[c].op /\ call'[c].amount = call[c].amount
  <2>1. CASE ReserveGate(c) \/ ReadEquity(c) \/ CountActive(c)
    BY <1>1, <2>1 DEF ReserveGate, ReadEquity, CountActive, CallFields
  <2>2. CASE LockRow(c)
    BY <1>1, <2>2 DEF LockRow, Goto, CallFields
  <2>3. CASE SumUnits(c)
    <3> DEFINE nav == CalculateNAV(call[c].equity, TotalUnits(ledger))
               units == IF nav = 0 THEN 0 ELSE UnitsFor(call[c].amount, nav)
               short == nav = 0 \/ (call[c].op = "withdraw" /\ call[c].held < units)
    <3>1. call' = [call EXCEPT ![c].nav = nav, ![c].units = units,
                               ![c].pc = IF short THEN "rejected" ELSE "commit"]
      BY <2>3 DEF SumUnits
    <3> HIDE DEF nav, units, short
    <3> QED BY <1>1, <3>1 DEF CallFields
  <2>4. CASE Commit(c) \/ AddCapital(c) \/ DebitTier1Cash(c) \/ LedgerFails(c)
    <3>1. \E step : Goto(c, step)
      BY <2>4 DEF Commit, AddCapital, DebitTier1Cash, LedgerFails
    <3> QED BY <1>1, <3>1 DEF Goto, CallFields
  <2> QED BY <2>1, <2>2, <2>3, <2>4 DEF Step
<1> QED BY <1>1, <1>2, <1>3 DEF BooksInv, Asked, Ops

\* A commit buys units, or burns what the locked row still holds.
LEMMA CommitBooks ==
    ASSUME BooksInv, TreasuryAssumption, NEW c \in Calls, Commit(c)
    PROVE  BooksStep
<1> DEFINE i == call[c].who
           a == call[c].amount
           u == call[c].units
<1>1. /\ call[c].pc = "commit" /\ UNCHANGED reserve /\ budget' = budget
      /\ Sound(c)
  BY DEF Commit, At, BooksInv, TypesInv, ReserveInv, LedgerInv
<1>2. /\ i \in Investors /\ call[c].op \in Ops /\ u \in Nat
      /\ a \in Amounts \cup {InitialCapital} /\ (call[c].op = "withdraw" => a \in Amounts)
      /\ a \in Nat
  BY <1>1, AtWork DEF BooksInv, TypesInv, ReserveInv, Money, Rows, Ops, Asked
<1>3. ledger \in [Investors -> Row] /\ ledger[i] \in Row /\ booked \in [Investors -> Int]
  BY <1>2 DEF BooksInv, TypesInv, Rows
<1>4. CASE call[c].op = "withdraw"
  <2>1. /\ ledger' = [ledger EXCEPT ![i].withdrawn = @ + a, ![i].units = Redeemed(@, u)]
        /\ booked' = [booked EXCEPT ![i] = @ - u]
    BY <1>4 DEF Commit
  <2>2. Owed' = Owed + a
    BY <1>4, CommitKeeps DEF BooksInv, TypesInv
  <2>3. ledger[i].active /\ ~(ledger[i].units < u)
    BY <1>1, <1>4 DEF Sound, Trades
  <2> HIDE DEF i, a, u
  <2>4. Redeemed(ledger[i].units, u) = ledger[i].units - u
    BY <2>3 DEF Redeemed
  <2>5. ledger'[i].units = ledger[i].units - u
    BY <1>2, <1>3, <2>1, <2>4 DEF Row
  <2>6. ledger[i].units - ledger'[i].units = u /\ u \in 0..ledger[i].units
    BY <1>2, <1>3, <2>3, <2>5 DEF Row
  <2>7. ledger' = [ledger EXCEPT ![i].withdrawn = @ + a, ![i].units = @ - u]
    BY <1>2, <1>3, <2>1, <2>4 DEF Row
  <2>8. Books!Redeem(i, a)
    BY <1>1, <2>1, <2>2, <2>3, <2>6, <2>7 DEF Books!Redeem, Owed
  <2>9. a \in Amounts
    BY <1>2, <1>4 DEF a
  <2> QED BY <1>2, <2>8, <2>9 DEF BooksStep, Books!Next
<1>5. CASE call[c].op # "withdraw"
  <2>1. /\ ledger' = [ledger EXCEPT ![i].active = TRUE, ![i].deposited = @ + a, ![i].units = @ + u]
        /\ booked' = [booked EXCEPT ![i] = @ + u]
    BY <1>5 DEF Commit
  <2>2. Owed' = Owed
    BY <1>5, CommitKeeps DEF BooksInv, TypesInv
  <2> HIDE DEF i, a, u
  <2>3. ledger'[i].units = ledger[i].units + u
    BY <1>2, <1>3, <2>1 DEF Row
  <2>4. ledger'[i].units - ledger[i].units = u
    BY <1>2, <1>3, <2>3 DEF Row
  <2>5. Books!Subscribe(i, a)
    BY <1>1, <1>2, <2>1, <2>2, <2>4 DEF Books!Subscribe, Owed
  <2> QED BY <1>2, <2>5 DEF BooksStep, Books!Next
<1> QED BY <1>4, <1>5

\* A debit settles what is owed, if the reserve has it.
LEMMA SettleBooks ==
    ASSUME BooksInv, TreasuryAssumption, NEW c \in Calls, AddCapital(c) \/ DebitTier1Cash(c)
    PROVE  BooksStep
<1> DEFINE a == call[c].amount
<1>1. /\ call[c].pc = "settle" /\ UNCHANGED <<ledger, booked>> /\ budget' = budget
  BY DEF AddCapital, DebitTier1Cash, At
<1>2. /\ call[c].op \in Ops /\ a \in Nat /\ (call[c].op = "withdraw" => a \in Amounts)
      /\ reserve \in Nat /\ tier1Pct \in Nat
  BY <1>1, AtWork DEF BooksInv, TypesInv, ReserveInv, Money, Ops, Asked
<1>3. Owed' = IF DebitTier1Cash(c) /\ ~(a > reserve) THEN Owed - a ELSE Owed
  BY SettleKeeps DEF BooksInv, TypesInv
<1>4. CASE DebitTier1Cash(c) /\ ~(a > reserve)
  <2>1. reserve' = reserve - a /\ call[c].op = "withdraw" /\ Owed' = Owed - a
    BY <1>3, <1>4 DEF DebitTier1Cash
  <2>2. a <= reserve
    BY <1>2, <1>4
  <2>3. a <= Owed
    <3>1. Owes(c) = a
      BY <1>1, <2>1 DEF Owes
    <3> QED BY <3>1, OwedCovers DEF BooksInv, TypesInv, ReserveInv
  <2> HIDE DEF a
  <2>4. Books!Settle(a)
    BY <1>1, <2>1, <2>2, <2>3 DEF Books!Settle, Owed
  <2>5. a \in Amounts
    BY <1>2, <2>1
  <2> QED BY <2>4, <2>5 DEF BooksStep, Books!Next
<1>5. CASE DebitTier1Cash(c) /\ a > reserve
  <2>1. UNCHANGED reserve /\ Owed' = Owed
    BY <1>3, <1>5 DEF DebitTier1Cash
  <2> QED BY <1>1, <2>1, NothingMoves
<1>6. CASE AddCapital(c)
  <2> DEFINE share == (a * tier1Pct) \div 100
  <2>1. reserve' = reserve + share /\ ~DebitTier1Cash(c)
    BY <1>6 DEF AddCapital, DebitTier1Cash
  <2>2. Owed' = Owed
    BY <1>3, <2>1
  <2>3. share \in Nat
    BY <1>2, Products, Quotients
  <2> HIDE DEF share
  <2>4. reserve' >= reserve
    BY <1>2, <2>1, <2>3
  <2> QED BY <1>1, <2>2, <2>4 DEF BooksStep, Books!Next, Books!Credit, Owed
<1> QED BY <1>4, <1>5, <1>6

\* What the daemon, the market and the macro regime do is at most a credit.
LEMMA RestBooks ==
    ASSUME BooksInv, TreasuryAssumption,
           \/ \E v \in EquityLevels : MarketMoves(v)
           \/ \E p \in Profits : SweepProfitToTier1(p)
           \/ \E pct \in Tier1Pcts : ApplyMacroRegime(pct)
           \/ UNCHANGED treasuryVars
    PROVE  BooksStep /\ Asked'
<1>1. Owed' = Owed
  BY RestKeeps DEF BooksInv, TypesInv
<1>2. /\ DOMAIN budget' = DOMAIN budget /\ budget'.boots = budget.boots
      /\ UNCHANGED <<ledger, booked, call>>
  BY DEF BooksInv, Asked, MarketMoves, SweepProfitToTier1, ApplyMacroRegime, Spend, treasuryVars
<1>3. Asked'
  BY <1>2 DEF BooksInv, Asked
<1>4. CASE UNCHANGED reserve
  BY <1>1, <1>2, <1>3, <1>4, NothingMoves
<1>5. ASSUME NEW p \in Profits, SweepProfitToTier1(p) PROVE BooksStep
  <2>1. reserve' >= reserve
    BY <1>5 DEF SweepProfitToTier1, TreasuryAssumption, BooksInv, TypesInv, ReserveInv, Money
  <2> QED BY <1>1, <1>2, <2>1 DEF BooksStep, Books!Next, Books!Credit, Owed
<1> QED BY <1>3, <1>4, <1>5 DEF MarketMoves, ApplyMacroRegime, treasuryVars

LEMMA RequestBooks ==
    ASSUME BooksInv, TreasuryAssumption, NEW c \in Calls, NEW op \in Ops,
           NEW i \in Investors, NEW a \in Amounts, Request(c, op, i, a)
    PROVE  BooksStep /\ Asked'
<1>1. Owed' = Owed
  BY RequestKeeps DEF BooksInv, TypesInv
<1>2. /\ \A d \in Calls \ {c} : call'[d] = call[d]
      /\ call'[c].op = op
      /\ call'[c].amount = IF op = "seed" THEN InitialCapital ELSE a
      /\ UNCHANGED <<ledger, booked, reserve>> /\ budget' = budget
  BY DEF Request, BooksInv, TypesInv, ReserveInv, LedgerInv, Shapes
<1>3. Asked'
  BY <1>2 DEF BooksInv, Asked
<1> QED BY <1>1, <1>2, <1>3, NothingMoves

\* A restart opens the books again.
LEMMA RestartBooks ==
    ASSUME BooksInv, TreasuryAssumption, NEW readable \in BOOLEAN, NEW i \in Investors,
           Restart(readable, i)
    PROVE  BooksStep /\ Asked'
<1> DEFINE seeds == readable /\ \A j \in Investors : ~ledger[j].active
<1>1. /\ ledger' = IF seeds THEN [ledger EXCEPT ![i] = SeedRow] ELSE ledger
      /\ booked' = IF seeds THEN [booked EXCEPT ![i] = @ + InitialCapital] ELSE booked
      /\ call' = [c \in Calls |->
              IF call[c].pc \in {"idle", "done", "rejected"}
              THEN call[c] ELSE [call[c] EXCEPT !.pc = "lost"]]
      /\ budget' = [budget EXCEPT !["boots"] = @ + 1]
  BY DEF Restart, Spend
<1>2. Owed' = 0 /\ reserve' \in Nat
  BY RestartKeeps DEF BooksInv, TypesInv, Money
<1>3. budget'.boots = budget.boots + 1 /\ DOMAIN budget' = DOMAIN budget
  BY <1>1 DEF BooksInv, Asked
<1>4. \A c \in Calls : call'[c].op = call[c].op
                       /\ (call[c].op # "none" => call'[c].amount = call[c].amount)
  <2> TAKE c \in Calls
  <2>1. CASE call[c].pc \in {"idle", "done", "rejected"}
    BY <1>1, <2>1
  <2>2. CASE call[c].pc \notin {"idle", "done", "rejected"}
    <3>1. DOMAIN call[c] = CallFields
      BY <2>2, AtWork DEF BooksInv, TypesInv, ReserveInv
    <3> QED BY <1>1, <2>2, <3>1 DEF CallFields
  <2> QED BY <2>1, <2>2
<1>5. Asked'
  BY <1>3, <1>4 DEF BooksInv, Asked
<1>6. Books!Reopen(i)
  <2>1. CASE seeds
    BY <1>1, <1>2, <1>3, <2>1 DEF Books!Reopen, SeedRow, Owed
  <2>2. CASE ~seeds
    BY <1>1, <1>2, <1>3, <2>2 DEF Books!Reopen, Owed
  <2> QED BY <2>1, <2>2
<1> QED BY <1>5, <1>6 DEF BooksStep, Books!Next

LEMMA BooksInit ==
    ASSUME TreasuryInit, TreasuryAssumption
    PROVE  Books!Init /\ Asked
<1>1. PICK l \in FirstLedgers : Booted(l)
  BY DEF TreasuryInit
<1>2. /\ ledger = l /\ booked = [i \in Investors |-> l[i].units]
      /\ call = [c \in Calls |-> Idle] /\ budget = [moves |-> 0, faults |-> 0, boots |-> 0]
  BY <1>1 DEF Booted
<1>3. l \in [Investors -> Row] /\ \A i \in Investors : ~l[i].active => l[i].units = 0
  BY DEF TreasuryAssumption, Row
<1>4. reserve \in Nat
  BY ReserveInvInit DEF Money
<1>5. Owed = 0
  <2> DEFINE f == [c \in Calls |-> Owes(c)]
  <2>1. DOMAIN f = Calls /\ \A c \in Calls : f[c] = 0
    BY <1>2 DEF Owes, Idle
  <2>2. Owed = SumFunction(f)
    BY DEF Owed
  <2> HIDE DEF f
  <2> QED BY <2>1, <2>2, SumOfZeros DEF TreasuryAssumption, SumFunction
<1>6. Asked
  BY <1>2 DEF Asked, Idle
<1> QED BY <1>2, <1>3, <1>4, <1>5, <1>6 DEF Books!Init, Books!Account, Row, Owed

LEMMA BooksNext ==
    ASSUME BooksInv, TreasuryAssumption, [TreasuryNext]_treasuryVars
    PROVE  BooksStep /\ Asked'
<1>1. ASSUME NEW c \in Calls, Step(c) \/ LedgerFails(c)
      PROVE  BooksStep /\ Asked'
  <2>1. Asked' /\ budget'.boots = budget.boots
    BY <1>1, KeepsAsking
  <2>2. CASE Commit(c)
    BY <2>1, <2>2, CommitBooks
  <2>3. CASE AddCapital(c) \/ DebitTier1Cash(c)
    BY <2>1, <2>3, SettleBooks
  <2>4. CASE ReserveGate(c) \/ ReadEquity(c) \/ CountActive(c) \/ LockRow(c) \/ SumUnits(c)
               \/ LedgerFails(c)
    <3>1. Owed' = Owed
      BY <2>4, WorkKeeps DEF BooksInv, TypesInv
    <3>2. UNCHANGED <<ledger, booked, reserve>>
      BY <2>4 DEF ReserveGate, ReadEquity, CountActive, LockRow, SumUnits, LedgerFails
    <3> QED BY <2>1, <3>1, <3>2, NothingMoves
  <2> QED BY <1>1, <2>2, <2>3, <2>4 DEF Step
<1> QED BY <1>1, RequestBooks, RestBooks, RestartBooks DEF TreasuryNext

\* The handlers implement the ledger: for any investors, amounts and prices,
\* and however many of them run into each other, fail or die with the process,
\* units and money move only as the single balanced steps of InvestorLedger do.
THEOREM BooksAreKept == TreasurySpec => KeepsTheBooks
<1>1. TreasuryInit => Books!Init /\ Asked /\ Rows
  BY BooksInit, TypesInit, TreasuryAssumption
<1>2. /\ LedgerInv /\ Money /\ ReserveMatchesLedger /\ Rows /\ Asked
      /\ [TreasuryNext]_treasuryVars
      => [Books!Next]_(Books!ledgerVars) /\ Rows' /\ Asked'
  BY BooksNext, TypesNext, TreasuryAssumption DEF BooksInv, TypesInv, ReserveInv, BooksStep
<1> QED BY <1>1, <1>2, LedgerInvariant, ReserveInvariant, PTL
        DEF TreasurySpec, KeepsTheBooks, Books!Spec
=============================================================================
