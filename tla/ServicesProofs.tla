--------------------------- MODULE ServicesProofs ---------------------------
(***************************************************************************)
(* What holds of the services beside the signals, for any dashboards,      *)
(* assets, prices, messages and judgments, any capacity above zero, and any *)
(* number of ticks, polls, answers and failures: the live stream, the      *)
(* guardian and what it does to the engine, the market feed, the shadow    *)
(* desk, the messenger, and the types of all five.                         *)
(***************************************************************************)
EXTENDS MCServices, ExecutionEngineProofs, SequenceTheorems, TLAPS

---------------------------------------------------------------------------
(* Elements of a queue *)

LEMMA RangeAppend ==
    ASSUME NEW q \in Seq(Nat), NEW n \in Nat
    PROVE  /\ Append(q, n) \in Seq(Nat)
           /\ n \in Range(Append(q, n))
           /\ Range(q) \subseteq Range(Append(q, n))
<1> DEFINE r == Append(q, n)
<1>1. /\ r \in Seq(Nat) /\ Len(r) = Len(q) + 1 /\ Len(q) \in Nat
      /\ \A i \in 1..Len(q) : r[i] = q[i]
      /\ r[Len(q) + 1] = n
      /\ DOMAIN r = 1..(Len(q) + 1) /\ DOMAIN q = 1..Len(q)
  BY AppendProperties
<1> HIDE DEF r
<1>2. Len(q) + 1 \in DOMAIN r /\ DOMAIN q \subseteq DOMAIN r
  BY <1>1
<1>3. n \in Range(r) /\ Range(q) \subseteq Range(r)
  BY <1>1, <1>2 DEF Range
<1> QED BY <1>1, <1>3 DEF r

\* Taking the head of a queue leaves all the others in it.
LEMMA RangeTail ==
    ASSUME NEW q \in Seq(Nat), q # << >>
    PROVE  /\ Tail(q) \in Seq(Nat) /\ Head(q) \in Nat
           /\ Range(q) \subseteq Range(Tail(q)) \cup {Head(q)}
<1> DEFINE t == Tail(q)
<1>1. /\ t \in Seq(Nat) /\ Len(t) = Len(q) - 1 /\ Len(q) \in Nat /\ Len(q) > 0
      /\ \A i \in 1..Len(t) : t[i] = q[i + 1]
      /\ Head(q) = q[1] /\ Head(q) \in Nat
      /\ DOMAIN t = 1..Len(t) /\ DOMAIN q = 1..Len(q)
  BY EmptySeq, HeadTailProperties
<1> HIDE DEF t
<1>2. ASSUME NEW i \in DOMAIN q PROVE q[i] \in Range(t) \cup {Head(q)}
  <2>1. CASE i = 1
    BY <1>1, <2>1
  <2>2. CASE i # 1
    <3>1. i \in Int /\ 1 <= i /\ i <= Len(q)
      BY <1>1
    <3>2. i - 1 \in 1..Len(t)
      BY <1>1, <2>2, <3>1
    <3>3. t[i - 1] = q[(i - 1) + 1]
      BY <1>1, <3>2
    <3>4. i - 1 \in DOMAIN t /\ t[i - 1] = q[i]
      BY <1>1, <3>1, <3>2, <3>3
    <3> QED BY <3>4 DEF Range
  <2> QED BY <2>1, <2>2
<1>3. Range(q) \subseteq Range(t) \cup {Head(q)}
  BY <1>2 DEF Range
<1> QED BY <1>1, <1>3 DEF t

---------------------------------------------------------------------------
(* The inductive invariant *)

Shapes ==
    /\ stored \in Nat /\ ingest \in {"idle", "stored", "fallback"}
    /\ pipe \in Seq(Nat)
    /\ channel \in [Dashboards -> Seq(Nat)]
    /\ shown \in [Dashboards -> Seq(Nat)]
    /\ stage \in [Dashboards -> Stages]
    /\ missed \in [Dashboards -> BOOLEAN]
    /\ clients = {d \in Dashboards : stage[d] \in {"snapshot", "flush", "loop"}}

\* Where a client that has its snapshot, and has never met a full channel,
\* finds the newest tick: it has seen it, it is waiting, or on its way.
Reach(d) == Range(shown[d]) \cup Range(channel[d]) \cup Range(pipe)

NewestInReach ==
    \A d \in Dashboards :
        /\ stage[d] \in {"flush", "loop"} /\ ~missed[d]
        /\ stored > 0 /\ ingest = "idle"
        => stored \in Reach(d)

StreamInv == Shapes /\ NewestInReach

---------------------------------------------------------------------------
(* The steps *)

\* A broadcast puts its tick into every registered channel or marks the miss.
LEMMA Broadcasts ==
    ASSUME Shapes, NEW n \in Nat, broadcastLocal(n)
    PROVE  /\ channel' \in [Dashboards -> Seq(Nat)]
           /\ missed' \in [Dashboards -> BOOLEAN]
           /\ \A d \in Dashboards :
                 /\ Range(channel[d]) \subseteq Range(channel'[d])
                 /\ ~missed'[d] => ~missed[d]
                 /\ d \in clients /\ ~missed'[d] => n \in Range(channel'[d])
<1> DEFINE full == {d \in clients : Len(channel[d]) >= ChannelCap}
<1>1. /\ channel' = [d \in Dashboards |->
             IF d \in clients \ full THEN Append(channel[d], n) ELSE channel[d]]
      /\ missed' = [d \in Dashboards |-> missed[d] \/ d \in full]
  BY DEF broadcastLocal
<1> HIDE DEF full
<1>2. ASSUME NEW d \in Dashboards
      PROVE  /\ channel'[d] \in Seq(Nat) /\ Range(channel[d]) \subseteq Range(channel'[d])
             /\ missed'[d] = (missed[d] \/ d \in full)
             /\ d \in clients \ full => n \in Range(channel'[d])
  <2>1. channel[d] \in Seq(Nat)
    BY DEF Shapes
  <2>2. missed'[d] = (missed[d] \/ d \in full)
    BY <1>1
  <2>3. CASE d \in clients \ full
    <3>1. channel'[d] = Append(channel[d], n)
      BY <1>1, <2>3
    <3> QED BY <2>1, <2>2, <2>3, <3>1, RangeAppend
  <2>4. CASE d \notin clients \ full
    <3>1. channel'[d] = channel[d]
      BY <1>1, <2>4
    <3> QED BY <2>1, <2>2, <2>4, <3>1
  <2> QED BY <2>3, <2>4
<1>3. channel' \in [Dashboards -> Seq(Nat)]
  BY <1>1, <1>2
<1>4. missed' \in [Dashboards -> BOOLEAN]
  BY <1>1 DEF Shapes
<1>5. ASSUME NEW d \in Dashboards, ~missed'[d]
      PROVE  ~missed[d] /\ (d \in clients => n \in Range(channel'[d]))
  BY <1>2, <1>5
<1> QED BY <1>2, <1>3, <1>4, <1>5

LEMMA StoreStep ==
    ASSUME StreamInv, StoreTick
    PROVE  StreamInv'
<1>1. Shapes'
  BY DEF StreamInv, Shapes, StoreTick
<1>2. NewestInReach'
  BY DEF StoreTick, NewestInReach
<1> QED BY <1>1, <1>2 DEF StreamInv

LEMMA PublishStep ==
    ASSUME StreamInv, Publish
    PROVE  StreamInv'
<1>1. pipe' = Append(pipe, stored) /\ pipe \in Seq(Nat) /\ stored \in Nat
  BY DEF StreamInv, Shapes, Publish
<1>2. pipe' \in Seq(Nat) /\ stored \in Range(pipe')
  BY <1>1, RangeAppend
<1>3. Shapes'
  BY <1>2 DEF StreamInv, Shapes, Publish
<1>4. NewestInReach'
  BY <1>2 DEF NewestInReach, Reach, Publish
<1> QED BY <1>3, <1>4 DEF StreamInv

LEMMA PublishFailsStep ==
    ASSUME StreamInv, NEW reached \in BOOLEAN, PublishFails(reached)
    PROVE  StreamInv'
<1>1. pipe' = (IF reached THEN Append(pipe, stored) ELSE pipe)
      /\ pipe \in Seq(Nat) /\ stored \in Nat
  BY DEF StreamInv, Shapes, PublishFails
<1>2. pipe' \in Seq(Nat)
  BY <1>1, RangeAppend
<1>3. Shapes'
  BY <1>2 DEF StreamInv, Shapes, PublishFails
<1>4. NewestInReach'
  BY DEF NewestInReach, PublishFails
<1> QED BY <1>3, <1>4 DEF StreamInv

LEMMA BroadcastHereStep ==
    ASSUME StreamInv, BroadcastHere
    PROVE  StreamInv'
<1>1. Shapes /\ stored \in Nat /\ broadcastLocal(stored)
  BY DEF StreamInv, Shapes, BroadcastHere
<1>2. UNCHANGED <<stored, pipe, clients, stage, shown>> /\ ingest' = "idle"
  BY DEF BroadcastHere
<1>3. Shapes'
  BY <1>1, <1>2, Broadcasts DEF Shapes
<1>4. ASSUME NEW d \in Dashboards, stage'[d] \in {"flush", "loop"}, ~missed'[d]
      PROVE  stored' \in Reach(d)'
  <2>1. d \in clients
    BY <1>1, <1>2, <1>4 DEF Shapes
  <2>2. stored \in Range(channel'[d])
    BY <1>1, <1>4, <2>1, Broadcasts
  <2> QED BY <1>2, <2>2 DEF Reach
<1>5. NewestInReach'
  BY <1>4 DEF NewestInReach
<1> QED BY <1>3, <1>5 DEF StreamInv

LEMMA SubscriberStep ==
    ASSUME StreamInv, Subscriber
    PROVE  StreamInv'
<1> DEFINE n == Head(pipe)
<1>1. Shapes /\ pipe \in Seq(Nat) /\ pipe # << >> /\ pipe' = Tail(pipe) /\ broadcastLocal(n)
  BY DEF StreamInv, Shapes, Subscriber
<1>2. n \in Nat /\ pipe' \in Seq(Nat) /\ Range(pipe) \subseteq Range(pipe') \cup {n}
  BY <1>1, RangeTail
<1>3. UNCHANGED <<stored, ingest, clients, stage, shown>>
  BY DEF Subscriber
<1> HIDE DEF n
<1>4. Shapes'
  BY <1>1, <1>2, <1>3, Broadcasts DEF Shapes
<1>5. ASSUME NEW d \in Dashboards, stage'[d] \in {"flush", "loop"}, ~missed'[d],
             stored' > 0, ingest' = "idle"
      PROVE  stored' \in Reach(d)'
  <2>1. d \in clients /\ ~missed[d] /\ Range(channel[d]) \subseteq Range(channel'[d])
        /\ n \in Range(channel'[d])
    BY <1>1, <1>2, <1>3, <1>5, Broadcasts DEF Shapes
  <2>2. stored \in Reach(d)
    BY <1>3, <1>5, <2>1 DEF StreamInv, NewestInReach
  <2> QED BY <1>2, <1>3, <2>1, <2>2 DEF Reach
<1>6. NewestInReach'
  BY <1>5 DEF NewestInReach
<1> QED BY <1>4, <1>6 DEF StreamInv

LEMMA ConnectStep ==
    ASSUME StreamInv, NEW d \in Dashboards, Connect(d)
    PROVE  StreamInv'
<1>1. Shapes'
  BY DEF StreamInv, Shapes, Connect, Stages
<1>2. \A e \in Dashboards : stage'[e] \in {"flush", "loop"} => stage[e] = stage'[e]
  BY DEF StreamInv, Shapes, Connect
<1>3. NewestInReach'
  BY <1>2 DEF StreamInv, NewestInReach, Reach, Connect
<1> QED BY <1>1, <1>3 DEF StreamInv

LEMMA SnapshotStep ==
    ASSUME StreamInv, NEW d \in Dashboards, ReadSnapshot(d)
    PROVE  StreamInv'
<1>1. Shapes /\ shown[d] \in Seq(Nat) /\ stored \in Nat
      /\ shown' = [shown EXCEPT ![d] = IF stored > 0 THEN Append(@, stored) ELSE @]
      /\ stage' = [stage EXCEPT ![d] = "flush"]
      /\ UNCHANGED <<stored, ingest, pipe, clients, channel, missed>>
  BY DEF StreamInv, Shapes, ReadSnapshot
<1>2. shown'[d] \in Seq(Nat) /\ (stored > 0 => stored \in Range(shown'[d]))
  BY <1>1, RangeAppend DEF Shapes
<1>3. \A e \in Dashboards \ {d} : shown'[e] = shown[e] /\ stage'[e] = stage[e]
  BY <1>1 DEF Shapes
<1>4. shown' \in [Dashboards -> Seq(Nat)]
  BY <1>1, <1>2, <1>3 DEF Shapes
<1>5. Shapes'
  BY <1>1, <1>4 DEF Shapes, ReadSnapshot, Stages
<1>6. NewestInReach'
  BY <1>1, <1>2, <1>3 DEF StreamInv, NewestInReach, Reach
<1> QED BY <1>5, <1>6 DEF StreamInv

LEMMA EnterLoopStep ==
    ASSUME StreamInv, NEW d \in Dashboards, EnterLoop(d)
    PROVE  StreamInv'
<1>1. Shapes'
  BY DEF StreamInv, Shapes, EnterLoop, Stages
<1>2. \A e \in Dashboards : stage'[e] \in {"flush", "loop"} => stage[e] \in {"flush", "loop"}
  BY DEF StreamInv, Shapes, EnterLoop
<1>3. NewestInReach'
  BY <1>2 DEF StreamInv, NewestInReach, Reach, EnterLoop
<1> QED BY <1>1, <1>3 DEF StreamInv

LEMMA WriteStep ==
    ASSUME StreamInv, NEW d \in Dashboards, WriteNext(d)
    PROVE  StreamInv'
<1> DEFINE n == Head(channel[d])
<1>1. /\ Shapes /\ shown[d] \in Seq(Nat) /\ channel[d] \in Seq(Nat) /\ channel[d] # << >>
      /\ shown' = [shown EXCEPT ![d] = Append(@, n)]
      /\ channel' = [channel EXCEPT ![d] = Tail(@)]
      /\ UNCHANGED <<stored, ingest, pipe, clients, stage, missed>>
  BY DEF StreamInv, Shapes, WriteNext
<1>2. /\ n \in Nat /\ Tail(channel[d]) \in Seq(Nat)
      /\ Range(channel[d]) \subseteq Range(Tail(channel[d])) \cup {n}
  BY <1>1, RangeTail
<1> HIDE DEF n
<1>3. /\ Append(shown[d], n) \in Seq(Nat) /\ n \in Range(Append(shown[d], n))
      /\ Range(shown[d]) \subseteq Range(Append(shown[d], n))
  BY <1>1, <1>2, RangeAppend
<1>4. shown'[d] = Append(shown[d], n) /\ channel'[d] = Tail(channel[d])
  BY <1>1 DEF Shapes
<1>5. \A e \in Dashboards \ {d} : shown'[e] = shown[e] /\ channel'[e] = channel[e]
  BY <1>1 DEF Shapes
<1>6. shown' \in [Dashboards -> Seq(Nat)] /\ channel' \in [Dashboards -> Seq(Nat)]
  BY <1>1, <1>2, <1>3, <1>4, <1>5 DEF Shapes
<1>7. Shapes'
  BY <1>1, <1>6 DEF Shapes
<1>8. ASSUME NEW e \in Dashboards PROVE Reach(e) \subseteq Reach(e)'
  BY <1>1, <1>2, <1>3, <1>4, <1>5 DEF Reach
<1>9. NewestInReach'
  BY <1>1, <1>8 DEF StreamInv, NewestInReach
<1> QED BY <1>7, <1>9 DEF StreamInv

LEMMA DisconnectStep ==
    ASSUME StreamInv, NEW d \in Dashboards, Disconnect(d)
    PROVE  StreamInv'
<1>1. << >> \in Seq(Nat)
  OBVIOUS
<1>2. Shapes'
  BY <1>1 DEF StreamInv, Shapes, Disconnect, Stages
<1>3. \A e \in Dashboards : stage'[e] \in {"flush", "loop"} =>
          stage[e] = stage'[e] /\ channel'[e] = channel[e]
  BY DEF StreamInv, Shapes, Disconnect
<1>4. NewestInReach'
  BY <1>3 DEF StreamInv, NewestInReach, Reach, Disconnect
<1> QED BY <1>2, <1>4 DEF StreamInv

---------------------------------------------------------------------------
(* Theorems *)

LEMMA StreamInitOK ==
    ASSUME StreamInit
    PROVE  StreamInv
<1>1. Shapes
  BY DEF StreamInit, Shapes, Stages
<1>2. NewestInReach
  BY DEF StreamInit, NewestInReach
<1> QED BY <1>1, <1>2 DEF StreamInv

LEMMA StreamNextOK ==
    ASSUME StreamInv, [StreamNext]_streamVars
    PROVE  StreamInv'
<1>1. CASE UNCHANGED streamVars
  BY <1>1 DEF streamVars, StreamInv, Shapes, NewestInReach, Reach
<1>2. CASE StreamNext
  BY <1>2, StoreStep, PublishStep, PublishFailsStep, BroadcastHereStep, SubscriberStep,
     ConnectStep, SnapshotStep, EnterLoopStep, WriteStep, DisconnectStep DEF StreamNext
<1> QED BY <1>1, <1>2

\* The inductive invariant holds of the live stream.
THEOREM StreamInvariant == StreamSpec => []StreamInv
<1>1. StreamInit => StreamInv
  BY StreamInitOK
<1>2. StreamInv /\ [StreamNext]_streamVars => StreamInv'
  BY StreamNextOK
<1> QED BY <1>1, <1>2, PTL DEF StreamSpec

\* HandleSSE registers the channel before it reads the snapshot: whenever a
\* client connects, and whether ticks travel over Redis or locally or both, no
\* tick falls between the two, unless the client's channel was full.
THEOREM SnapshotAndEventsMeet == StreamSpec => []NothingBetween
<1>1. StreamInv => NothingBetween
  <2>1. SUFFICES ASSUME StreamInv, NEW d \in Dashboards, Settled(d), ~missed[d], stored > 0
                 PROVE  stored \in Range(shown[d])
    BY DEF NothingBetween
  <2>2. stored \in Reach(d)
    BY <2>1 DEF StreamInv, NewestInReach, Settled
  <2>3. Range(channel[d]) = {} /\ Range(pipe) = {}
    BY <2>1 DEF Settled, Range
  <2> QED BY <2>2, <2>3 DEF Reach
<1> QED BY <1>1, StreamInvariant, PTL

---------------------------------------------------------------------------
(* The guardian: one reading of the equity *)

\* The symbols the tick has been at.
Visited(i) ==
    \/ tick.pc \in {"needed", "fetch"}
    \/ i < tick.next
    \/ i = tick.next /\ tick.pc = "exit"

\* While no quote moves, a visited symbol that has a quote is priced at it.
PricedAtQuote ==
    \A i \in 1..Len(Order) :
        Visited(i) /\ quotes[Order[i]] > 0 => tick.prices[Order[i]] = quotes[Order[i]]

Ticks == [pc : {"idle", "price", "exit", "needed", "fetch"}, next : 1..Len(Order),
          prices : [Symbols -> Nat], needed : SUBSET Symbols]

GuardianShapes ==
    /\ TypeOK
    /\ quotes \in [Symbols -> Nat]
    /\ breaker \in [peak : Nat, curr : Int, halted : BOOLEAN]
    /\ tick \in Ticks
    /\ swept \in Nat

GuardianInv ==
    /\ GuardianShapes
    /\ still /\ tick.pc # "idle" => PricedAtQuote

\* The equity at any prices is a number.
LEMMA EquityType ==
    ASSUME TypeOK, NEW prices \in [Symbols -> Nat]
    PROVE  EquityAt(prices) \in Int
<1> DEFINE worth == [s \in Symbols |->
        IF ~IsOpen(s) THEN 0
        ELSE MarkToMarket(positions[s], IF prices[s] > 0 THEN prices[s] ELSE positions[s].entry)]
<1>1. ASSUME NEW s \in Symbols PROVE worth[s] \in Int
  <2>1. CASE ~IsOpen(s)
    BY <2>1
  <2>2. CASE IsOpen(s)
    <3> DEFINE t == positions[s]
               p == IF prices[s] > 0 THEN prices[s] ELSE t.entry
               diff == IF t.long THEN p - t.entry ELSE t.entry - p
    <3>1. t \in Trade
      BY <2>2, OpenIsTrade
    <3>2. t.entry \in Int /\ t.size \in Int
      BY <3>1 DEF Trade
    <3>3. diff \in Int
      BY <3>2
    <3>4. Margin(t) \in Int
      BY <3>1, MarginType
    <3> HIDE DEF diff
    <3>5. Margin(t) + t.size * diff \in Int
      BY <3>2, <3>3, <3>4
    <3>6. worth[s] = Margin(t) + t.size * diff
      BY <2>2 DEF MarkToMarket, diff
    <3> QED BY <3>5, <3>6
  <2> QED BY <2>1, <2>2
<1>2. DOMAIN worth = Symbols /\ EquityAt(prices) = cash + SumFunction(worth)
  BY DEF EquityAt
<1> HIDE DEF worth
<1>3. SumFunction(worth) \in Int
  BY <1>1, <1>2, SumIsInt, SymbolsAssumption DEF SumFunction
<1> QED BY <1>2, <1>3 DEF TypeOK

\* After the last symbol the daemon has been at every symbol.
LEMMA AdvanceOK ==
    ASSUME NEW t \in Ticks, t.pc \in {"price", "exit"}
    PROVE  /\ Advance(t) \in Ticks
           /\ Advance(t).pc # "idle" => Advance(t).prices = t.prices
           /\ Advance(t).pc \in {"idle", "price", "needed"}
           /\ Advance(t).pc = "price" => t.next < Len(Order) /\ Advance(t).next = t.next + 1
           /\ Advance(t).pc = "needed" => t.next = Len(Order)
<1>1. Len(Order) \in Nat \ {0}
  BY GuardianAssumption, EmptySeq
<1>2. NoTick \in Ticks /\ NoTick.pc = "idle"
  BY <1>1 DEF NoTick, Ticks
<1>3. CASE t.next < Len(Order)
  <2> DEFINE u == [t EXCEPT !.pc = "price", !.next = @ + 1]
  <2>1. Advance(t) = u
    BY <1>3 DEF Advance
  <2>2. u \in Ticks /\ u.pc = "price" /\ u.prices = t.prices /\ u.next = t.next + 1
    <3>1. t.next \in 1..Len(Order) /\ t.next + 1 \in 1..Len(Order)
      BY <1>1, <1>3 DEF Ticks
    <3> DEFINE v == [t EXCEPT !.pc = "price"]
               n == t.next + 1
    <3>2. v \in Ticks /\ v.pc = "price" /\ v.prices = t.prices /\ u = [v EXCEPT !.next = n]
      BY DEF Ticks
    <3> HIDE DEF u, v, n
    <3>3. u \in Ticks /\ u.pc = "price" /\ u.prices = t.prices /\ u.next = n
      BY <3>1, <3>2 DEF Ticks, n
    <3> QED BY <3>3 DEF n
  <2> QED BY <1>3, <2>1, <2>2
<1>4. CASE ~(t.next < Len(Order)) /\ Known(t.prices) = {}
  BY <1>2, <1>4 DEF Advance
<1>5. CASE ~(t.next < Len(Order)) /\ Known(t.prices) # {}
  BY <1>1, <1>5 DEF Advance, Ticks
<1> QED BY <1>3, <1>4, <1>5

LEMMA GuardianInitOK == GuardianInit => GuardianInv
<1> SUFFICES ASSUME GuardianInit PROVE GuardianInv
  OBVIOUS
<1>1. Len(Order) \in Nat \ {0}
  BY GuardianAssumption, EmptySeq
<1>2. NoTick \in Ticks /\ NoTick.pc = "idle"
  BY <1>1 DEF NoTick, Ticks
<1>3. TypeOK
  BY TypeInit DEF GuardianInit
<1> QED BY <1>2, <1>3, GuardianAssumption
        DEF GuardianInit, GuardianInv, GuardianShapes, NewCircuitBreaker

\* The step of the tick that takes the price of the next symbol.
LEMMA TickPriceOK ==
    ASSUME GuardianInv, NEW p \in Nat, TickPrice(p)
    PROVE  GuardianInv'
<1> DEFINE s == Order[tick.next]
           found == [tick EXCEPT !.pc = "exit", !.prices[s] = p]
<1>1. /\ tick \in Ticks /\ tick.pc = "price" /\ Len(Order) \in Nat
      /\ tick.next \in 1..Len(Order) /\ tick.prices \in [Symbols -> Nat]
      /\ \A i \in 1..Len(Order) : Order[i] \in Symbols
  BY GuardianAssumption, LenProperties, ElementOfSeq
     DEF GuardianInv, GuardianShapes, TickPrice, Ticks
<1>2. /\ tick' = IF p = 0 THEN Advance(tick) ELSE found
      /\ quotes[s] > 0 => p = quotes[s]
      /\ UNCHANGED <<vars, quotes, breaker, swept, still>>
  BY DEF TickPrice
<1>3. CASE p = 0
  <2>1. tick' = Advance(tick) /\ quotes[s] = 0
    BY <1>1, <1>2, <1>3 DEF GuardianInv, GuardianShapes
  <2>2. tick' \in Ticks
    BY <1>1, <2>1, AdvanceOK
  <2>3. ASSUME still, tick'.pc # "idle", NEW i \in 1..Len(Order), Visited(i)', quotes[Order[i]] > 0
        PROVE  tick'.prices[Order[i]] = quotes[Order[i]]
    <3>1. /\ tick'.prices = tick.prices
          /\ \/ tick'.pc = "price" /\ tick'.next = tick.next + 1
             \/ tick'.pc = "needed" /\ tick.next = Len(Order)
      BY <1>1, <2>1, <2>3, AdvanceOK
    <3>2. i <= tick.next
      BY <1>1, <2>3, <3>1 DEF Visited
    <3>3. i # tick.next
      BY <2>1, <2>3
    <3>4. Visited(i)
      BY <1>1, <3>2, <3>3 DEF Visited
    <3> QED BY <1>1, <2>3, <3>1, <3>4 DEF GuardianInv, PricedAtQuote
  <2> QED BY <1>2, <2>2, <2>3 DEF GuardianInv, GuardianShapes, PricedAtQuote, TypeOK, vars
<1>4. CASE p # 0
  <2>1. /\ tick' \in Ticks /\ tick'.pc = "exit" /\ tick'.next = tick.next
        /\ tick'.prices = [tick.prices EXCEPT ![s] = p]
    BY <1>1, <1>2, <1>4 DEF Ticks
  <2>2. ASSUME still, NEW i \in 1..Len(Order), Visited(i)', quotes[Order[i]] > 0
        PROVE  tick'.prices[Order[i]] = quotes[Order[i]]
    <3>1. CASE Order[i] = s
      BY <1>1, <1>2, <2>1, <2>2, <3>1
    <3>2. CASE Order[i] # s
      <4>1. Visited(i) /\ tick'.prices[Order[i]] = tick.prices[Order[i]]
        BY <1>1, <2>1, <2>2, <3>2 DEF Visited
      <4> QED BY <1>1, <2>2, <4>1 DEF GuardianInv, PricedAtQuote
    <3> QED BY <3>1, <3>2
  <2> QED BY <1>2, <2>1, <2>2 DEF GuardianInv, GuardianShapes, PricedAtQuote, TypeOK, vars
<1> QED BY <1>3, <1>4

\* The step that lets the engine look at the levels and goes on.
LEMMA TickExitOK ==
    ASSUME GuardianInv, TickExit
    PROVE  GuardianInv'
<1> DEFINE s == Order[tick.next]
           p == tick.prices[s]
           pnl == RealizedPnL(positions[s], p)
<1>1. /\ tick \in Ticks /\ tick.pc = "exit" /\ Len(Order) \in Nat
      /\ tick.next \in 1..Len(Order) /\ tick.prices \in [Symbols -> Nat]
      /\ \A i \in 1..Len(Order) : Order[i] \in Symbols
      /\ TypeOK
  BY GuardianAssumption, LenProperties, ElementOfSeq
     DEF GuardianInv, GuardianShapes, TickExit, Ticks
<1>2. /\ tick' = Advance(tick) /\ CheckExit(s, p)
      /\ swept' = IF IsOpen(s) /\ Crossed(positions[s], p) # "NONE" /\ pnl > 0
                  THEN swept + pnl ELSE swept
      /\ UNCHANGED <<quotes, breaker, still>>
  BY DEF TickExit
<1>3. s \in Symbols /\ p \in Nat
  BY <1>1
<1>4. TypeOK' /\ tick' \in Ticks
  BY <1>1, <1>2, <1>3, ExitType, AdvanceOK
<1>5. swept' \in Nat
  <2>1. CASE IsOpen(s) /\ pnl > 0
    <3>1. pnl \in Int
      BY <1>1, <1>3, <2>1, OpenIsTrade, PnLType
    <3> HIDE DEF pnl
    <3> QED BY <1>2, <2>1, <3>1 DEF GuardianInv, GuardianShapes
  <2>2. CASE ~(IsOpen(s) /\ pnl > 0)
    BY <1>2, <2>2 DEF GuardianInv, GuardianShapes
  <2> QED BY <2>1, <2>2
<1>6. ASSUME still, tick'.pc # "idle", NEW i \in 1..Len(Order), Visited(i)', quotes[Order[i]] > 0
      PROVE  tick'.prices[Order[i]] = quotes[Order[i]]
  <2>1. /\ tick'.prices = tick.prices
        /\ \/ tick'.pc = "price" /\ tick'.next = tick.next + 1
           \/ tick'.pc = "needed" /\ tick.next = Len(Order)
    BY <1>1, <1>2, <1>6, AdvanceOK
  <2>2. Visited(i)
    BY <1>1, <1>6, <2>1 DEF Visited
  <2> QED BY <1>1, <1>6, <2>1, <2>2 DEF GuardianInv, PricedAtQuote
<1> QED BY <1>2, <1>4, <1>5, <1>6 DEF GuardianInv, GuardianShapes, PricedAtQuote

\* The first lock of GetTotalEquity, and a price fetched after it.
LEMMA ReadNeededOK ==
    ASSUME GuardianInv, ReadNeeded
    PROVE  GuardianInv'
<1>1. /\ tick \in Ticks /\ tick.pc = "needed"
      /\ tick' \in Ticks /\ tick'.pc = "fetch" /\ tick'.prices = tick.prices
  <2> DEFINE open == {s \in Symbols : IsOpen(s)} \ Known(tick.prices)
  <2>1. open \in SUBSET Symbols
    OBVIOUS
  <2>2. /\ tick \in Ticks /\ tick.pc = "needed"
        /\ tick' = [tick EXCEPT !.pc = "fetch", !.needed = open]
    BY DEF GuardianInv, GuardianShapes, ReadNeeded
  <2> HIDE DEF open
  <2> QED BY <2>1, <2>2 DEF Ticks
<1> QED BY <1>1 DEF GuardianInv, GuardianShapes, ReadNeeded, PricedAtQuote, Visited, TypeOK, vars

LEMMA FetchPriceOK ==
    ASSUME GuardianInv, NEW s \in Symbols, NEW p \in Nat, FetchPrice(s, p)
    PROVE  GuardianInv'
<1>1. /\ tick \in Ticks /\ tick.pc = "fetch"
      /\ tick' \in Ticks /\ tick'.pc = "fetch" /\ tick'.prices = [tick.prices EXCEPT ![s] = p]
      /\ quotes[s] > 0 => p = quotes[s]
      /\ UNCHANGED <<vars, quotes, breaker, swept, still>>
  BY DEF GuardianInv, GuardianShapes, FetchPrice, Ticks
<1>2. ASSUME still, NEW i \in 1..Len(Order), quotes[Order[i]] > 0
      PROVE  tick'.prices[Order[i]] = quotes[Order[i]]
  <2>1. tick.prices[Order[i]] = quotes[Order[i]] /\ Order[i] \in Symbols
    BY <1>1, <1>2, GuardianAssumption, ElementOfSeq DEF GuardianInv, PricedAtQuote, Visited
  <2> QED BY <1>1, <1>2, <2>1 DEF Ticks
<1> QED BY <1>1, <1>2 DEF GuardianInv, GuardianShapes, PricedAtQuote, TypeOK, vars

\* The breaker is fed with a number.
LEMMA ValueOK ==
    ASSUME GuardianInv, Value
    PROVE  GuardianInv'
<1> DEFINE eq == EquityAt(tick.prices)
<1>1. eq \in Int
  BY EquityType DEF GuardianInv, GuardianShapes, Ticks
<1> HIDE DEF eq
<1>2. breaker' \in [peak : Nat, curr : Int, halted : BOOLEAN]
  <2> DEFINE peak == IF eq > breaker.peak THEN eq ELSE breaker.peak
             trips == peak > 0 /\ (peak - eq) * 100 >= DrawdownPct * peak
  <2>1. breaker' = [peak |-> peak, curr |-> eq, halted |-> breaker.halted \/ trips]
    BY DEF Value, UpdateEquity, eq
  <2>2. breaker.peak \in Nat /\ breaker.halted \in BOOLEAN
    BY DEF GuardianInv, GuardianShapes
  <2>3. peak \in Nat /\ trips \in BOOLEAN
    BY <1>1, <2>2
  <2> HIDE DEF peak, trips
  <2>4. (breaker.halted \/ trips) \in BOOLEAN
    OBVIOUS
  <2> QED BY <1>1, <2>1, <2>3, <2>4
<1>3. Len(Order) \in Nat \ {0}
  BY GuardianAssumption, EmptySeq
<1>4. NoTick \in Ticks /\ NoTick.pc = "idle"
  BY <1>3 DEF NoTick, Ticks
<1> QED BY <1>2, <1>4 DEF GuardianInv, GuardianShapes, Value, TypeOK, vars

LEMMA BeginTickOK ==
    ASSUME GuardianInv, BeginTick
    PROVE  GuardianInv'
<1>1. Len(Order) \in Nat \ {0}
  BY GuardianAssumption, EmptySeq
<1>2. /\ tick' \in Ticks /\ tick'.pc = "price" /\ tick'.next = 1
      /\ UNCHANGED <<vars, quotes, breaker, swept>>
  BY <1>1 DEF BeginTick, NoTick, Ticks
<1>3. \A i \in 1..Len(Order) : ~Visited(i)'
  BY <1>1, <1>2 DEF Visited
<1> QED BY <1>2, <1>3 DEF GuardianInv, GuardianShapes, PricedAtQuote, TypeOK, vars

\* What runs beside the tick: a quote ends its stillness, the engine's other
\* callers leave the tick and the quotes alone.
LEMMA BesideOK ==
    ASSUME GuardianInv,
           \/ \E s \in Symbols, p \in Prices : UpdateQuote(s, p)
           \/ \E sig \in Offers : OthersOpen(sig)
           \/ \E s \in Symbols : OthersClose(s)
    PROVE  GuardianInv'
<1>1. ASSUME NEW s \in Symbols, NEW p \in Prices, UpdateQuote(s, p)
      PROVE  GuardianInv'
  BY <1>1, PricesAssumption DEF UpdateQuote, GuardianInv, GuardianShapes, TypeOK, vars
<1>2. ASSUME TypeOK', UNCHANGED <<quotes, breaker, tick, swept, still>>
      PROVE  GuardianInv'
  BY <1>2 DEF GuardianInv, GuardianShapes, PricedAtQuote, Visited
<1>3. ASSUME NEW sig \in Offers, OthersOpen(sig)
      PROVE  GuardianInv'
  <2>1. TypeOK /\ Open(sig)
    BY <1>3 DEF OthersOpen, GuardianInv, GuardianShapes
  <2>2. TypeOK'
    BY <2>1, TypeStep DEF Next
  <2> QED BY <1>2, <1>3, <2>2 DEF OthersOpen
<1>4. ASSUME NEW s \in Symbols, OthersClose(s)
      PROVE  GuardianInv'
  <2>1. TypeOK /\ ForceClosePosition(s, quotes[s], "MANUAL_EXIT") /\ quotes[s] \in Nat
    BY <1>4 DEF OthersClose, GuardianInv, GuardianShapes
  <2>2. TypeOK'
    BY <2>1, ForceType DEF Reasons
  <2> QED BY <1>2, <1>4, <2>2 DEF OthersClose
<1> QED BY <1>1, <1>3, <1>4

LEMMA GuardianNextOK ==
    ASSUME GuardianInv, [GuardianNext]_guardianVars
    PROVE  GuardianInv'
<1>1. CASE UNCHANGED guardianVars
  BY <1>1 DEF guardianVars, vars, GuardianInv, GuardianShapes, PricedAtQuote, Visited, TypeOK
<1>2. CASE ProcessTick
  <2>1. \A p \in Prices \cup Answers : p \in Nat
    BY PricesAssumption, GuardianAssumption
  <2> QED BY <1>2, <2>1, BeginTickOK, TickPriceOK, TickExitOK, ReadNeededOK, FetchPriceOK, ValueOK
          DEF ProcessTick
<1> QED BY <1>1, <1>2, BesideOK DEF GuardianNext

\* The inductive invariant holds of the guardian.
THEOREM GuardianInvariant == GuardianSpec => []GuardianInv
  BY GuardianInitOK, GuardianNextOK, PTL DEF GuardianSpec

\* GetTotalEquity reads the open positions, fetches the prices it misses with
\* no lock held, and reads positions and cash again: if every symbol has a
\* quote and none moves, the breaker is told the engine's equity of that
\* moment, whatever was opened or closed since the first lock.
THEOREM ReadingsAgree == GuardianSpec => ReadingIsConsistent
<1>1. ASSUME GuardianInv, [GuardianNext]_guardianVars
      PROVE  [/\ tick.pc = "fetch" /\ tick'.pc = "idle"
              /\ still /\ Known(quotes) = Symbols
              => breaker'.curr = EquityAt(quotes)]_guardianVars
  <2>1. SUFFICES ASSUME GuardianNext, tick.pc = "fetch", tick'.pc = "idle",
                        still, Known(quotes) = Symbols
                 PROVE  breaker'.curr = EquityAt(quotes)
    BY <1>1
  <2>2. Value
    <3>1. tick'.pc # tick.pc
      BY <2>1
    <3>2. ~BeginTick /\ ~TickExit /\ ~ReadNeeded /\ \A p : ~TickPrice(p)
      BY <2>1 DEF BeginTick, TickExit, ReadNeeded, TickPrice
    <3>3. \A s, p : ~FetchPrice(s, p)
      <4>1. tick \in Ticks
        BY <1>1 DEF GuardianInv, GuardianShapes
      <4> QED BY <3>1, <4>1 DEF FetchPrice, Ticks
    <3>4. /\ \A s, p : ~UpdateQuote(s, p)
          /\ \A sig : ~OthersOpen(sig)
          /\ \A s : ~OthersClose(s)
      BY <3>1 DEF UpdateQuote, OthersOpen, OthersClose
    <3> QED BY <2>1, <3>2, <3>3, <3>4 DEF GuardianNext, ProcessTick
  <2>3. \A s \in Symbols : tick.prices[s] = quotes[s]
    BY <1>1, <2>1, GuardianAssumption DEF GuardianInv, PricedAtQuote, Visited, Known
  <2>4. tick.prices = quotes
    BY <1>1, <2>3 DEF GuardianInv, GuardianShapes, Ticks
  <2> QED BY <2>2, <2>4 DEF Value, UpdateEquity
<1> QED BY <1>1, GuardianInvariant, PTL DEF GuardianSpec, ReadingIsConsistent

---------------------------------------------------------------------------
(* The guardian: what it does to the engine *)

\* Every price the daemon holds is one the engine may be asked about, and the
\* one it is about to hand to the exit check is not a missing one.
EngineQuotes ==
    /\ \A s \in Symbols : quotes[s] \in Prices \cup {0}
    /\ \A s \in Symbols : tick.prices[s] \in Prices \cup {0}
    /\ tick.pc = "exit" => tick.prices[Order[tick.next]] # 0

LEMMA AdvanceKeepsPrices ==
    ASSUME NEW t \in Ticks, t.pc \in {"price", "exit"}
    PROVE  /\ \A s \in Symbols : Advance(t).prices[s] \in {t.prices[s], 0}
           /\ Advance(t).pc # "exit"
<1>1. CASE Advance(t).pc = "idle"
  <2>1. Advance(t) = NoTick
    BY <1>1 DEF Advance, NoTick, Ticks
  <2> QED BY <1>1, <2>1 DEF NoTick
<1>2. CASE Advance(t).pc # "idle"
  BY <1>2, AdvanceOK
<1> QED BY <1>1, <1>2

\* A price that is looked up is a quote of the feed or an answer.
LEMMA LookedUp ==
    ASSUME Answers \subseteq Prices \cup {0}, EngineQuotes, NEW s \in Symbols, NEW p,
           IF quotes[s] > 0 THEN p = quotes[s] ELSE p \in Answers
    PROVE  p \in Prices \cup {0}
  BY DEF EngineQuotes

LEMMA TickKeepsQuotes ==
    ASSUME Answers \subseteq Prices \cup {0}, GuardianInv, EngineQuotes, ProcessTick
    PROVE  [Next]_vars /\ EngineQuotes'
<1>1. /\ tick \in Ticks /\ tick.prices \in [Symbols -> Nat]
      /\ tick.next \in 1..Len(Order) /\ Order[tick.next] \in Symbols
      /\ Len(Order) \in Nat
  BY GuardianAssumption, LenProperties, ElementOfSeq DEF GuardianInv, GuardianShapes, Ticks
<1>2. \A s \in Symbols : /\ quotes[s] \in Prices \cup {0}
                         /\ tick.prices[s] \in Prices \cup {0}
  BY DEF EngineQuotes
<1>3. CASE BeginTick
  BY <1>2, <1>3 DEF BeginTick, NoTick, EngineQuotes
<1>4. ASSUME NEW p \in Prices \cup Answers, TickPrice(p)
      PROVE  [Next]_vars /\ EngineQuotes'
  <2> DEFINE s == Order[tick.next]
             found == [tick EXCEPT !.pc = "exit", !.prices[s] = p]
  <2>1. /\ tick.pc = "price" /\ UNCHANGED <<vars, quotes>>
        /\ tick' = IF p = 0 THEN Advance(tick) ELSE found
        /\ p \in Prices \cup {0}
    BY <1>1, <1>4, LookedUp DEF TickPrice
  <2>2. CASE p = 0
    BY <1>1, <1>2, <2>1, <2>2, AdvanceKeepsPrices DEF EngineQuotes
  <2>3. CASE p # 0
    <3>1. /\ tick'.next = tick.next /\ tick'.prices = [tick.prices EXCEPT ![s] = p]
      BY <1>1, <2>1, <2>3 DEF Ticks
    <3> QED BY <1>1, <1>2, <2>1, <2>3, <3>1 DEF EngineQuotes
  <2> QED BY <2>2, <2>3
<1>5. CASE TickExit
  <2> DEFINE s == Order[tick.next]
  <2>1. /\ tick.pc = "exit" /\ CheckExit(s, tick.prices[s])
        /\ tick' = Advance(tick) /\ UNCHANGED quotes
    BY <1>5 DEF TickExit
  <2>2. tick.prices[s] \in Prices
    BY <1>1, <1>2, <2>1 DEF EngineQuotes
  <2>3. Next
    BY <1>1, <2>1, <2>2 DEF Next
  <2> QED BY <1>1, <1>2, <2>1, <2>3, AdvanceKeepsPrices DEF EngineQuotes
<1>6. CASE ReadNeeded
  <2>1. tick'.prices = tick.prices /\ tick'.pc = "fetch" /\ UNCHANGED <<vars, quotes>>
    BY <1>1, <1>6 DEF ReadNeeded, Ticks
  <2> QED BY <1>2, <2>1 DEF EngineQuotes
<1>7. ASSUME NEW s \in Symbols, NEW p \in Prices \cup Answers, FetchPrice(s, p)
      PROVE  [Next]_vars /\ EngineQuotes'
  <2>1. /\ tick'.prices = [tick.prices EXCEPT ![s] = p] /\ tick'.pc = "fetch"
        /\ UNCHANGED <<vars, quotes>> /\ p \in Prices \cup {0}
    BY <1>1, <1>7, LookedUp DEF FetchPrice, Ticks
  <2> QED BY <1>1, <1>2, <2>1 DEF EngineQuotes
<1>8. CASE Value
  BY <1>2, <1>8 DEF Value, NoTick, EngineQuotes
<1> QED BY <1>3, <1>4, <1>5, <1>6, <1>7, <1>8 DEF ProcessTick

LEMMA BesideKeepsQuotes ==
    ASSUME EngineQuotes, quotes \in [Symbols -> Nat],
           \/ \E s \in Symbols, p \in Prices : UpdateQuote(s, p)
           \/ \E sig \in Offers : OthersOpen(sig)
           \/ \E s \in Symbols : OthersClose(s)
    PROVE  [Next]_vars /\ EngineQuotes'
<1>1. ASSUME NEW s \in Symbols, NEW p \in Prices, UpdateQuote(s, p)
      PROVE  [Next]_vars /\ EngineQuotes'
  BY <1>1 DEF UpdateQuote, EngineQuotes
<1>2. CASE \E sig \in Offers : OthersOpen(sig)
  BY <1>2 DEF OthersOpen, EngineQuotes, Next
<1>3. ASSUME NEW s \in Symbols, OthersClose(s)
      PROVE  [Next]_vars /\ EngineQuotes'
  <2>1. Next
    BY <1>3 DEF OthersClose, EngineQuotes, Next
  <2> QED BY <1>3, <2>1 DEF OthersClose, EngineQuotes
<1> QED BY <1>1, <1>2, <1>3

\* The daemon's walk, the quotes that move under it and the valuation do
\* nothing to the account that the execution engine does not allow, as long
\* as an exchange that is asked directly answers a price or nothing.
THEOREM GuardianImplementsEngine ==
    ASSUME Answers \subseteq Prices \cup {0}
    PROVE  GuardianSpec => Spec
<1>1. GuardianInit => Init /\ EngineQuotes
  BY DEF GuardianInit, EngineQuotes, NoTick
<1>2. GuardianInv /\ EngineQuotes /\ [GuardianNext]_guardianVars => [Next]_vars /\ EngineQuotes'
  <2> SUFFICES ASSUME GuardianInv, EngineQuotes, [GuardianNext]_guardianVars
               PROVE  [Next]_vars /\ EngineQuotes'
    OBVIOUS
  <2>1. CASE UNCHANGED guardianVars
    BY <2>1 DEF guardianVars, EngineQuotes
  <2>2. quotes \in [Symbols -> Nat]
    BY DEF GuardianInv, GuardianShapes
  <2> QED BY <2>1, <2>2, TickKeepsQuotes, BesideKeepsQuotes DEF GuardianNext
<1> QED BY <1>1, <1>2, GuardianInvariant, PTL DEF GuardianSpec, Spec

---------------------------------------------------------------------------
(* The market feed: no price overtakes a newer one *)

Quotes == [asset : Assets, at : Nat]

FeedShapes ==
    /\ polls \in 0..MaxPolls /\ Len(feedChan) <= FeedCap /\ skipped \subseteq Assets
    /\ lastQuotes \in [Assets -> Nat] /\ priced \in [Assets -> Nat]
    /\ feedChan \in Seq(Quotes) /\ sending \in Seq(Quotes)
    /\ feed \in {"boot", "first", "blocking", "ticking"}
    /\ feed = "boot" => feedChan = <<>> /\ sending = <<>>
    /\ \A a \in Assets : lastQuotes[a] <= polls

\* The channel holds quotes between the store's and the cache's, oldest first.
ChannelInOrder ==
    \A i \in 1..Len(feedChan) :
        LET q == feedChan[i]
        IN  /\ priced[q.asset] <= q.at /\ q.at <= lastQuotes[q.asset]
            /\ \A j \in i..Len(feedChan) : feedChan[j].asset = q.asset => q.at <= feedChan[j].at

\* Nothing is fetched before the batch is out, so what is left of it is what
\* the cache has.
BatchIsCache == \A i \in 1..Len(sending) : sending[i].at = lastQuotes[sending[i].asset]

StoreBehindCache == \A a \in Assets : priced[a] <= lastQuotes[a]

\* The last quote of an asset is in the store or on its way, unless it was
\* skipped.
LastOnItsWay(a) ==
    \/ priced[a] = lastQuotes[a]
    \/ \E i \in 1..Len(feedChan) : feedChan[i] = Quote(a, lastQuotes[a])
    \/ \E i \in 1..Len(sending)  : sending[i] = Quote(a, lastQuotes[a])

FeedInv ==
    /\ FeedShapes /\ ChannelInOrder /\ BatchIsCache /\ StoreBehindCache
    /\ \A a \in Assets : a \notin skipped => LastOnItsWay(a)

\* A list of all elements of a finite set has each of them.
LEMMA AllListed ==
    ASSUME NEW S, IsFiniteSet(S), NEW f \in SetToSeqs(S)
    PROVE  f \in Seq(S) /\ \A x \in S : \E i \in 1..Len(f) : f[i] = x
<1> DEFINE n == Cardinality(S)
<1>1. n \in Nat
  BY FS_CardinalityType
<1>2. f \in [1..n -> S] /\ \A i, j \in 1..n : i # j => f[i] # f[j]
  BY DEF SetToSeqs
<1> HIDE DEF n
<1>3. f \in Seq(S) /\ Len(f) = n
  BY <1>1, <1>2
<1>4. f \in Injection(1..n, S)
  BY <1>2 DEF Injection, IsInjective
<1>5. IsFiniteSet(1..n) /\ Cardinality(1..n) = n
  BY <1>1, FS_Interval
<1>6. f \in Surjection(1..n, S)
  BY <1>4, <1>5, FS_Injection DEF n
<1> QED BY <1>3, <1>6 DEF Surjection

LEMMA ListOf ==
    ASSUME NEW S, NEW n \in Nat, NEW f \in [1..n -> S]
    PROVE  f \in Seq(S) /\ Len(f) = n
  OBVIOUS

\* A batch has a quote for each asset of its list, at the price given for it.
LEMMA BatchOf ==
    ASSUME NEW sources, Merged(sources) \in [Assets -> Nat], NEW order \in Seq(Assets)
    PROVE  LET m == Merged(sources)
               b == Batch(sources, order)
           IN  /\ b \in Seq(Quotes) /\ Len(b) = Len(order)
               /\ \A i \in 1..Len(b) : b[i] = Quote(order[i], m[order[i]])
               /\ \A i \in 1..Len(b) : b[i].at = m[b[i].asset]
<1> DEFINE m == Merged(sources)
           b == Batch(sources, order)
<1>0. m \in [Assets -> Nat] /\ b = [i \in DOMAIN order |-> Quote(order[i], m[order[i]])]
  BY DEF Batch
<1> HIDE DEF m, b
<1>1. /\ Len(order) \in Nat /\ DOMAIN order = 1..Len(order)
      /\ \A i \in 1..Len(order) : order[i] \in Assets
  BY LenProperties
<1>2. ASSUME NEW i \in 1..Len(order)
      PROVE  /\ b[i] = Quote(order[i], m[order[i]]) /\ b[i] \in Quotes
             /\ b[i].at = m[b[i].asset]
  <2> DEFINE a == order[i]
             n == m[a]
  <2>1. a \in Assets /\ n \in Nat /\ b[i] = Quote(a, n)
    BY <1>0, <1>1
  <2> HIDE DEF a
  <2>2. Quote(a, n) \in Quotes /\ Quote(a, n).at = n /\ Quote(a, n).asset = a
    BY <2>1 DEF Quote, Quotes
  <2>3. b[i].at = n /\ b[i].asset = a
    BY <2>1, <2>2
  <2> QED BY <2>1, <2>2, <2>3 DEF a
<1>3. b \in [1..Len(order) -> Quotes]
  BY <1>0, <1>1, <1>2
<1>4. b \in Seq(Quotes) /\ Len(b) = Len(order)
  BY <1>1, <1>3, ListOf
<1> QED BY <1>2, <1>4 DEF m, b

\* The batch of a pass has the pass's price of every asset that has one.
LEMMA BatchOK ==
    ASSUME FeedInv, NEW sources \in SUBSET Sources,
           NEW f \in SetToSeqs(Fetched(sources)), NEW c \in SetToSeqs(Cached(sources))
    PROVE  LET m == Merged(sources)
               b == Batch(sources, f \o c)
           IN  /\ m \in [Assets -> Nat]
               /\ \A a \in Assets : lastQuotes[a] <= m[a] /\ m[a] <= polls + 1
               /\ b \in Seq(Quotes)
               /\ \A i \in 1..Len(b) : b[i].at = m[b[i].asset]
               /\ \A a \in Assets : m[a] > 0 => \E i \in 1..Len(b) : b[i] = Quote(a, m[a])
<1> DEFINE new == Fetched(sources)
           old == Cached(sources)
           m   == Merged(sources)
           o   == f \o c
           b   == Batch(sources, o)
<1>1. polls \in Nat /\ lastQuotes \in [Assets -> Nat] /\ \A a \in Assets : lastQuotes[a] <= polls
  BY FeedAssumption DEF FeedInv, FeedShapes
<1>2. m = [a \in Assets |-> IF a \in new THEN polls + 1 ELSE lastQuotes[a]]
  BY DEF Merged
<1>3. f \in SetToSeqs(new) /\ c \in SetToSeqs(old)
  OBVIOUS
<1>4. new \in SUBSET Assets /\ old \in SUBSET Assets
  BY DEF Fetched, Cached
<1>5. b = [i \in DOMAIN o |-> Quote(o[i], m[o[i]])]
  BY DEF Batch
<1> HIDE DEF new, old, m, b, o
<1>6. IsFiniteSet(new) /\ IsFiniteSet(old)
  BY <1>4, FeedAssumption, FS_Subset
<1>7. /\ f \in Seq(Assets) /\ c \in Seq(Assets)
      /\ \A a \in new : \E i \in 1..Len(f) : f[i] = a
      /\ \A a \in old : \E i \in 1..Len(c) : c[i] = a
  BY <1>3, <1>4, <1>6, AllListed, SeqMonotonic
<1>8. /\ o \in Seq(Assets) /\ Len(o) = Len(f) + Len(c)
      /\ Len(f) \in Nat /\ Len(c) \in Nat
      /\ \A i \in 1..(Len(f) + Len(c)) : o[i] = IF i <= Len(f) THEN f[i] ELSE c[i - Len(f)]
  BY <1>7, ConcatProperties, LenProperties DEF o
<1>9. ASSUME NEW a \in new \cup old PROVE \E i \in 1..Len(o) : o[i] = a
  <2>1. CASE a \in new
    <3>1. PICK i \in 1..Len(f) : f[i] = a
      BY <1>7, <2>1
    <3> QED BY <1>8, <3>1
  <2>2. CASE a \in old
    <3>1. PICK i \in 1..Len(c) : c[i] = a
      BY <1>7, <2>2
    <3> DEFINE k == Len(f) + i
    <3>2. k \in 1..(Len(f) + Len(c)) /\ ~(k <= Len(f)) /\ k - Len(f) = i
      BY <1>8
    <3> HIDE DEF k
    <3>3. o[k] = c[i]
      BY <1>8, <3>2
    <3> QED BY <1>8, <3>1, <3>2, <3>3
  <2> QED BY <2>1, <2>2
<1>10. m \in [Assets -> Nat] /\ \A a \in Assets : lastQuotes[a] <= m[a] /\ m[a] <= polls + 1
  BY <1>1, <1>2
<1>11. /\ b \in Seq(Quotes) /\ Len(b) = Len(o)
       /\ \A i \in 1..Len(b) : b[i] = Quote(o[i], m[o[i]])
       /\ \A i \in 1..Len(b) : b[i].at = m[b[i].asset]
  BY <1>8, <1>10, BatchOf DEF m, b
<1>12. ASSUME NEW a \in Assets, m[a] > 0
       PROVE  \E i \in 1..Len(b) : b[i] = Quote(a, m[a])
  <2>1. a \in new \cup old
    BY <1>2, <1>12 DEF new, old, Cached
  <2>2. PICK i \in 1..Len(o) : o[i] = a
    BY <1>9, <2>1
  <2>3. i \in 1..Len(b) /\ b[i] = Quote(o[i], m[o[i]])
    BY <1>11, <2>2
  <2> QED BY <2>2, <2>3
<1> QED BY <1>10, <1>11, <1>12 DEF m, b, o

\* A passing of the exchanges changes the cache, and what the cache says is no
\* older than before.
LEMMA PollOK ==
    ASSUME FeedInv, NEW sources \in SUBSET Sources,
           NEW f \in SetToSeqs(Fetched(sources)), NEW c \in SetToSeqs(Cached(sources)),
           Poll(sources, f \o c)
    PROVE  FeedInv'
<1> DEFINE o == f \o c
           m == Merged(sources)
           b == Batch(sources, o)
<1>1. /\ m \in [Assets -> Nat]
      /\ \A a \in Assets : lastQuotes[a] <= m[a] /\ m[a] <= polls + 1
      /\ b \in Seq(Quotes)
      /\ \A i \in 1..Len(b) : b[i].at = m[b[i].asset]
      /\ \A a \in Assets : m[a] > 0 => \E i \in 1..Len(b) : b[i] = Quote(a, m[a])
  BY BatchOK
<1>2. /\ feed \in {"first", "ticking"} /\ feed' \in {"blocking", "ticking"}
      /\ polls < MaxPolls /\ polls' = polls + 1 /\ lastQuotes' = m /\ sending' = b
      /\ UNCHANGED <<feedChan, priced, skipped>>
  BY DEF Poll, FetchAllLiveTicks
<1> HIDE DEF o, m, b
<1>3. FeedShapes'
  BY <1>1, <1>2, FeedAssumption DEF FeedInv, FeedShapes
<1>4. ChannelInOrder'
  <2> SUFFICES ASSUME NEW i \in 1..Len(feedChan)
               PROVE  LET q == feedChan[i]
                      IN  /\ priced[q.asset] <= q.at /\ q.at <= m[q.asset]
                          /\ \A j \in i..Len(feedChan) :
                                feedChan[j].asset = q.asset => q.at <= feedChan[j].at
    BY <1>2 DEF ChannelInOrder
  <2>1. feedChan[i].asset \in Assets /\ feedChan[i].at \in Nat
    <3>1. feedChan[i] \in Quotes
      BY ElementOfSeq DEF FeedInv, FeedShapes
    <3> QED BY <3>1 DEF Quotes
  <2>2. lastQuotes[feedChan[i].asset] \in Nat /\ m[feedChan[i].asset] \in Nat
    BY <1>1, <2>1 DEF FeedInv, FeedShapes
  <2> QED BY <1>1, <2>1, <2>2 DEF FeedInv, ChannelInOrder
<1>5. BatchIsCache'
  BY <1>1, <1>2 DEF BatchIsCache
<1>6. ASSUME NEW a \in Assets
      PROVE  priced[a] <= m[a] /\ LastOnItsWay(a)'
  <2>1. priced[a] \in Nat /\ lastQuotes[a] \in Nat /\ m[a] \in Nat
        /\ priced[a] <= lastQuotes[a] /\ lastQuotes[a] <= m[a]
    BY <1>1 DEF FeedInv, FeedShapes, StoreBehindCache
  <2>2. CASE m[a] > 0
    BY <1>1, <1>2, <2>1, <2>2 DEF LastOnItsWay
  <2>3. CASE m[a] = 0
    BY <1>2, <2>1, <2>3 DEF LastOnItsWay
  <2> QED BY <2>1, <2>2, <2>3
<1> QED BY <1>2, <1>3, <1>4, <1>5, <1>6 DEF FeedInv, StoreBehindCache

\* The boot's own pass goes straight into the store.
LEMMA InitialFetchOK ==
    ASSUME FeedInv, NEW sources \in SUBSET Sources, InitialFetch(sources)
    PROVE  FeedInv'
<1> DEFINE m == Merged(sources)
<1>1. polls \in Nat /\ lastQuotes \in [Assets -> Nat] /\ \A a \in Assets : lastQuotes[a] <= polls
  BY FeedAssumption DEF FeedInv, FeedShapes
<1>2. m \in [Assets -> Nat] /\ \A a \in Assets : m[a] <= polls + 1
  BY <1>1 DEF Merged
<1>3. /\ feedChan = <<>> /\ sending = <<>> /\ UNCHANGED <<feedChan, sending>>
      /\ polls' = polls + 1 /\ lastQuotes' = m /\ priced' = m /\ feed' = "first"
      /\ polls < MaxPolls /\ UNCHANGED skipped
  BY DEF InitialFetch, FetchAllLiveTicks, FeedInv, FeedShapes
<1> HIDE DEF m
<1>4. FeedShapes'
  BY <1>1, <1>2, <1>3, FeedAssumption DEF FeedInv, FeedShapes
<1>5. Len(feedChan') = 0 /\ Len(sending') = 0
  BY <1>3
<1>6. ChannelInOrder' /\ BatchIsCache'
  BY <1>5 DEF ChannelInOrder, BatchIsCache
<1>7. StoreBehindCache' /\ \A a \in Assets : LastOnItsWay(a)'
  BY <1>2, <1>3 DEF StoreBehindCache, LastOnItsWay
<1> QED BY <1>4, <1>6, <1>7 DEF FeedInv

\* A quote leaves the batch for the channel, or is skipped.
LEMMA SendOK ==
    ASSUME FeedInv, Send
    PROVE  FeedInv'
<1> DEFINE e == Head(sending)
           t == Tail(sending)
<1>1. /\ e \in Quotes /\ t \in Seq(Quotes) /\ Len(t) = Len(sending) - 1 /\ e = sending[1]
      /\ \A i \in 1..Len(t) : t[i] = sending[i + 1]
      /\ Len(sending) \in Nat \ {0} /\ feedChan \in Seq(Quotes) /\ Len(feedChan) \in Nat
  BY HeadTailProperties, EmptySeq, LenProperties DEF Send, FeedInv, FeedShapes
<1>2. sending' = t /\ UNCHANGED <<polls, lastQuotes, feed, priced>> /\ feed # "boot"
  BY DEF Send, FeedInv, FeedShapes
<1>3. e.asset \in Assets /\ e.at \in Nat /\ e.at = lastQuotes[e.asset]
      /\ e = Quote(e.asset, lastQuotes[e.asset])
  <2>1. sending[1].at = lastQuotes[sending[1].asset]
    BY <1>1 DEF FeedInv, BatchIsCache
  <2>2. e.asset \in Assets /\ e.at \in Nat /\ e = [asset |-> e.asset, at |-> e.at]
    BY <1>1 DEF Quotes
  <2> QED BY <1>1, <2>1, <2>2 DEF Quote
<1>4. \A a \in Assets : Quote(a, lastQuotes[a]).asset = a
  BY DEF Quote
<1>5. \A a \in Assets \ {e.asset} :
         (\E i \in 1..Len(sending) : sending[i] = Quote(a, lastQuotes[a]))
         => \E i \in 1..Len(t) : t[i] = Quote(a, lastQuotes[a])
  <2> SUFFICES ASSUME NEW a \in Assets \ {e.asset}, NEW i \in 1..Len(sending),
                      sending[i] = Quote(a, lastQuotes[a])
               PROVE  \E k \in 1..Len(t) : t[k] = Quote(a, lastQuotes[a])
    OBVIOUS
  <2>1. i # 1
    BY <1>1, <1>4
  <2>2. i - 1 \in 1..Len(t) /\ t[i - 1] = sending[i]
    BY <1>1, <2>1
  <2> QED BY <2>2
<1>6. BatchIsCache'
  <2> SUFFICES ASSUME NEW i \in 1..Len(t)
               PROVE  t[i].at = lastQuotes[t[i].asset]
    BY <1>2 DEF BatchIsCache
  <2>1. i + 1 \in 1..Len(sending) /\ t[i] = sending[i + 1]
    BY <1>1
  <2> QED BY <2>1 DEF FeedInv, BatchIsCache
<1> HIDE DEF e, t
<1>7. CASE /\ Len(feedChan) < FeedCap
           /\ feedChan' = Append(feedChan, e) /\ skipped' = skipped \ {e.asset}
  <2> DEFINE n == Len(feedChan)
             ch == Append(feedChan, e)
  <2>1. /\ ch \in Seq(Quotes) /\ Len(ch) = n + 1 /\ ch[n + 1] = e
        /\ \A i \in 1..n : ch[i] = feedChan[i]
    BY <1>1, AppendProperties
  <2> HIDE DEF ch
  <2>2. feedChan' = ch
    BY <1>7 DEF ch
  <2>3. ASSUME NEW i \in 1..n
        PROVE  /\ feedChan[i].asset \in Assets /\ feedChan[i].at \in Nat
               /\ priced[feedChan[i].asset] <= feedChan[i].at
               /\ feedChan[i].at <= lastQuotes[feedChan[i].asset]
               /\ \A j \in i..n : feedChan[j].asset = feedChan[i].asset =>
                                     feedChan[i].at <= feedChan[j].at
    <3>1. feedChan[i] \in Quotes
      BY <1>1, ElementOfSeq
    <3> QED BY <3>1 DEF Quotes, FeedInv, ChannelInOrder
  <2>4. ChannelInOrder'
    <3> SUFFICES ASSUME NEW i \in 1..(n + 1)
                 PROVE  /\ priced[ch[i].asset] <= ch[i].at /\ ch[i].at <= lastQuotes[ch[i].asset]
                        /\ \A j \in i..(n + 1) : ch[j].asset = ch[i].asset => ch[i].at <= ch[j].at
      BY <1>2, <2>1, <2>2 DEF ChannelInOrder
    <3>1. CASE i = n + 1
      <4>1. priced[e.asset] <= lastQuotes[e.asset]
        BY <1>3 DEF FeedInv, StoreBehindCache
      <4>2. \A j \in i..(n + 1) : j = n + 1
        BY <1>1, <3>1
      <4> QED BY <1>3, <2>1, <3>1, <4>1, <4>2
    <3>2. CASE i # n + 1
      <4>1. i \in 1..n /\ ch[i] = feedChan[i]
        BY <1>1, <2>1, <3>2
      <4>2. ASSUME NEW j \in i..(n + 1), ch[j].asset = ch[i].asset
            PROVE  ch[i].at <= ch[j].at
        <5>1. CASE j = n + 1
          BY <1>3, <2>1, <2>3, <4>1, <4>2, <5>1
        <5>2. CASE j # n + 1
          <6>1. j \in i..n /\ j \in 1..n
            <7> HIDE DEF n
            <7>1. n \in Nat
              BY <1>1 DEF n
            <7> QED BY <4>1, <5>2, <7>1
          <6> QED BY <2>1, <2>3, <4>1, <4>2, <6>1
        <5> QED BY <5>1, <5>2
      <4> QED BY <2>3, <4>1, <4>2
    <3> QED BY <3>1, <3>2
  <2>5. ASSUME NEW a \in Assets, a \notin skipped'
        PROVE  LastOnItsWay(a)'
    <3>1. CASE a = e.asset
      BY <1>1, <1>2, <1>3, <2>1, <2>2, <3>1 DEF LastOnItsWay
    <3>2. CASE a # e.asset
      <4>1. LastOnItsWay(a)
        BY <1>7, <2>5, <3>2 DEF FeedInv
      <4>2. CASE priced[a] = lastQuotes[a]
        BY <1>2, <4>2 DEF LastOnItsWay
      <4>3. CASE \E i \in 1..n : feedChan[i] = Quote(a, lastQuotes[a])
        <5>1. PICK i \in 1..n : feedChan[i] = Quote(a, lastQuotes[a])
          BY <4>3
        <5>2. i \in 1..Len(ch) /\ ch[i] = Quote(a, lastQuotes[a])
          BY <1>1, <2>1, <5>1
        <5> QED BY <1>2, <2>2, <5>2 DEF LastOnItsWay
      <4>4. CASE \E i \in 1..Len(sending) : sending[i] = Quote(a, lastQuotes[a])
        BY <1>2, <1>5, <3>2, <4>4 DEF LastOnItsWay
      <4> QED BY <4>1, <4>2, <4>3, <4>4 DEF LastOnItsWay
    <3> QED BY <3>1, <3>2
  <2>6. FeedShapes'
    BY <1>1, <1>2, <1>7, <2>1, <2>2, FeedAssumption DEF FeedInv, FeedShapes
  <2> QED BY <1>2, <1>6, <2>4, <2>5, <2>6 DEF FeedInv, StoreBehindCache
<1>8. CASE feedChan' = feedChan /\ skipped' = skipped \cup {e.asset}
  <2>1. ASSUME NEW a \in Assets, a \notin skipped'
        PROVE  LastOnItsWay(a)'
    <3>1. a # e.asset /\ LastOnItsWay(a)
      BY <1>8, <2>1 DEF FeedInv
    <3> QED BY <1>2, <1>5, <1>8, <3>1 DEF LastOnItsWay
  <2>2. ChannelInOrder' /\ StoreBehindCache'
    BY <1>2, <1>8 DEF FeedInv, ChannelInOrder, StoreBehindCache
  <2>3. FeedShapes'
    BY <1>1, <1>2, <1>3, <1>8 DEF FeedInv, FeedShapes
  <2> QED BY <1>6, <2>1, <2>2, <2>3 DEF FeedInv
<1> QED BY <1>7, <1>8 DEF Send, e

\* The consumer moves the oldest quote into the store.
LEMMA IngestTickOK ==
    ASSUME FeedInv, IngestTick
    PROVE  FeedInv'
<1> DEFINE e == Head(feedChan)
           t == Tail(feedChan)
           pr == [priced EXCEPT ![e.asset] = e.at]
<1>1. /\ e \in Quotes /\ t \in Seq(Quotes) /\ Len(t) = Len(feedChan) - 1 /\ e = feedChan[1]
      /\ \A i \in 1..Len(t) : t[i] = feedChan[i + 1]
      /\ Len(feedChan) \in Nat \ {0}
  BY HeadTailProperties, EmptySeq, LenProperties DEF IngestTick, FeedInv, FeedShapes
<1>2. /\ feedChan' = t /\ priced' = pr /\ feed # "boot"
      /\ UNCHANGED <<polls, lastQuotes, feed, sending, skipped>>
  BY DEF IngestTick, FeedInv, FeedShapes
<1>3. e.asset \in Assets /\ e.at \in Nat
  BY <1>1 DEF Quotes
<1>4. /\ e.at <= lastQuotes[e.asset]
      /\ \A j \in 1..Len(feedChan) : feedChan[j].asset = e.asset => e.at <= feedChan[j].at
  BY <1>1 DEF FeedInv, ChannelInOrder
<1>5. /\ pr \in [Assets -> Nat] /\ pr[e.asset] = e.at
      /\ \A a \in Assets \ {e.asset} : pr[a] = priced[a]
  BY <1>3 DEF FeedInv, FeedShapes
<1> HIDE DEF e, t, pr
<1>6. FeedShapes'
  BY <1>1, <1>2, <1>5, FeedAssumption DEF FeedInv, FeedShapes
<1>7. ChannelInOrder'
  <2> SUFFICES ASSUME NEW i \in 1..Len(t)
               PROVE  /\ pr[t[i].asset] <= t[i].at /\ t[i].at <= lastQuotes[t[i].asset]
                      /\ \A j \in i..Len(t) : t[j].asset = t[i].asset => t[i].at <= t[j].at
    BY <1>2 DEF ChannelInOrder
  <2>1. i + 1 \in 1..Len(feedChan) /\ t[i] = feedChan[i + 1] /\ t[i] \in Quotes
    BY <1>1, ElementOfSeq
  <2>2. t[i].asset \in Assets
    BY <2>1 DEF Quotes
  <2>3. /\ priced[t[i].asset] <= t[i].at /\ t[i].at <= lastQuotes[t[i].asset]
        /\ \A j \in (i + 1)..Len(feedChan) :
              feedChan[j].asset = t[i].asset => t[i].at <= feedChan[j].at
    BY <2>1 DEF FeedInv, ChannelInOrder
  <2>4. pr[t[i].asset] <= t[i].at
    BY <1>4, <1>5, <2>1, <2>2, <2>3
  <2>5. ASSUME NEW j \in i..Len(t), t[j].asset = t[i].asset
        PROVE  t[i].at <= t[j].at
    <3>1. j \in 1..Len(t) /\ j \in Int /\ i \in Int /\ Len(t) \in Nat
      BY <1>1
    <3>2. j + 1 \in (i + 1)..Len(feedChan) /\ t[j] = feedChan[j + 1]
      BY <1>1, <3>1
    <3> QED BY <2>3, <2>5, <3>2
  <2> QED BY <2>3, <2>4, <2>5
<1>8. BatchIsCache'
  BY <1>2 DEF FeedInv, BatchIsCache
<1>9. StoreBehindCache'
  BY <1>2, <1>4, <1>5 DEF FeedInv, StoreBehindCache
<1>10. ASSUME NEW a \in Assets, a \notin skipped'
       PROVE  LastOnItsWay(a)'
  <2>1. LastOnItsWay(a)
    BY <1>2, <1>10 DEF FeedInv
  <2>2. CASE priced[a] = lastQuotes[a]
    <3>1. CASE a = e.asset
      <4>1. priced[a] <= e.at
        BY <1>1, <3>1 DEF FeedInv, ChannelInOrder
      <4>2. e.at = lastQuotes[a]
        BY <1>3, <1>4, <2>2, <3>1, <4>1 DEF FeedInv, FeedShapes
      <4> QED BY <1>2, <1>5, <3>1, <4>2 DEF LastOnItsWay
    <3>2. CASE a # e.asset
      BY <1>2, <1>5, <2>2, <3>2 DEF LastOnItsWay
    <3> QED BY <3>1, <3>2
  <2>3. CASE \E i \in 1..Len(feedChan) : feedChan[i] = Quote(a, lastQuotes[a])
    <3>1. PICK i \in 1..Len(feedChan) : feedChan[i] = Quote(a, lastQuotes[a])
      BY <2>3
    <3>2. CASE i = 1
      <4>1. e.asset = a /\ e.at = lastQuotes[a]
        BY <1>1, <3>1, <3>2 DEF Quote
      <4> QED BY <1>2, <1>5, <4>1 DEF LastOnItsWay
    <3>3. CASE i # 1
      <4>1. i - 1 \in 1..Len(t) /\ t[i - 1] = feedChan[i]
        BY <1>1, <3>3
      <4> QED BY <1>2, <3>1, <4>1 DEF LastOnItsWay
    <3> QED BY <3>2, <3>3
  <2>4. CASE \E i \in 1..Len(sending) : sending[i] = Quote(a, lastQuotes[a])
    BY <1>2, <2>4 DEF LastOnItsWay
  <2> QED BY <2>1, <2>2, <2>3, <2>4 DEF LastOnItsWay
<1> QED BY <1>2, <1>6, <1>7, <1>8, <1>9, <1>10 DEF FeedInv

LEMMA FeedInitOK == FeedInit => FeedInv
<1> SUFFICES ASSUME FeedInit PROVE FeedInv
  OBVIOUS
<1>1. FeedShapes
  BY EmptySeq, FeedAssumption DEF FeedInit, FeedShapes
<1>2. Len(feedChan) = 0 /\ Len(sending) = 0
  BY DEF FeedInit
<1>3. ChannelInOrder /\ BatchIsCache
  BY <1>2 DEF ChannelInOrder, BatchIsCache
<1>4. StoreBehindCache /\ \A a \in Assets : LastOnItsWay(a)
  BY DEF FeedInit, StoreBehindCache, LastOnItsWay
<1> QED BY <1>1, <1>3, <1>4 DEF FeedInv

LEMMA FeedNextOK ==
    ASSUME FeedInv, [FeedNext]_feedVars
    PROVE  FeedInv'
<1>1. CASE UNCHANGED feedVars \/ FirstBatchSent
  BY <1>1 DEF feedVars, FirstBatchSent, FeedInv, FeedShapes, ChannelInOrder, BatchIsCache,
              StoreBehindCache, LastOnItsWay
<1>2. CASE \E sources \in SUBSET Sources :
              \/ InitialFetch(sources)
              \/ \E fresh \in SetToSeqs(Fetched(sources)), old \in SetToSeqs(Cached(sources)) :
                    Poll(sources, fresh \o old)
  BY <1>2, InitialFetchOK, PollOK
<1>3. CASE Send
  BY <1>3, SendOK
<1>4. CASE IngestTick
  BY <1>4, IngestTickOK
<1> QED BY <1>1, <1>2, <1>3, <1>4 DEF FeedNext

\* The inductive invariant holds of the feed.
THEOREM FeedInvariant == FeedSpec => []FeedInv
  BY FeedInitOK, FeedNextOK, PTL DEF FeedSpec

\* FetchAllLiveTicks fills in from its cache, Subscribe drops what finds the
\* channel full, and main stores what comes out of it: prices of an asset never
\* go back on the way, and once nothing is under way the store has the last one
\* of every asset whose last quote found room.
THEOREM FeedIsFollowed == FeedSpec => []StoreFollowsFeed
<1>1. ASSUME FeedInv PROVE StoreFollowsFeed
  <2> DEFINE n == Len(feedChan)
  <2>1. /\ feedChan \in Seq(Quotes) /\ sending \in Seq(Quotes)
        /\ n \in Nat /\ Len(sending) \in Nat
    BY <1>1, LenProperties DEF FeedInv, FeedShapes
  <2>2. /\ Line \in Seq(Quotes) /\ Len(Line) = n + Len(sending) /\ DOMAIN Line = 1..Len(Line)
        /\ \A i \in 1..Len(Line) : Line[i] = IF i <= n THEN feedChan[i] ELSE sending[i - n]
    BY <2>1, ConcatProperties, LenProperties DEF Line
  <2> HIDE DEF n
  <2>3. ASSUME NEW i \in 1..Len(Line)
        PROVE  LET a == Line[i].asset
               IN  /\ a \in Assets /\ Line[i].at \in Nat
                   /\ priced[a] <= Line[i].at /\ Line[i].at <= lastQuotes[a]
                   /\ i > n => Line[i].at = lastQuotes[a]
    <3>1. Line[i] \in Quotes
      BY <2>2, ElementOfSeq
    <3>2. Line[i].asset \in Assets /\ Line[i].at \in Nat
      BY <3>1 DEF Quotes
    <3>3. CASE i <= n
      <4>1. i \in 1..n /\ Line[i] = feedChan[i]
        BY <2>1, <2>2, <3>3
      <4> QED BY <1>1, <2>1, <3>2, <4>1 DEF FeedInv, ChannelInOrder, n
    <3>4. CASE ~(i <= n)
      <4> DEFINE k == i - n
      <4>1. k \in 1..Len(sending) /\ Line[i] = sending[k]
        <5>1. i \in 1..(n + Len(sending)) /\ Line[i] = sending[k]
          BY <2>2, <3>4
        <5> QED BY <2>1, <3>4, <5>1
      <4> HIDE DEF k
      <4>2. Line[i].at = lastQuotes[Line[i].asset]
        BY <1>1, <4>1 DEF FeedInv, BatchIsCache
      <4> QED BY <1>1, <3>2, <3>4, <4>2 DEF FeedInv, StoreBehindCache
    <3> QED BY <3>3, <3>4
  <2>4. ASSUME NEW i \in 1..Len(Line), NEW j \in 1..Len(Line), i <= j,
               Line[i].asset = Line[j].asset
        PROVE  Line[i].at <= Line[j].at
    <3>1. CASE j <= n
      <4>1. i \in 1..n /\ j \in i..n /\ Line[i] = feedChan[i] /\ Line[j] = feedChan[j]
        BY <2>1, <2>2, <2>4, <3>1
      <4> QED BY <1>1, <2>4, <4>1 DEF FeedInv, ChannelInOrder, n
    <3>2. CASE ~(j <= n)
      <4>1. Line[j].at = lastQuotes[Line[j].asset]
        BY <2>1, <2>3, <3>2
      <4> QED BY <2>3, <2>4, <4>1
    <3> QED BY <3>1, <3>2
  <2>5. ASSUME NEW a \in Assets, a \notin skipped, \A i \in 1..Len(Line) : Line[i].asset # a
        PROVE  priced[a] = lastQuotes[a]
    <3>1. Quote(a, lastQuotes[a]).asset = a
      BY DEF Quote
    <3>2. \A i \in 1..n : feedChan[i].asset # a
      <4> TAKE i \in 1..n
      <4>1. i \in 1..Len(Line) /\ Line[i] = feedChan[i]
        BY <2>1, <2>2
      <4> QED BY <2>5, <4>1
    <3>3. \A i \in 1..Len(sending) : sending[i].asset # a
      <4> TAKE i \in 1..Len(sending)
      <4> DEFINE k == n + i
      <4>1. k \in 1..Len(Line) /\ ~(k <= n) /\ k - n = i
        BY <2>1, <2>2
      <4> HIDE DEF k
      <4>2. Line[k] = sending[i]
        BY <2>2, <4>1
      <4> QED BY <2>5, <4>1, <4>2
    <3>4. LastOnItsWay(a)
      BY <1>1, <2>5 DEF FeedInv
    <3> QED BY <3>1, <3>2, <3>3, <3>4 DEF LastOnItsWay, n
  <2>6. \A a \in Assets : priced[a] <= lastQuotes[a]
    BY <1>1 DEF FeedInv, StoreBehindCache
  <2> QED BY <2>2, <2>3, <2>4, <2>5, <2>6 DEF StoreFollowsFeed
<1> QED BY <1>1, FeedInvariant, PTL

---------------------------------------------------------------------------
(* The shadow desk: no failure becomes an answer *)

OkRows == [status : {"ok"}, choice : Vocabulary, route : {"jev_direct", "escalated"},
           judge : {"jev"}, confidence : Int, limit : Int]

Busy == [pc : {"jev", "escalate", "record"}, cycle : Cycles, limit : Int,
         row : OkRows \cup {ErrorRow}]

CallCounts == [ok : Nat, fail : Nat]

ShadowShapes ==
    /\ threshold \in Thresholds \cup {0}
    /\ judgments \in Seq(Cycles) /\ Len(judgments) <= ShadowQueueCap
    /\ judge \in [Judges -> Busy \cup {Resting}]
    /\ evidence \in [Cycles -> OkRows \cup {ErrorRow, NoRow}]
    /\ health \in [jev : CallCounts, gateway : CallCounts]

\* Answers that a worker holds and answers that were recorded; of these, the
\* ones of the language model.
Held1     == {j \in Judges : judge[j].pc \in {"escalate", "record"} /\ judge[j].row.status = "ok"}
Recorded1 == {c \in Cycles : evidence[c].status = "ok"}
Held2     == {j \in Judges : /\ judge[j].pc = "record" /\ judge[j].row.status = "ok"
                             /\ judge[j].row.route = "escalated"}
Recorded2 == {c \in Cycles : evidence[c].status = "ok" /\ evidence[c].route = "escalated"}

\* Every one of them stands for a good call of its own.
Backed(held, recorded, calls) ==
    /\ IsFiniteSet(held) /\ IsFiniteSet(recorded)
    /\ Cardinality(recorded) + Cardinality(held) <= calls

\* Jev's own answers were sure enough, and only an answer is escalated.
Measured ==
    /\ \A c \in Cycles : evidence[c].status = "ok" /\ evidence[c].route = "jev_direct" =>
                          evidence[c].confidence >= evidence[c].limit
    /\ \A j \in Judges : judge[j].pc = "record" /\ judge[j].row.status = "ok"
                          /\ judge[j].row.route = "jev_direct" =>
                          judge[j].row.confidence >= judge[j].row.limit
    /\ \A j \in Judges : judge[j].pc = "escalate" => judge[j].row.status = "ok"

ShadowInv ==
    /\ ShadowShapes /\ Measured
    /\ Backed(Held1, Recorded1, health.jev.ok)
    /\ Backed(Held2, Recorded2, health.gateway.ok)

\* Answers that go away need no more calls.
LEMMA FewerBacked ==
    ASSUME NEW H, NEW R, NEW n \in Nat, Backed(H, R, n),
           NEW H1 \in SUBSET H, NEW R1 \in SUBSET R, NEW m \in Nat, n <= m
    PROVE  Backed(H1, R1, m)
<1>1. /\ IsFiniteSet(H1) /\ IsFiniteSet(R1)
      /\ Cardinality(H1) <= Cardinality(H) /\ Cardinality(R1) <= Cardinality(R)
      /\ Cardinality(H) \in Nat /\ Cardinality(R) \in Nat
      /\ Cardinality(H1) \in Nat /\ Cardinality(R1) \in Nat
  BY FS_Subset, FS_CardinalityType DEF Backed
<1> QED BY <1>1 DEF Backed

LEMMA OneMore ==
    ASSUME NEW S, IsFiniteSet(S), NEW x
    PROVE  /\ IsFiniteSet(S \cup {x}) /\ Cardinality(S) \in Nat
           /\ Cardinality(S \cup {x}) \in Nat /\ Cardinality(S \cup {x}) <= Cardinality(S) + 1
<1>1. IsFiniteSet(S \cup {x})
  BY FS_AddElement
<1>2. Cardinality(S \cup {x}) = IF x \in S THEN Cardinality(S) ELSE Cardinality(S) + 1
  BY FS_AddElement
<1>3. Cardinality(S) \in Nat /\ Cardinality(S \cup {x}) \in Nat
  BY <1>1, FS_CardinalityType
<1> QED BY <1>1, <1>2, <1>3

\* A good call backs one more.
LEMMA OneMoreBacked ==
    ASSUME NEW H, NEW R, NEW n \in Nat, Backed(H, R, n), NEW j,
           NEW H1 \in SUBSET (H \cup {j})
    PROVE  Backed(H1, R, n + 1)
<1>1. /\ IsFiniteSet(H \cup {j}) /\ Cardinality(H \cup {j}) <= Cardinality(H) + 1
      /\ Cardinality(H) \in Nat /\ Cardinality(R) \in Nat
  BY OneMore, FS_CardinalityType DEF Backed
<1>2. IsFiniteSet(H1) /\ Cardinality(H1) <= Cardinality(H \cup {j})
      /\ Cardinality(H1) \in Nat /\ Cardinality(H \cup {j}) \in Nat
  BY <1>1, FS_Subset, FS_CardinalityType
<1> QED BY <1>1, <1>2 DEF Backed

\* Recording moves an answer.
LEMMA MovedIsBacked ==
    ASSUME NEW H, NEW R, NEW n \in Nat, Backed(H, R, n), NEW j \in H, NEW c
    PROVE  Backed(H \ {j}, R \cup {c}, n)
<1>1. /\ IsFiniteSet(H \ {j}) /\ Cardinality(H \ {j}) = Cardinality(H) - 1
      /\ IsFiniteSet(R \cup {c}) /\ Cardinality(R \cup {c}) <= Cardinality(R) + 1
      /\ Cardinality(H) \in Nat /\ Cardinality(R) \in Nat
  BY FS_RemoveElement, OneMore, FS_CardinalityType DEF Backed
<1>2. Cardinality(R \cup {c}) \in Nat
  BY <1>1, FS_CardinalityType
<1> QED BY <1>1, <1>2 DEF Backed

\* A step that calls nobody and records nothing: workers may stop, start or
\* take the next judgment.
LEMMA QuietOK ==
    ASSUME ShadowInv, ShadowShapes', UNCHANGED <<evidence, health>>,
           \A j \in Judges : judge'[j] = judge[j] \/ judge'[j].pc \in {"rest", "jev"}
    PROVE  ShadowInv'
<1>1. Held1' \subseteq Held1 /\ Recorded1' \subseteq Recorded1
      /\ Held2' \subseteq Held2 /\ Recorded2' \subseteq Recorded2
  BY DEF Held1, Held2, Recorded1, Recorded2
<1>2. health.jev.ok \in Nat /\ health.gateway.ok \in Nat
  BY DEF ShadowInv, ShadowShapes, CallCounts
<1>3. Backed(Held1', Recorded1', health'.jev.ok) /\ Backed(Held2', Recorded2', health'.gateway.ok)
  BY <1>1, <1>2, FewerBacked DEF ShadowInv
<1>4. Measured'
  BY DEF ShadowInv, Measured
<1> QED BY <1>3, <1>4 DEF ShadowInv

\* What the queue, the settings and the workers' lives do.
LEMMA EnqueueOK ==
    ASSUME ShadowInv, NEW c \in Cycles, Enqueue(c)
    PROVE  ShadowInv'
<1>1. judgments' \in Seq(Cycles) /\ Len(judgments') <= ShadowQueueCap
  <2>1. judgments \in Seq(Cycles) /\ Len(judgments) <= ShadowQueueCap /\ Len(judgments) \in Nat
    BY LenProperties DEF ShadowInv, ShadowShapes
  <2>2. Append(judgments, c) \in Seq(Cycles) /\ Len(Append(judgments, c)) = Len(judgments) + 1
    BY <2>1, AppendProperties
  <2>3. judgments' = judgments \/ (Len(judgments) < ShadowQueueCap /\ judgments' = Append(judgments, c))
    BY DEF Enqueue
  <2> QED BY <2>1, <2>2, <2>3, ShadowAssumption
<1>2. UNCHANGED <<threshold, judge, evidence, health>>
  BY DEF Enqueue
<1>3. ShadowShapes'
  BY <1>1, <1>2 DEF ShadowInv, ShadowShapes
<1> QED BY <1>2, <1>3, QuietOK

LEMMA RetuneOK ==
    ASSUME ShadowInv, NEW t \in Thresholds, ensureDecisionRouter(t)
    PROVE  ShadowInv'
<1>1. threshold' = t /\ UNCHANGED <<judgments, judge, evidence, health>>
  BY DEF ensureDecisionRouter
<1>2. ShadowShapes'
  BY <1>1 DEF ShadowInv, ShadowShapes
<1> QED BY <1>1, <1>2, QuietOK

LEMMA TakeJudgmentOK ==
    ASSUME ShadowInv, NEW j \in Judges, TakeJudgment(j)
    PROVE  ShadowInv'
<1> DEFINE c == Head(judgments)
           b == [pc |-> "jev", cycle |-> c, limit |-> threshold, row |-> ErrorRow]
<1>1. judgments \in Seq(Cycles) /\ judgments # <<>> /\ Len(judgments) <= ShadowQueueCap
  BY DEF TakeJudgment, ShadowInv, ShadowShapes
<1>2. c \in Cycles /\ Tail(judgments) \in Seq(Cycles)
      /\ Len(Tail(judgments)) = Len(judgments) - 1 /\ Len(judgments) \in Nat
  BY <1>1, HeadTailProperties, LenProperties
<1>3. judgments' = Tail(judgments) /\ UNCHANGED <<threshold, evidence, health>>
      /\ (judge' = judge \/ judge' = [judge EXCEPT ![j] = b])
  BY DEF TakeJudgment
<1>4. b \in Busy /\ b.pc = "jev"
  <2>1. threshold \in Int
    BY ShadowAssumption DEF ShadowInv, ShadowShapes
  <2> QED BY <1>2, <2>1 DEF Busy
<1> HIDE DEF b
<1>5. ShadowShapes'
  BY <1>1, <1>2, <1>3, <1>4, ShadowAssumption DEF ShadowInv, ShadowShapes
<1>6. \A i \in Judges : judge'[i] = judge[i] \/ judge'[i].pc = "jev"
  BY <1>3, <1>4 DEF ShadowInv, ShadowShapes
<1> QED BY <1>3, <1>5, <1>6, QuietOK

LEMMA PanicsOK ==
    ASSUME ShadowInv, NEW j \in Judges, Panics(j)
    PROVE  ShadowInv'
<1>1. judge' = [judge EXCEPT ![j] = Resting] /\ UNCHANGED <<threshold, judgments, evidence, health>>
  BY DEF Panics, Panic
<1>2. ShadowShapes'
  BY <1>1 DEF ShadowInv, ShadowShapes
<1>3. \A i \in Judges : judge'[i] = judge[i] \/ judge'[i].pc = "rest"
  BY <1>1 DEF ShadowInv, ShadowShapes, Resting
<1> QED BY <1>1, <1>2, <1>3, QuietOK

LEMMA ProceedType ==
    ASSUME ShadowInv, NEW j \in Judges, judge[j].pc \in {"jev", "escalate"},
           NEW pc \in {"escalate", "record"}, NEW row \in OkRows \cup {ErrorRow},
           Proceed(j, pc, row)
    PROVE  /\ judge[j] \in Busy
           /\ judge' \in [Judges -> Busy \cup {Resting}]
           /\ judge'[j].pc = pc /\ judge'[j].row = row
           /\ \A i \in Judges \ {j} : judge'[i] = judge[i]
<1>1. judge[j] \in Busy
  BY DEF ShadowInv, ShadowShapes, Resting
<1> DEFINE u == [judge[j] EXCEPT !.pc = pc]
           v == [u EXCEPT !.row = row]
<1>2. u \in Busy /\ u.pc = pc
  BY <1>1 DEF Busy
<1> HIDE DEF u
<1>3. v \in Busy /\ v.pc = pc /\ v.row = row
  BY <1>2 DEF Busy
<1>4. judge' = [judge EXCEPT ![j] = v]
  BY <1>1 DEF Proceed, ShadowInv, ShadowShapes, u
<1> HIDE DEF v
<1> QED BY <1>1, <1>3, <1>4 DEF ShadowInv, ShadowShapes

LEMMA JevCounted ==
    ASSUME ShadowInv, Counted("jev", TRUE)
    PROVE  /\ health' \in [jev : CallCounts, gateway : CallCounts]
           /\ health'.jev.ok = health.jev.ok + 1 /\ health'.gateway.ok = health.gateway.ok
           /\ health.jev.ok \in Nat /\ health.gateway.ok \in Nat
<1>1. /\ health.jev \in CallCounts /\ health.gateway \in CallCounts
      /\ health \in [jev : CallCounts, gateway : CallCounts]
  BY DEF ShadowInv, ShadowShapes
<1>2. health' = [health EXCEPT !.jev = [health.jev EXCEPT !.ok = @ + 1]]
  BY <1>1 DEF Counted
<1> QED BY <1>1, <1>2 DEF CallCounts

LEMMA ModelCounted ==
    ASSUME ShadowInv, Counted("gateway", TRUE)
    PROVE  /\ health' \in [jev : CallCounts, gateway : CallCounts]
           /\ health'.gateway.ok = health.gateway.ok + 1 /\ health'.jev.ok = health.jev.ok
           /\ health.jev.ok \in Nat /\ health.gateway.ok \in Nat
<1>1. /\ health.jev \in CallCounts /\ health.gateway \in CallCounts
      /\ health \in [jev : CallCounts, gateway : CallCounts]
  BY DEF ShadowInv, ShadowShapes
<1>2. health' = [health EXCEPT !.gateway = [health.gateway EXCEPT !.ok = @ + 1]]
  BY <1>1 DEF Counted
<1> QED BY <1>1, <1>2 DEF CallCounts

LEMMA FailureCounted ==
    ASSUME ShadowInv, Counted("jev", FALSE) \/ Counted("gateway", FALSE)
    PROVE  /\ health' \in [jev : CallCounts, gateway : CallCounts]
           /\ health'.jev.ok = health.jev.ok /\ health'.gateway.ok = health.gateway.ok
           /\ health.jev.ok \in Nat /\ health.gateway.ok \in Nat
<1>1. /\ health.jev \in CallCounts /\ health.gateway \in CallCounts
      /\ health \in [jev : CallCounts, gateway : CallCounts]
  BY DEF ShadowInv, ShadowShapes
<1>2. CASE Counted("jev", FALSE)
  <2>1. health' = [health EXCEPT !.jev = [health.jev EXCEPT !.fail = @ + 1]]
    BY <1>1, <1>2 DEF Counted
  <2> QED BY <1>1, <2>1 DEF CallCounts
<1>3. CASE Counted("gateway", FALSE)
  <2>1. health' = [health EXCEPT !.gateway = [health.gateway EXCEPT !.fail = @ + 1]]
    BY <1>1, <1>3 DEF Counted
  <2> QED BY <1>1, <2>1 DEF CallCounts
<1> QED BY <1>2, <1>3

\* A call that failed leaves a worker without an answer.
LEMMA FailedCallOK ==
    ASSUME ShadowInv, NEW j \in Judges, JevFails(j) \/ EscalationFails(j)
    PROVE  ShadowInv'
<1>1. /\ judge[j].pc \in {"jev", "escalate"} /\ Proceed(j, "record", ErrorRow)
      /\ UNCHANGED <<threshold, judgments, evidence>>
      /\ Counted("jev", FALSE) \/ Counted("gateway", FALSE)
  BY DEF JevFails, EscalationFails
<1>2. /\ judge' \in [Judges -> Busy \cup {Resting}]
      /\ judge'[j].pc = "record" /\ judge'[j].row = ErrorRow
      /\ \A i \in Judges \ {j} : judge'[i] = judge[i]
  BY <1>1, ProceedType
<1>3. /\ health' \in [jev : CallCounts, gateway : CallCounts]
      /\ health'.jev.ok = health.jev.ok /\ health'.gateway.ok = health.gateway.ok
      /\ health.jev.ok \in Nat /\ health.gateway.ok \in Nat
  BY <1>1, FailureCounted
<1>4. ErrorRow.status # "ok"
  BY DEF ErrorRow
<1>5. /\ Held1' \subseteq Held1 /\ Recorded1' = Recorded1
      /\ Held2' \subseteq Held2 /\ Recorded2' = Recorded2
  BY <1>1, <1>2, <1>4 DEF Held1, Held2, Recorded1, Recorded2
<1>6. Backed(Held1', Recorded1', health'.jev.ok) /\ Backed(Held2', Recorded2', health'.gateway.ok)
  BY <1>3, <1>5, FewerBacked DEF ShadowInv
<1>7. Measured'
  BY <1>1, <1>2, <1>4 DEF ShadowInv, Measured
<1>8. ShadowShapes'
  BY <1>1, <1>2, <1>3 DEF ShadowInv, ShadowShapes
<1> QED BY <1>6, <1>7, <1>8 DEF ShadowInv

\* Jev's answer is one call's; it is final only if it is sure enough.
LEMMA JevAnswersOK ==
    ASSUME ShadowInv, NEW j \in Judges, NEW choice, NEW confidence \in Confidences,
           JevAnswers(j, choice, confidence)
    PROVE  ShadowInv'
<1> DEFINE limit == judge[j].limit
           ok == OkRow(choice, "jev_direct", confidence, limit)
           row == IF choice \in Vocabulary THEN ok ELSE ErrorRow
           pc == IF choice \in Vocabulary /\ ~(confidence >= limit) THEN "escalate" ELSE "record"
<1>1. /\ judge[j].pc = "jev" /\ Proceed(j, pc, row) /\ Counted("jev", TRUE)
      /\ UNCHANGED <<threshold, judgments, evidence>>
  BY DEF JevAnswers
<1>2. /\ health' \in [jev : CallCounts, gateway : CallCounts]
      /\ health'.jev.ok = health.jev.ok + 1 /\ health'.gateway.ok = health.gateway.ok
      /\ health.jev.ok \in Nat /\ health.gateway.ok \in Nat
  BY <1>1, JevCounted
<1>3. judge[j] \in Busy /\ limit \in Int /\ confidence \in Int
  BY <1>1, ShadowAssumption DEF ShadowInv, ShadowShapes, Resting, Busy
<1>4. /\ row \in OkRows \cup {ErrorRow} /\ pc \in {"escalate", "record"}
      /\ pc = "escalate" => row.status = "ok"
      /\ pc = "record" /\ row.status = "ok" => row.confidence >= row.limit
      /\ row.status = "ok" => row.route = "jev_direct"
  <2>1. CASE choice \in Vocabulary
    <3>1. /\ ok \in OkRows /\ ok.status = "ok" /\ ok.route = "jev_direct"
          /\ ok.confidence = confidence /\ ok.limit = limit
      BY <1>3, <2>1 DEF OkRow, OkRows
    <3> QED BY <2>1, <3>1
  <2>2. CASE choice \notin Vocabulary
    <3>1. ErrorRow.status # "ok"
      BY DEF ErrorRow
    <3> QED BY <2>2, <3>1
  <2> QED BY <2>1, <2>2
<1> HIDE DEF row, pc
<1>5. /\ judge' \in [Judges -> Busy \cup {Resting}]
      /\ judge'[j].pc = pc /\ judge'[j].row = row
      /\ \A i \in Judges \ {j} : judge'[i] = judge[i]
  BY <1>1, <1>4, ProceedType
<1>6. /\ Held1' \subseteq Held1 \cup {j} /\ Recorded1' = Recorded1
      /\ Held2' \subseteq Held2 /\ Recorded2' = Recorded2
  BY <1>1, <1>4, <1>5 DEF Held1, Held2, Recorded1, Recorded2
<1>7. Backed(Held1', Recorded1', health'.jev.ok)
  <2>1. Backed(Held1, Recorded1, health.jev.ok) /\ Held1' \in SUBSET (Held1 \cup {j})
    BY <1>6 DEF ShadowInv
  <2>2. Backed(Held1', Recorded1, health.jev.ok + 1)
    BY <1>2, <2>1, OneMoreBacked
  <2> QED BY <1>2, <1>6, <2>2
<1>8. Backed(Held2', Recorded2', health'.gateway.ok)
  BY <1>2, <1>6, FewerBacked DEF ShadowInv
<1>9. Measured'
  BY <1>1, <1>4, <1>5 DEF ShadowInv, Measured
<1>10. ShadowShapes'
  BY <1>1, <1>2, <1>5 DEF ShadowInv, ShadowShapes
<1> QED BY <1>7, <1>8, <1>9, <1>10 DEF ShadowInv

\* The model's answer takes the place of Jev's and is a call of its own.
LEMMA ModelAnswersOK ==
    ASSUME ShadowInv, NEW j \in Judges, NEW d, NEW p \in Confidences, ModelAnswers(j, d, p)
    PROVE  ShadowInv'
<1> DEFINE limit == judge[j].limit
           row == OkRow(Direction(d), "escalated",
                        IF Bounded(p) = 0 THEN judge[j].row.confidence ELSE Bounded(p), limit)
<1>1. /\ judge[j].pc = "escalate" /\ Proceed(j, "record", row) /\ Counted("gateway", TRUE)
      /\ UNCHANGED <<threshold, judgments, evidence>>
  BY DEF ModelAnswers
<1>2. /\ health' \in [jev : CallCounts, gateway : CallCounts]
      /\ health'.gateway.ok = health.gateway.ok + 1 /\ health'.jev.ok = health.jev.ok
      /\ health.jev.ok \in Nat /\ health.gateway.ok \in Nat
  BY <1>1, ModelCounted
<1>3. judge[j] \in Busy /\ limit \in Int /\ judge[j].row.confidence \in Int
  <2>1. judge[j] \in Busy
    BY <1>1 DEF ShadowInv, ShadowShapes, Resting
  <2>2. judge[j].row \in OkRows \cup {ErrorRow} /\ limit \in Int
    BY <2>1 DEF Busy
  <2>3. \A r \in OkRows : r.confidence \in Int
    BY DEF OkRows
  <2>4. ErrorRow.confidence \in Int
    BY DEF ErrorRow
  <2> QED BY <2>1, <2>2, <2>3, <2>4
<1>4. /\ row \in OkRows /\ row.status = "ok" /\ row.route = "escalated"
  <2>1. Direction(d) \in Vocabulary
    BY DEF Direction, Vocabulary
  <2>2. Bounded(p) \in Int
    BY ShadowAssumption DEF Bounded
  <2> QED BY <1>3, <2>1, <2>2 DEF OkRow, OkRows
<1> HIDE DEF row
<1>5. /\ judge' \in [Judges -> Busy \cup {Resting}]
      /\ judge'[j].pc = "record" /\ judge'[j].row = row
      /\ \A i \in Judges \ {j} : judge'[i] = judge[i]
  BY <1>1, <1>4, ProceedType
<1>6. j \in Held1
  BY <1>1 DEF ShadowInv, Measured, Held1
<1>7. /\ Held1' \subseteq Held1 /\ Recorded1' = Recorded1
      /\ Held2' \subseteq Held2 \cup {j} /\ Recorded2' = Recorded2
  BY <1>1, <1>5, <1>6 DEF Held1, Held2, Recorded1, Recorded2
<1>8. Backed(Held2', Recorded2', health'.gateway.ok)
  <2>1. Backed(Held2, Recorded2, health.gateway.ok) /\ Held2' \in SUBSET (Held2 \cup {j})
    BY <1>7 DEF ShadowInv
  <2>2. Backed(Held2', Recorded2, health.gateway.ok + 1)
    BY <1>2, <2>1, OneMoreBacked
  <2> QED BY <1>2, <1>7, <2>2
<1>9. Backed(Held1', Recorded1', health'.jev.ok)
  BY <1>2, <1>7, FewerBacked DEF ShadowInv
<1>10. Measured'
  BY <1>1, <1>4, <1>5 DEF ShadowInv, Measured
<1>11. ShadowShapes'
  BY <1>1, <1>2, <1>4, <1>5 DEF ShadowInv, ShadowShapes
<1> QED BY <1>8, <1>9, <1>10, <1>11 DEF ShadowInv

\* A worker is done: the answer it held is recorded, or lost.
LEMMA RecordOK ==
    ASSUME ShadowInv, NEW j \in Judges, NEW kept \in BOOLEAN, Record(j, kept)
    PROVE  ShadowInv'
<1> DEFINE c == judge[j].cycle
           row == judge[j].row
<1>1. judge[j].pc = "record" /\ judge[j] \in Busy
  BY DEF Record, ShadowInv, ShadowShapes, Resting
<1>2. c \in Cycles /\ row \in OkRows \cup {ErrorRow}
  BY <1>1 DEF Busy
<1>3. /\ judge' = [judge EXCEPT ![j] = Resting] /\ UNCHANGED <<threshold, judgments, health>>
      /\ evidence' = evidence \/ evidence' = [evidence EXCEPT ![c] = row]
  BY DEF Record, Settle
<1>4. /\ judge'[j] = Resting /\ judge'[j].pc = "rest"
      /\ \A i \in Judges \ {j} : judge'[i] = judge[i]
  BY <1>3 DEF ShadowInv, ShadowShapes, Resting
<1>5. ShadowShapes'
  BY <1>2, <1>3 DEF ShadowInv, ShadowShapes
<1>6. CASE evidence' = evidence
  BY <1>3, <1>4, <1>5, <1>6, QuietOK
<1>7. CASE evidence' = [evidence EXCEPT ![c] = row]
  <2> HIDE DEF c, row
  <2>1. /\ evidence'[c] = row
        /\ \A d \in Cycles \ {c} : evidence'[d] = evidence[d]
    BY <1>2, <1>7 DEF ShadowInv, ShadowShapes
  <2>2. Held1' \subseteq Held1 \ {j} /\ Held2' \subseteq Held2 \ {j}
    BY <1>4 DEF Held1, Held2
  <2>3. health.jev.ok \in Nat /\ health.gateway.ok \in Nat
    BY DEF ShadowInv, ShadowShapes, CallCounts
  <2>4. Backed(Held1', Recorded1', health.jev.ok)
    <3>1. CASE row.status = "ok"
      <4>1. j \in Held1 /\ Recorded1' \subseteq Recorded1 \cup {c}
        BY <1>1, <2>1, <3>1 DEF Held1, Recorded1, row
      <4>2. Backed(Held1, Recorded1, health.jev.ok)
        BY DEF ShadowInv
      <4>3. Backed(Held1 \ {j}, Recorded1 \cup {c}, health.jev.ok)
        BY <2>3, <4>1, <4>2, MovedIsBacked
      <4> QED BY <2>2, <2>3, <4>1, <4>3, FewerBacked
    <3>2. CASE row.status # "ok"
      <4>1. Recorded1' \subseteq Recorded1 /\ Held1' \subseteq Held1
        BY <2>1, <2>2, <3>2 DEF Recorded1
      <4> QED BY <2>3, <4>1, FewerBacked DEF ShadowInv
    <3> QED BY <3>1, <3>2
  <2>5. Backed(Held2', Recorded2', health.gateway.ok)
    <3>1. CASE row.status = "ok" /\ row.route = "escalated"
      <4>1. j \in Held2 /\ Recorded2' \subseteq Recorded2 \cup {c}
        BY <1>1, <2>1, <3>1 DEF Held2, Recorded2, row
      <4>2. Backed(Held2, Recorded2, health.gateway.ok)
        BY DEF ShadowInv
      <4>3. Backed(Held2 \ {j}, Recorded2 \cup {c}, health.gateway.ok)
        BY <2>3, <4>1, <4>2, MovedIsBacked
      <4> QED BY <2>2, <2>3, <4>1, <4>3, FewerBacked
    <3>2. CASE ~(row.status = "ok" /\ row.route = "escalated")
      <4>1. Recorded2' \subseteq Recorded2 /\ Held2' \subseteq Held2
        BY <2>1, <2>2, <3>2 DEF Recorded2
      <4> QED BY <2>3, <4>1, FewerBacked DEF ShadowInv
    <3> QED BY <3>1, <3>2
  <2>6. Measured'
    <3>1. row.status = "ok" /\ row.route = "jev_direct" => row.confidence >= row.limit
      BY <1>1 DEF ShadowInv, Measured, row
    <3> QED BY <1>4, <2>1, <3>1 DEF ShadowInv, Measured
  <2> QED BY <1>3, <1>5, <2>4, <2>5, <2>6 DEF ShadowInv
<1> QED BY <1>3, <1>6, <1>7

LEMMA ShadowInitOK == ShadowInit => ShadowInv
<1> SUFFICES ASSUME ShadowInit PROVE ShadowInv
  OBVIOUS
<1>1. ShadowShapes
  <2>1. Len(judgments) = 0 /\ judgments \in Seq(Cycles)
    BY DEF ShadowInit
  <2>2. health \in [jev : CallCounts, gateway : CallCounts]
    BY DEF ShadowInit, CallCounts
  <2> QED BY <2>1, <2>2, ShadowAssumption DEF ShadowInit, ShadowShapes
<1>2. Held1 = {} /\ Recorded1 = {} /\ Held2 = {} /\ Recorded2 = {}
  BY DEF ShadowInit, Held1, Held2, Recorded1, Recorded2, Resting, NoRow
<1>3. health.jev.ok = 0 /\ health.gateway.ok = 0
  BY DEF ShadowInit
<1>4. Backed({}, {}, 0)
  BY FS_EmptySet DEF Backed
<1>5. Measured
  BY DEF ShadowInit, Measured, Resting, NoRow
<1> QED BY <1>1, <1>2, <1>3, <1>4, <1>5 DEF ShadowInv

LEMMA ShadowNextOK ==
    ASSUME ShadowInv, [ShadowNext]_shadowVars
    PROVE  ShadowInv'
<1>1. CASE UNCHANGED shadowVars
  BY <1>1 DEF shadowVars, ShadowInv, ShadowShapes, Measured, Held1, Held2, Recorded1, Recorded2
<1>2. CASE \E c \in Cycles : Enqueue(c)
  BY <1>2, EnqueueOK
<1>3. CASE \E t \in Thresholds : ensureDecisionRouter(t)
  BY <1>3, RetuneOK
<1>4. ASSUME NEW j \in Judges, Judging(j) PROVE ShadowInv'
  BY <1>4, TakeJudgmentOK, FailedCallOK, JevAnswersOK, ModelAnswersOK, RecordOK, PanicsOK DEF Judging
<1> QED BY <1>1, <1>2, <1>3, <1>4 DEF ShadowNext

\* The inductive invariant holds of the shadow desk.
THEOREM ShadowInvariant == ShadowSpec => []ShadowInv
  BY ShadowInitOK, ShadowNextOK, PTL DEF ShadowSpec

\* Route records Jev's own answer only when it reaches the threshold that was
\* read before the call, and every recorded answer stands for a good call: no
\* failure, panic or refusal on the way became evidence, however many workers
\* judge and however often the threshold is changed.
THEOREM NoAnswerWithoutCall == ShadowSpec => []EvidenceIsBacked
<1>1. ASSUME ShadowInv PROVE EvidenceIsBacked
  <2>1. /\ Cardinality(Recorded1) <= health.jev.ok /\ Cardinality(Recorded2) <= health.gateway.ok
    <3>1. /\ Cardinality(Recorded1) \in Nat /\ Cardinality(Held1) \in Nat
          /\ Cardinality(Recorded2) \in Nat /\ Cardinality(Held2) \in Nat
      BY <1>1, FS_CardinalityType DEF ShadowInv, Backed
    <3>2. health.jev.ok \in Nat /\ health.gateway.ok \in Nat
      BY <1>1 DEF ShadowInv, ShadowShapes, CallCounts
    <3> QED BY <1>1, <3>1, <3>2 DEF ShadowInv, Backed
  <2> QED BY <1>1, <2>1 DEF ShadowInv, Measured, EvidenceIsBacked, Rows, Recorded1, Recorded2
<1> QED BY <1>1, ShadowInvariant, PTL

---------------------------------------------------------------------------
(* The messenger: a message is in one pair of hands at a time *)

Fates == {"unsent", "queued", "dropped", "delivered", "failed"}

Deliveries == [pc : {"send"}, msg : Messages, attempt : 1..MaxRetries]

Sends(w) == worker[w].pc = "send"

MessengerShapes ==
    /\ enabled = running
    /\ sendQueue \in Seq(Messages) /\ Len(sendQueue) <= SendQueueCap
    /\ worker \in [Workers -> Deliveries \cup {Unstarted, Waiting}]
    /\ copies \in [Messages -> 0..MaxRetries]
    /\ fate \in [Messages -> Fates]
    /\ switches \in Nat

\* A queued message is at one place of the queue or with one worker, and has
\* reached the chat no more often than it was tried.
OneHand ==
    /\ \A m \in Messages : fate[m] = "unsent" => copies[m] = 0
    /\ \A i \in 1..Len(sendQueue) : fate[sendQueue[i]] = "queued" /\ copies[sendQueue[i]] = 0
    /\ \A i, j \in 1..Len(sendQueue) : sendQueue[i] = sendQueue[j] => i = j
    /\ \A w \in Workers : Sends(w) =>
          /\ fate[worker[w].msg] = "queued"
          /\ copies[worker[w].msg] < worker[w].attempt
          /\ \A i \in 1..Len(sendQueue) : sendQueue[i] # worker[w].msg
          /\ \A v \in Workers \ {w} : Sends(v) => worker[v].msg # worker[w].msg

\* Every worker was started by the boot or by a switch.
WorkersCounted == Cardinality(Alive) <= 1 + switches

MessengerInv == MessengerShapes /\ OneHand /\ WorkersCounted

LEMMA AliveFinite == IsFiniteSet(Alive) /\ Cardinality(Alive) \in Nat
  BY MessengerAssumption, FS_Subset, FS_CardinalityType DEF Alive

\* A step of a worker at work starts no other.
LEMMA StillAlive ==
    ASSUME MessengerShapes, WorkersCounted, NEW w \in Workers, NEW to,
           worker[w].pc # "none", worker' = [worker EXCEPT ![w] = to], to.pc # "none",
           UNCHANGED switches
    PROVE  WorkersCounted'
<1>1. Alive' = Alive
  BY DEF Alive, MessengerShapes
<1> QED BY <1>1 DEF WorkersCounted

\* The message of a worker, and its move to the next attempt.
LEMMA DeliveryType ==
    ASSUME MessengerShapes, NEW w \in Workers, Sends(w)
    PROVE  /\ worker[w] \in Deliveries /\ worker[w].msg \in Messages
           /\ worker[w].attempt \in Nat \ {0} /\ worker[w].attempt <= MaxRetries
           /\ MaxRetries \in Nat
<1>1. worker[w] \in Deliveries
  BY DEF MessengerShapes, Sends, Unstarted, Waiting
<1> QED BY <1>1, MessengerAssumption DEF Deliveries

\* The worker has the message no more, and nobody else ever had it.
LEMMA FinishOK ==
    ASSUME MessengerInv, NEW w \in Workers, Sends(w), NEW end \in {"delivered", "failed"},
           Finish(w, end), UNCHANGED <<enabled, running, sendQueue, switches>>,
           UNCHANGED copies \/ Deliver(worker[w].msg)
    PROVE  MessengerInv'
<1> DEFINE m == worker[w].msg
<1>1. /\ m \in Messages /\ worker[w].attempt \in Nat \ {0} /\ worker[w].attempt <= MaxRetries
      /\ MaxRetries \in Nat /\ MessengerShapes /\ copies[m] < worker[w].attempt
  BY DeliveryType DEF MessengerInv, OneHand
<1>2. /\ fate' = [fate EXCEPT ![m] = end] /\ worker' = [worker EXCEPT ![w] = Waiting]
      /\ copies' = copies \/ copies' = [copies EXCEPT ![m] = @ + 1]
  BY DEF Finish, Deliver
<1>3. /\ \A i \in 1..Len(sendQueue) : sendQueue[i] # m
      /\ \A v \in Workers \ {w} : Sends(v) => worker[v].msg # m
  BY DEF MessengerInv, OneHand
<1> HIDE DEF m
<1>4. copies' \in [Messages -> 0..MaxRetries] /\ \A k \in Messages \ {m} : copies'[k] = copies[k]
  <2>1. copies[m] \in Nat /\ copies[m] + 1 \in 0..MaxRetries
    BY <1>1 DEF MessengerShapes
  <2> QED BY <1>1, <1>2, <2>1 DEF MessengerShapes
<1>5. fate' \in [Messages -> Fates] /\ fate'[m] = end
      /\ \A k \in Messages \ {m} : fate'[k] = fate[k]
  BY <1>1, <1>2 DEF MessengerShapes, Fates
<1>6. /\ worker' \in [Workers -> Deliveries \cup {Unstarted, Waiting}]
      /\ ~Sends(w)' /\ \A v \in Workers \ {w} : worker'[v] = worker[v] /\ Sends(v)' = Sends(v)
  BY <1>1, <1>2 DEF MessengerShapes, Sends, Waiting
<1>7. MessengerShapes'
  BY <1>1, <1>4, <1>5, <1>6 DEF MessengerShapes
<1>8. OneHand'
  <2>1. \A k \in Messages : fate'[k] = "unsent" => copies'[k] = 0
    BY <1>4, <1>5 DEF MessengerInv, OneHand
  <2>2. \A i \in 1..Len(sendQueue) :
           sendQueue[i] \in Messages /\ fate'[sendQueue[i]] = "queued" /\ copies'[sendQueue[i]] = 0
    <3> TAKE i \in 1..Len(sendQueue)
    <3>1. sendQueue[i] \in Messages
      BY <1>1, ElementOfSeq DEF MessengerShapes
    <3> QED BY <1>3, <1>4, <1>5, <3>1 DEF MessengerInv, OneHand
  <2>3. ASSUME NEW v \in Workers, Sends(v)'
        PROVE  /\ v # w /\ Sends(v) /\ worker'[v] = worker[v]
               /\ worker[v].msg \in Messages \ {m}
    BY <1>1, <1>3, <1>6, <2>3, DeliveryType
  <2> QED BY <1>4, <1>5, <2>1, <2>2, <2>3 DEF MessengerInv, OneHand
<1>9. WorkersCounted'
  <2>1. worker[w].pc # "none" /\ Waiting.pc # "none"
    BY DEF Sends, Waiting
  <2> QED BY <1>1, <1>2, <2>1, StillAlive DEF MessengerInv
<1> QED BY <1>7, <1>8, <1>9 DEF MessengerInv

\* The next attempt, whether or not the last one reached the chat.
LEMMA RetryOK ==
    ASSUME MessengerInv, NEW w \in Workers, Sends(w), worker[w].attempt < MaxRetries,
           worker' = [worker EXCEPT ![w].attempt = @ + 1],
           UNCHANGED <<enabled, running, sendQueue, fate, switches>>,
           UNCHANGED copies \/ Deliver(worker[w].msg)
    PROVE  MessengerInv'
<1> DEFINE m == worker[w].msg
           a == worker[w].attempt
           to == [worker[w] EXCEPT !.attempt = a + 1]
<1>1. /\ worker[w] \in Deliveries
      /\ m \in Messages /\ a \in Nat \ {0} /\ a < MaxRetries
      /\ MaxRetries \in Nat /\ MessengerShapes /\ copies[m] < a
  BY DeliveryType DEF MessengerInv, OneHand
<1>2. worker' = [worker EXCEPT ![w] = to]
  BY <1>1 DEF MessengerShapes
<1>3. copies' = copies \/ copies' = [copies EXCEPT ![m] = @ + 1]
  BY DEF Deliver
<1>4. to \in Deliveries /\ to.pc = "send" /\ to.msg = m /\ to.attempt = a + 1
  <2>1. a + 1 \in 1..MaxRetries
    BY <1>1
  <2> HIDE DEF a
  <2> QED BY <1>1, <2>1 DEF Deliveries
<1>5. /\ \A i \in 1..Len(sendQueue) : sendQueue[i] # m
      /\ \A v \in Workers \ {w} : Sends(v) => worker[v].msg # m
      /\ fate[m] = "queued"
  BY DEF MessengerInv, OneHand
<1> HIDE DEF m, a, to
<1>6. /\ copies' \in [Messages -> 0..MaxRetries] /\ copies'[m] < a + 1
      /\ \A k \in Messages \ {m} : copies'[k] = copies[k]
  <2>1. copies[m] \in Nat /\ copies[m] + 1 \in 0..MaxRetries
    BY <1>1 DEF MessengerShapes
  <2> QED BY <1>1, <1>3, <2>1 DEF MessengerShapes
<1>7. /\ worker' \in [Workers -> Deliveries \cup {Unstarted, Waiting}]
      /\ worker'[w] = to /\ Sends(w)'
      /\ \A v \in Workers \ {w} : worker'[v] = worker[v] /\ Sends(v)' = Sends(v)
  BY <1>1, <1>2, <1>4 DEF MessengerShapes, Sends
<1>8. MessengerShapes'
  BY <1>1, <1>6, <1>7 DEF MessengerShapes
<1>9. OneHand'
  <2>1. \A k \in Messages : fate[k] = "unsent" => copies'[k] = 0
    BY <1>5, <1>6 DEF MessengerInv, OneHand
  <2>2. \A i \in 1..Len(sendQueue) :
           sendQueue[i] \in Messages /\ fate[sendQueue[i]] = "queued" /\ copies'[sendQueue[i]] = 0
    <3> TAKE i \in 1..Len(sendQueue)
    <3>1. sendQueue[i] \in Messages
      BY <1>1, ElementOfSeq DEF MessengerShapes
    <3> QED BY <1>5, <1>6, <3>1 DEF MessengerInv, OneHand
  <2>3. ASSUME NEW v \in Workers, Sends(v)', v # w
        PROVE  /\ Sends(v) /\ worker'[v] = worker[v] /\ worker[v].msg \in Messages \ {m}
               /\ copies'[worker[v].msg] < worker[v].attempt
    <3>1. Sends(v) /\ worker'[v] = worker[v] /\ worker[v].msg \in Messages \ {m}
      BY <1>1, <1>5, <1>7, <2>3, DeliveryType
    <3> QED BY <1>6, <3>1 DEF MessengerInv, OneHand
  <2>4. worker'[w].msg = m /\ worker'[w].attempt = a + 1
    BY <1>4, <1>7
  <2> QED BY <1>5, <1>6, <2>1, <2>2, <2>3, <2>4 DEF MessengerInv, OneHand
<1>10. WorkersCounted'
  BY <1>1, <1>2, <1>4, StillAlive DEF MessengerInv, Sends
<1> QED BY <1>8, <1>9, <1>10 DEF MessengerInv

\* The messages left in the queue when its head is taken.
LEMMA TakeOK ==
    ASSUME MessengerInv, NEW w \in Workers, Take(w)
    PROVE  MessengerInv'
<1> DEFINE m == Head(sendQueue)
           q == Tail(sendQueue)
<1>1. /\ m \in Messages /\ q \in Seq(Messages) /\ Len(sendQueue) \in Nat \ {0}
      /\ Len(q) = Len(sendQueue) - 1 /\ m = sendQueue[1]
      /\ \A i \in 1..Len(q) : q[i] = sendQueue[i + 1]
  BY HeadTailProperties, EmptySeq, LenProperties DEF MessengerInv, MessengerShapes, Take
<1>2. /\ MessengerShapes /\ worker[w].pc = "wait" /\ sendQueue' = q
      /\ worker' = [worker EXCEPT ![w] = Sending(m, 1)]
      /\ UNCHANGED <<enabled, running, copies, fate, switches>>
  BY DEF MessengerInv, Take
<1> DEFINE to == Sending(m, 1)
<1>3. to \in Deliveries /\ to.pc = "send" /\ to.msg = m /\ to.attempt = 1
  BY <1>1, MessengerAssumption DEF Sending, Deliveries
<1> HIDE DEF m, q, to
<1>4. ASSUME NEW i \in 1..Len(q)
      PROVE  /\ i + 1 \in 1..Len(sendQueue) /\ q[i] = sendQueue[i + 1] /\ q[i] # m
             /\ \A j \in 1..Len(q) : q[i] = q[j] => i = j
  <2>1. i + 1 \in 1..Len(sendQueue) /\ 1 \in 1..Len(sendQueue) /\ i + 1 # 1
    BY <1>1
  <2>2. \A j \in 1..Len(sendQueue) : sendQueue[i + 1] = sendQueue[j] => i + 1 = j
    BY <2>1 DEF MessengerInv, OneHand
  <2>3. ASSUME NEW j \in 1..Len(q), q[i] = q[j] PROVE i = j
    <3>1. j + 1 \in 1..Len(sendQueue) /\ sendQueue[i + 1] = sendQueue[j + 1]
      BY <1>1, <2>1, <2>3
    <3> QED BY <2>2, <3>1
  <2> QED BY <1>1, <2>1, <2>2, <2>3
<1>5. fate[m] = "queued" /\ copies[m] = 0
      /\ \A v \in Workers : Sends(v) => worker[v].msg # m
  <2>1. 1 \in 1..Len(sendQueue)
    BY <1>1
  <2> QED BY <1>1, <2>1 DEF MessengerInv, OneHand
<1>6. /\ worker' \in [Workers -> Deliveries \cup {Unstarted, Waiting}]
      /\ worker'[w] = to /\ Sends(w)'
      /\ \A v \in Workers \ {w} : worker'[v] = worker[v] /\ Sends(v)' = Sends(v)
  BY <1>2, <1>3 DEF MessengerShapes, Sends, to
<1>7. MessengerShapes'
  BY <1>1, <1>2, <1>6, MessengerAssumption DEF MessengerShapes
<1>8. OneHand'
  <2>1. ASSUME NEW v \in Workers, Sends(v)', v # w
        PROVE  /\ Sends(v) /\ worker'[v] = worker[v] /\ worker[v].msg # m
               /\ \A i \in 1..Len(q) : q[i] # worker[v].msg
    <3>1. Sends(v) /\ worker'[v] = worker[v] /\ worker[v].msg # m
      BY <1>5, <1>6, <2>1
    <3> QED BY <1>4, <3>1 DEF MessengerInv, OneHand
  <2>2. \A i \in 1..Len(q) : fate[q[i]] = "queued" /\ copies[q[i]] = 0
    BY <1>4 DEF MessengerInv, OneHand
  <2>3. worker'[w].msg = m /\ worker'[w].attempt = 1
    BY <1>3, <1>6
  <2> QED BY <1>2, <1>4, <1>5, <2>1, <2>2, <2>3 DEF MessengerInv, OneHand
<1>9. WorkersCounted'
  <2>1. worker[w].pc # "none" /\ to.pc # "none" /\ worker' = [worker EXCEPT ![w] = to]
    BY <1>2, <1>3 DEF to
  <2> QED BY <1>2, <2>1, StillAlive DEF MessengerInv
<1> QED BY <1>7, <1>8, <1>9 DEF MessengerInv

\* A message enters the queue, or is dropped.
LEMMA SendMessageOK ==
    ASSUME MessengerInv, NEW m \in Messages, SendMessage(m)
    PROVE  MessengerInv'
<1>1. /\ MessengerShapes /\ fate[m] = "unsent" /\ copies[m] = 0
      /\ UNCHANGED <<enabled, running, worker, copies, switches>>
  BY DEF MessengerInv, OneHand, SendMessage
<1>2. /\ sendQueue \in Seq(Messages) /\ Len(sendQueue) \in Nat
      /\ \A i \in 1..Len(sendQueue) : sendQueue[i] \in Messages /\ sendQueue[i] # m
  <2>1. sendQueue \in Seq(Messages) /\ Len(sendQueue) \in Nat
    BY <1>1, LenProperties DEF MessengerShapes
  <2> QED BY <1>1, <2>1, ElementOfSeq DEF MessengerInv, OneHand
<1>3. ASSUME NEW w \in Workers, Sends(w)
      PROVE  worker[w].msg \in Messages /\ worker[w].msg # m
  BY <1>1, <1>3, DeliveryType DEF MessengerInv, OneHand
<1>4. WorkersCounted' /\ \A w \in Workers : Sends(w)' = Sends(w)
  BY <1>1 DEF MessengerInv, WorkersCounted, Alive, Sends
<1>5. CASE Len(sendQueue) < SendQueueCap
           /\ sendQueue' = Append(sendQueue, m) /\ fate' = [fate EXCEPT ![m] = "queued"]
  <2> DEFINE n == Len(sendQueue)
             q == Append(sendQueue, m)
  <2>1. /\ q \in Seq(Messages) /\ Len(q) = n + 1 /\ q[n + 1] = m
        /\ \A i \in 1..n : q[i] = sendQueue[i]
    BY <1>2, AppendProperties
  <2> HIDE DEF q
  <2>2. sendQueue' = q
    BY <1>5 DEF q
  <2>3. fate' \in [Messages -> Fates] /\ fate'[m] = "queued"
        /\ \A k \in Messages \ {m} : fate'[k] = fate[k]
    BY <1>1, <1>5 DEF MessengerShapes, Fates
  <2>4. ASSUME NEW i \in 1..(n + 1)
        PROVE  \/ i = n + 1 /\ q[i] = m
               \/ i \in 1..n /\ q[i] = sendQueue[i] /\ q[i] # m
    BY <1>2, <2>1
  <2>5. MessengerShapes'
    BY <1>1, <1>2, <1>5, <2>1, <2>2, <2>3, MessengerAssumption DEF MessengerShapes
  <2>6. \A k \in Messages : fate'[k] = "unsent" => copies'[k] = 0
    BY <1>1, <2>3 DEF MessengerInv, OneHand
  <2>7. \A i \in 1..(n + 1) : fate'[q[i]] = "queued" /\ copies[q[i]] = 0
    BY <1>1, <1>2, <2>3, <2>4 DEF MessengerInv, OneHand
  <2>8. \A i, j \in 1..(n + 1) : q[i] = q[j] => i = j
    BY <2>4 DEF MessengerInv, OneHand
  <2>9. ASSUME NEW w \in Workers, Sends(w)
        PROVE  /\ fate'[worker[w].msg] = "queued"
               /\ \A i \in 1..(n + 1) : q[i] # worker[w].msg
    BY <1>3, <2>3, <2>4, <2>9 DEF MessengerInv, OneHand
  <2>10. OneHand'
    BY <1>1, <1>4, <2>1, <2>2, <2>6, <2>7, <2>8, <2>9 DEF MessengerInv, OneHand
  <2> QED BY <1>4, <2>5, <2>10 DEF MessengerInv
<1>6. CASE fate' = [fate EXCEPT ![m] = "dropped"] /\ UNCHANGED sendQueue
  <2>1. fate' \in [Messages -> Fates] /\ fate'[m] = "dropped"
        /\ \A k \in Messages \ {m} : fate'[k] = fate[k]
    BY <1>1, <1>6 DEF MessengerShapes, Fates
  <2>2. MessengerShapes'
    BY <1>1, <1>6, <2>1 DEF MessengerShapes
  <2>3. OneHand'
    BY <1>1, <1>2, <1>3, <1>4, <1>6, <2>1 DEF MessengerInv, OneHand
  <2> QED BY <1>4, <2>2, <2>3 DEF MessengerInv
<1> QED BY <1>5, <1>6 DEF SendMessage

\* A switch starts one worker at most.
LEMMA UpdateConfigOK ==
    ASSUME MessengerInv, NEW on \in BOOLEAN, UpdateConfig(on)
    PROVE  MessengerInv'
<1>1. /\ MessengerShapes /\ switches' = switches + 1 /\ enabled' = running'
      /\ UNCHANGED <<sendQueue, copies, fate>>
      /\ UNCHANGED worker \/ \E w \in Workers \ Alive : worker' = [worker EXCEPT ![w] = Waiting]
  BY DEF MessengerInv, UpdateConfig, Spawn
<1>2. CASE UNCHANGED worker
  <2>1. WorkersCounted'
    BY <1>1, <1>2, AliveFinite DEF MessengerInv, MessengerShapes, WorkersCounted, Alive
  <2>2. MessengerShapes' /\ OneHand'
    BY <1>1, <1>2 DEF MessengerInv, MessengerShapes, OneHand, Sends
  <2> QED BY <2>1, <2>2 DEF MessengerInv
<1>3. ASSUME NEW w \in Workers \ Alive, worker' = [worker EXCEPT ![w] = Waiting]
      PROVE  MessengerInv'
  <2>1. /\ worker' \in [Workers -> Deliveries \cup {Unstarted, Waiting}] /\ ~Sends(w) /\ ~Sends(w)'
        /\ \A v \in Workers \ {w} : worker'[v] = worker[v] /\ Sends(v)' = Sends(v)
    BY <1>1, <1>3 DEF MessengerShapes, Sends, Waiting, Alive
  <2>2. MessengerShapes' /\ OneHand'
    BY <1>1, <2>1 DEF MessengerInv, MessengerShapes, OneHand
  <2>3. Alive' \subseteq Alive \cup {w}
    BY <2>1 DEF Alive
  <2>4. Cardinality(Alive \cup {w}) = Cardinality(Alive) + 1 /\ IsFiniteSet(Alive \cup {w})
    BY <1>3, AliveFinite, FS_AddElement
  <2>5. Cardinality(Alive') <= Cardinality(Alive) + 1 /\ Cardinality(Alive') \in Nat
    BY <2>3, <2>4, FS_Subset, FS_CardinalityType
  <2>6. WorkersCounted'
    BY <1>1, <2>5, AliveFinite DEF MessengerInv, MessengerShapes, WorkersCounted
  <2> QED BY <2>2, <2>6 DEF MessengerInv
<1> QED BY <1>1, <1>2, <1>3

LEMMA MessengerInitOK == MessengerInit => MessengerInv
<1> SUFFICES ASSUME MessengerInit PROVE MessengerInv
  OBVIOUS
<1>1. /\ worker \in [Workers -> {Unstarted, Waiting}] /\ switches = 0 /\ sendQueue = <<>>
      /\ \E w \in Workers : \A v \in Workers \ {w} : worker[v] = Unstarted
  BY MessengerAssumption DEF MessengerInit
<1>2. Len(sendQueue) = 0 /\ sendQueue \in Seq(Messages)
  BY <1>1
<1>3. MessengerShapes
  BY <1>1, <1>2, MessengerAssumption DEF MessengerInit, MessengerShapes, Fates
<1>4. \A w \in Workers : ~Sends(w)
  BY <1>1 DEF Sends, Unstarted, Waiting
<1>5. OneHand
  BY <1>2, <1>4 DEF MessengerInit, OneHand
<1>6. PICK w \in Workers : Alive \subseteq {w}
  BY <1>1 DEF Alive, Unstarted
<1>7. Cardinality(Alive) <= 1
  <2>1. IsFiniteSet({w}) /\ Cardinality({w}) = 1
    BY FS_Singleton
  <2>2. Cardinality(Alive) <= Cardinality({w})
    BY <1>6, <2>1, FS_Subset
  <2> QED BY <2>1, <2>2
<1> QED BY <1>1, <1>3, <1>5, <1>7 DEF MessengerInv, WorkersCounted

LEMMA MessengerNextOK ==
    ASSUME MessengerInv, [MessengerNext]_messengerVars
    PROVE  MessengerInv'
<1>1. CASE UNCHANGED messengerVars
  BY <1>1 DEF messengerVars, MessengerInv, MessengerShapes, OneHand, WorkersCounted, Alive, Sends
<1>2. ASSUME NEW w \in Workers, Work(w) PROVE MessengerInv'
  <2>1. CASE Take(w)
    BY <2>1, TakeOK
  <2>2. CASE Answered(w)
    BY <2>2, FinishOK DEF Answered, Sends
  <2>3. CASE GivesUp(w)
    BY <2>3, FinishOK DEF GivesUp, Sends
  <2>4. ASSUME NEW reached \in BOOLEAN, Fails(w, reached) PROVE MessengerInv'
    BY <2>4, FinishOK, RetryOK DEF Fails, Sends
  <2>5. ASSUME NEW works \in BOOLEAN, PlainText(w, works) PROVE MessengerInv'
    BY <2>5, FinishOK DEF PlainText, Sends
  <2> QED BY <1>2, <2>1, <2>2, <2>3, <2>4, <2>5 DEF Work
<1> QED BY <1>1, <1>2, SendMessageOK, UpdateConfigOK DEF MessengerNext

\* The inductive invariant holds of the messenger.
THEOREM MessengerInvariant == MessengerSpec => []MessengerInv
  BY MessengerInitOK, MessengerNextOK, PTL DEF MessengerSpec

---------------------------------------------------------------------------
(* The parts together *)

\* What is left of the stream's types: bounds of its counters and channels.
StreamBounds ==
    /\ stored <= MaxTicks /\ redisFaults \in 0..MaxRedisFaults
    /\ \A d \in Dashboards : Len(channel[d]) <= ChannelCap

\* A broadcast overfills no channel.
LEMMA BroadcastFits ==
    ASSUME Shapes, StreamBounds, NEW n \in Nat, broadcastLocal(n)
    PROVE  \A d \in Dashboards : Len(channel'[d]) <= ChannelCap
<1> DEFINE full == {d \in clients : Len(channel[d]) >= ChannelCap}
<1>1. /\ channel' = [d \in Dashboards |->
             IF d \in clients \ full THEN Append(channel[d], n) ELSE channel[d]]
      /\ \A d \in clients \ full : ~(Len(channel[d]) >= ChannelCap)
  BY DEF broadcastLocal
<1> HIDE DEF full
<1>2. ASSUME NEW d \in Dashboards PROVE Len(channel'[d]) <= ChannelCap
  <2>1. channel[d] \in Seq(Nat) /\ Len(channel[d]) \in Nat /\ Len(channel[d]) <= ChannelCap
    BY LenProperties DEF Shapes, StreamBounds
  <2>2. CASE d \in clients \ full
    <3>1. channel'[d] = Append(channel[d], n) /\ ~(Len(channel[d]) >= ChannelCap)
      BY <1>1, <2>2
    <3>2. Len(Append(channel[d], n)) = Len(channel[d]) + 1
      BY <2>1, AppendProperties
    <3> QED BY <2>1, <3>1, <3>2, LiveStreamAssumption
  <2>3. CASE d \notin clients \ full
    BY <1>1, <2>1, <2>3
  <2> QED BY <2>2, <2>3
<1> QED BY <1>2

LEMMA StreamBoundsOK ==
    ASSUME StreamInv, StreamBounds, [StreamNext]_streamVars
    PROVE  StreamBounds'
<1>1. Shapes /\ stored \in Nat /\ MaxTicks \in Nat /\ MaxRedisFaults \in Nat /\ ChannelCap \in Nat
  BY LiveStreamAssumption DEF StreamInv, Shapes
<1>2. CASE UNCHANGED streamVars \/ Publish
           \/ \E d \in Dashboards : Connect(d) \/ ReadSnapshot(d) \/ EnterLoop(d)
  BY <1>2 DEF streamVars, Publish, Connect, ReadSnapshot, EnterLoop, StreamBounds
<1>3. CASE StoreTick
  BY <1>1, <1>3 DEF StoreTick, StreamBounds
<1>4. CASE \E reached \in BOOLEAN : PublishFails(reached)
  BY <1>1, <1>4 DEF PublishFails, StreamBounds
<1>5. CASE BroadcastHere
  BY <1>1, <1>5, BroadcastFits DEF BroadcastHere, StreamBounds
<1>6. CASE Subscriber
  <2>1. Head(pipe) \in Nat
    BY <1>1, <1>6, RangeTail DEF Subscriber, Shapes
  <2> QED BY <1>1, <1>6, <2>1, BroadcastFits DEF Subscriber, StreamBounds
<1>7. ASSUME NEW d \in Dashboards, WriteNext(d) PROVE StreamBounds'
  <2>1. channel[d] \in Seq(Nat) /\ channel[d] # <<>>
    BY <1>1, <1>7 DEF WriteNext, Shapes
  <2>2. Len(Tail(channel[d])) = Len(channel[d]) - 1 /\ Len(channel[d]) \in Nat
    BY <2>1, HeadTailProperties, LenProperties
  <2>3. \A e \in Dashboards :
           channel'[e] = IF e = d THEN Tail(channel[d]) ELSE channel[e]
    BY <1>1, <1>7 DEF WriteNext, Shapes
  <2> QED BY <1>1, <1>7, <2>2, <2>3 DEF WriteNext, StreamBounds
<1>8. ASSUME NEW d \in Dashboards, Disconnect(d) PROVE StreamBounds'
  <2>1. Len(<<>>) = 0 /\ \A e \in Dashboards :
           channel'[e] = IF e = d THEN <<>> ELSE channel[e]
    BY <1>1, <1>8 DEF Disconnect, Shapes
  <2> QED BY <1>1, <1>8, <2>1 DEF Disconnect, StreamBounds
<1> QED BY <1>2, <1>3, <1>4, <1>5, <1>6, <1>7, <1>8 DEF StreamNext

ServicesInv ==
    /\ FeedInv /\ GuardianInv /\ StreamInv /\ StreamBounds
    /\ MessengerInv /\ ShadowInv

LEMMA FeedTypes == FeedInv => FeedTypeOK
<1> SUFFICES ASSUME FeedInv PROVE FeedTypeOK
  OBVIOUS
<1>1. /\ FeedShapes /\ MaxPolls \in Nat /\ polls \in 0..MaxPolls
      /\ lastQuotes \in [Assets -> Nat] /\ priced \in [Assets -> Nat]
  BY FeedAssumption DEF FeedInv, FeedShapes
<1>2. \A a \in Assets : lastQuotes[a] \in 0..MaxPolls /\ priced[a] \in 0..MaxPolls
  BY <1>1 DEF FeedInv, FeedShapes, StoreBehindCache
<1> QED BY <1>1, <1>2 DEF FeedTypeOK, FeedShapes

LEMMA GuardianTypes == GuardianInv => GuardianTypeOK
  BY DEF GuardianInv, GuardianShapes, GuardianTypeOK, Ticks

LEMMA StreamTypes == StreamInv /\ StreamBounds => StreamTypeOK
  BY LiveStreamAssumption DEF StreamInv, Shapes, StreamBounds, StreamTypeOK

LEMMA MessengerTypes == MessengerInv => MessengerTypeOK
<1> SUFFICES ASSUME MessengerInv PROVE MessengerTypeOK
  OBVIOUS
<1>1. \A m \in Messages :
         /\ copies[m] \in 0..MaxRetries
         /\ fate[m] \in {"unsent", "queued", "dropped", "delivered", "failed"}
  BY DEF MessengerInv, MessengerShapes, Fates
<1> QED BY <1>1 DEF MessengerInv, MessengerShapes, WorkersCounted, MessengerTypeOK

LEMMA ShadowTypes == ShadowInv => ShadowTypeOK
<1> SUFFICES ASSUME ShadowInv PROVE ShadowTypeOK
  OBVIOUS
<1>1. ASSUME NEW c \in Cycles PROVE evidence[c] = NoRow \/ ValidRow(evidence[c])
  <2>1. evidence[c] \in OkRows \cup {ErrorRow, NoRow}
    BY DEF ShadowInv, ShadowShapes
  <2>2. ValidRow(ErrorRow)
    BY DEF ValidRow, ErrorRow
  <2>3. ASSUME NEW r \in OkRows PROVE ValidRow(r)
    <3>1. r.status = "ok" /\ r.judge = "jev" /\ r.choice \in Vocabulary
      BY DEF OkRows
    <3>2. r.status # "error"
      BY <3>1
    <3> QED BY <3>1, <3>2, Zenon DEF ValidRow
  <2> QED BY <2>1, <2>2, <2>3
<1>2. ASSUME NEW j \in Judges
      PROVE  judge[j].pc \in {"rest", "jev", "escalate", "record", "dead"}
  BY DEF ShadowInv, ShadowShapes, Busy, Resting
<1> QED BY <1>1, <1>2 DEF ShadowInv, ShadowShapes, ShadowTypeOK

LEMMA ServicesInitOK == ServicesInit => ServicesInv
<1> SUFFICES ASSUME ServicesInit PROVE ServicesInv
  OBVIOUS
<1>1. FeedInv /\ GuardianInv /\ StreamInv /\ MessengerInv /\ ShadowInv
  BY FeedInitOK, GuardianInitOK, StreamInitOK, MessengerInitOK, ShadowInitOK DEF ServicesInit
<1>2. StreamBounds
  <2>1. Len(<<>>) = 0
    OBVIOUS
  <2> QED BY <2>1, LiveStreamAssumption DEF ServicesInit, StreamInit, StreamBounds
<1> QED BY <1>1, <1>2 DEF ServicesInv

LEMMA ServicesNextOK ==
    ASSUME ServicesInv, [ServicesNext]_servicesVars
    PROVE  ServicesInv'
<1>1. /\ [FeedNext]_feedVars /\ [GuardianNext]_guardianVars /\ [StreamNext]_streamVars
      /\ [MessengerNext]_messengerVars /\ [ShadowNext]_shadowVars
  BY DEF ServicesNext, servicesVars
<1>2. /\ FeedInv /\ GuardianInv /\ StreamInv /\ StreamBounds
      /\ MessengerInv /\ ShadowInv
  BY DEF ServicesInv
<1>3. FeedInv' /\ GuardianInv' /\ StreamInv' /\ MessengerInv' /\ ShadowInv'
  BY <1>1, <1>2, FeedNextOK, GuardianNextOK, StreamNextOK, MessengerNextOK, ShadowNextOK
<1>4. StreamBounds'
  BY <1>1, <1>2, StreamBoundsOK
<1> QED BY <1>3, <1>4 DEF ServicesInv

\* No queue of the services outgrows its channel, whatever is polled, ticked,
\* sent, judged or switched meanwhile; no message reaches the chat more often
\* than it may be tried, because no two workers ever hold the same one; every
\* worker of the bot was started by the boot or by a switch; and no row that
\* Validate would refuse is stored.
THEOREM ServicesAreTyped == ServicesSpec => []ServicesTypeOK
<1>1. ServicesInv => ServicesTypeOK
  BY FeedTypes, GuardianTypes, StreamTypes, MessengerTypes, ShadowTypes
     DEF ServicesInv, ServicesTypeOK
<1> QED BY <1>1, ServicesInitOK, ServicesNextOK, PTL DEF ServicesSpec
====
