------------------------- MODULE NewsPipelineProofs -------------------------
(***************************************************************************)
(* What holds of the news pipeline for every universe of symbols, every    *)
(* set of headlines and any queue capacity.                                *)
(***************************************************************************)
EXTENDS NewsPipeline, FiniteSetTheorems, SequenceTheorems, TLAPS

---------------------------------------------------------------------------
(* Type correctness *)

LEMMA TypeInit == Init => TypeOK
  BY DEF Init, TypeOK, ConsumerSteps, SweepSteps

\* What the buffer holds are headlines.
LEMMA IngestedType ==
    ASSUME TypeOK
    PROVE  Ingested \subseteq Headlines /\ Latest \subseteq Headlines
<1>1. articles \in Seq(Headlines)
  BY DEF TypeOK
<1>2. \A i \in 1..Len(articles) : articles[i] \in Headlines
  BY <1>1
<1>3. DOMAIN articles = 1..Len(articles) /\ Len(articles) \in Nat
  BY <1>1
<1> QED BY <1>2, <1>3, QueueAssumption DEF Ingested, Latest

\* Noting what was read or given up keeps the notes' types.
LEMMA NotesType ==
    ASSUME TypeOK, NEW s, NEW read, read \subseteq Headlines, Skips(s) \/ Weighs(s, read)
    PROVE  weighed' \in [Symbols -> SUBSET Headlines] /\ skipped' \in [Symbols -> SUBSET Headlines]
  BY IngestedType DEF TypeOK, Skips, Weighs

LEMMA CrawlerType ==
    ASSUME TypeOK, Crawler
    PROVE  TypeOK'
<1>1. CASE FetchFeed
  BY <1>1 DEF FetchFeed, TypeOK, hookVars, sweepVars, noteVars, boundVars
<1>2. ASSUME NEW h \in Headlines, Ingest(h) PROVE TypeOK'
  <2>1. UNCHANGED <<pending, queue, consumer, held, evalBusy, fresh, sweep, sweepSym,
                    sweepNews, active, weighed, skipped, restarts>>
    BY <1>2 DEF Ingest, sweepVars, noteVars
  <2>2. seen' \subseteq Headlines /\ hashes' \subseteq Headlines /\ stored' \subseteq Headlines
        /\ items' \subseteq Headlines
    BY <1>2 DEF Ingest, IngestHeadline, TypeOK
  <2>3. article' \in Headlines \cup {None} /\ hits' \subseteq Symbols
        /\ storing' \in Symbols \cup {None}
    BY <1>2, RelevantAssumption DEF Ingest, IngestHeadline, TypeOK, hookVars
  <2>4. articles' = articles \/ articles' = <<h>> \o articles
    BY <1>2 DEF Ingest, IngestHeadline
  <2>5. articles' \in Seq(Headlines)
    <3>1. articles \in Seq(Headlines)
      BY DEF TypeOK
    <3>2. <<h>> \in Seq(Headlines)
      OBVIOUS
    <3>3. <<h>> \o articles \in Seq(Headlines)
      BY <3>1, <3>2, ConcatProperties
    <3> QED BY <2>4, <3>1, <3>3
  <2>6. faults' \in Nat
    BY <1>2 DEF Ingest, IngestHeadline, Fails, TypeOK
  <2> QED BY <2>1, <2>2, <2>3, <2>5, <2>6 DEF TypeOK
<1>3. ASSUME NEW s \in Symbols, HookMarks(s) PROVE TypeOK'
  BY <1>3 DEF HookMarks, MarkPending, TypeOK, crawlVars, sweepVars, noteVars, boundVars
<1>4. CASE HookSends
  <2>1. UNCHANGED <<seen, articles, stored, hashes, items, article, hits, consumer, held,
                    evalBusy, fresh, sweep, sweepSym, sweepNews, active, faults, restarts>>
    BY <1>4 DEF HookSends, crawlVars, sweepVars, boundVars
  <2>2. storing \in Symbols /\ storing' = None
    BY <1>4 DEF HookSends, Enqueue, TypeOK
  <2>3. queue' \in Seq(Symbols) /\ pending' \subseteq Symbols
    <3>1. queue \in Seq(Symbols) /\ pending \subseteq Symbols
      BY DEF TypeOK
    <3>2. Append(queue, storing) \in Seq(Symbols)
      BY <2>2, <3>1
    <3>3. queue' \in {queue, Append(queue, storing)} /\ pending' \subseteq pending
      BY <1>4 DEF HookSends, Enqueue
    <3> QED BY <3>1, <3>2, <3>3
  <2>4. weighed' \in [Symbols -> SUBSET Headlines] /\ skipped' \in [Symbols -> SUBSET Headlines]
    <3>1. UNCHANGED noteVars \/ Skips(storing)
      BY <1>4 DEF HookSends, Enqueue
    <3>2. CASE UNCHANGED noteVars
      BY <3>2 DEF noteVars, TypeOK
    <3> QED BY <3>1, <3>2, NotesType
  <2> QED BY <2>1, <2>2, <2>3, <2>4 DEF TypeOK
<1>5. CASE HookReturns
  BY <1>5 DEF HookReturns, TypeOK, crawlVars, sweepVars, noteVars, boundVars
<1> QED BY <1>1, <1>2, <1>3, <1>4, <1>5 DEF Crawler

LEMMA ConsumerType ==
    ASSUME TypeOK, Consumer
    PROVE  TypeOK'
<1>1. UNCHANGED <<seen, articles, stored, hashes, items, article, hits, storing,
                  sweep, sweepSym, sweepNews, faults, restarts>>
  BY DEF Consumer, Dequeue, ConsumerTakes, Debounce, ConsumerLocks, ConsumerReads,
     ConsumerReturns, crawlVars, hookVars, sweepVars, boundVars
<1>2. queue' \in Seq(Symbols) /\ held' \in Symbols \cup {None} /\ consumer' \in ConsumerSteps
      /\ (consumer' # "wait" => held' # None)
  <2>1. CASE Dequeue
    <3>1. Head(queue) \in Symbols /\ Tail(queue) \in Seq(Symbols)
      BY <2>1 DEF Dequeue, TypeOK
    <3> QED BY <2>1, <3>1, NoneAssumption DEF Dequeue, ConsumerSteps
  <2>2. CASE ConsumerTakes \/ Debounce \/ ConsumerLocks \/ ConsumerReads \/ ConsumerReturns
    <3>1. queue' = queue /\ held' = held
          /\ consumer \in ConsumerSteps \ {"wait"} /\ consumer' \in ConsumerSteps
      BY <2>2 DEF ConsumerTakes, Undefer, Debounce, ConsumerLocks, ConsumerReads,
         ConsumerReturns, ConsumerGoes, ConsumerSteps
    <3> QED BY <3>1 DEF TypeOK
  <2> QED BY <2>1, <2>2 DEF Consumer
<1>3. held # None => held \in Symbols
  BY DEF TypeOK
<1>4. pending' \subseteq Symbols /\ evalBusy' \subseteq Symbols /\ fresh' \subseteq Symbols
      /\ active' \subseteq Symbols
  <2>1. CASE Dequeue \/ ConsumerTakes
    BY <2>1 DEF Dequeue, ConsumerTakes, Undefer, TypeOK
  <2>2. CASE Debounce
    BY <2>2 DEF Debounce, TypeOK
  <2>3. CASE ConsumerLocks
    BY <1>3, <2>3 DEF ConsumerLocks, TypeOK
  <2>4. CASE ConsumerReads
    BY <1>3, <2>4 DEF ConsumerReads, TypeOK
  <2>5. CASE ConsumerReturns
    BY <1>3, <2>5 DEF ConsumerReturns, Returned, TypeOK
  <2> QED BY <2>1, <2>2, <2>3, <2>4, <2>5 DEF Consumer
<1>5. weighed' \in [Symbols -> SUBSET Headlines] /\ skipped' \in [Symbols -> SUBSET Headlines]
  <2>1. UNCHANGED noteVars \/ Skips(held) \/ Weighs(held, Latest)
    BY DEF Consumer, Dequeue, ConsumerTakes, Debounce, ConsumerLocks, ConsumerReads,
       ConsumerReturns
  <2>2. CASE UNCHANGED noteVars
    BY <2>2 DEF noteVars, TypeOK
  <2> QED BY <2>1, <2>2, NotesType, IngestedType
<1> QED BY <1>1, <1>2, <1>4, <1>5 DEF TypeOK

LEMMA SweeperType ==
    ASSUME TypeOK, Sweeper
    PROVE  TypeOK'
<1>1. UNCHANGED <<seen, articles, stored, hashes, items, article, hits, storing, queue,
                  consumer, held, faults, restarts, pending>>
  BY DEF Sweeper, SweepStarts, SweepVisits, SweepLocks, SweepReturns, SweepEnds, Returned,
     crawlVars, hookVars, boundVars
<1>2. sweepNews' \subseteq Headlines
  BY IngestedType DEF Sweeper, SweepStarts, SweepVisits, SweepLocks, SweepReturns, SweepEnds,
     SweepGoes, TypeOK
<1>3. sweep' \in SweepSteps /\ sweepSym' \in Symbols \cup {None}
      /\ (sweep' \in {"lock", "evaluating"} => sweepSym' # None)
  BY NoneAssumption DEF Sweeper, SweepStarts, SweepVisits, SweepLocks, SweepReturns, SweepEnds,
     SweepGoes, SweepSteps, TypeOK
<1>4. sweepSym # None => sweepSym \in Symbols
  BY DEF TypeOK
<1>5. evalBusy' \subseteq Symbols /\ fresh' \subseteq Symbols /\ active' \subseteq Symbols
  BY <1>4 DEF Sweeper, SweepStarts, SweepVisits, SweepLocks, SweepReturns, SweepEnds, Returned,
     TypeOK
<1>6. weighed' \in [Symbols -> SUBSET Headlines] /\ skipped' \in [Symbols -> SUBSET Headlines]
  <2>1. UNCHANGED noteVars \/ Weighs(sweepSym, sweepNews)
    BY DEF Sweeper, SweepStarts, SweepVisits, SweepLocks, SweepReturns, SweepEnds
  <2>2. CASE UNCHANGED noteVars
    BY <2>2 DEF noteVars, TypeOK
  <2>3. sweepNews \subseteq Headlines
    BY DEF TypeOK
  <2> QED BY <2>1, <2>2, <2>3, NotesType
<1> QED BY <1>1, <1>2, <1>3, <1>5, <1>6 DEF TypeOK

LEMMA WorldType ==
    ASSUME TypeOK, World
    PROVE  TypeOK'
<1>1. ASSUME NEW s \in Symbols, DebounceEnds(s) \/ SignalCloses(s) PROVE TypeOK'
  <2>1. UNCHANGED <<seen, articles, stored, hashes, items, article, hits, storing, pending,
                    queue, consumer, held, evalBusy, sweep, sweepSym, sweepNews, weighed,
                    skipped, faults, restarts>>
    BY <1>1 DEF DebounceEnds, SignalCloses, crawlVars, hookVars, sweepVars, noteVars, boundVars
  <2>2. fresh' \subseteq fresh /\ active' \subseteq active
    BY <1>1 DEF DebounceEnds, SignalCloses
  <2> QED BY <2>1, <2>2 DEF TypeOK
<1>2. CASE Restart
  <2>1. stored \subseteq Headlines
    BY DEF TypeOK
  <2>2. articles' \in Seq(Headlines)
    <3>1. PICK q \in [1..Cardinality(stored) -> stored] : articles' = q
      BY <1>2 DEF Restart, InSomeOrder
    <3>2. CASE Cardinality(stored) \in Nat
      BY <2>1, <3>1, <3>2, SeqDef
    <3>3. Cardinality(stored) \in Nat
      BY <2>1, FiniteAssumption, FS_Subset, FS_CardinalityType
    <3> QED BY <3>2, <3>3
  <2> QED BY <1>2, <2>1, <2>2 DEF Restart, TypeOK, ConsumerSteps, SweepSteps
<1> QED BY <1>1, <1>2 DEF World

LEMMA TypeStep ==
    ASSUME TypeOK, [Next]_vars
    PROVE  TypeOK'
<1>1. CASE UNCHANGED vars
  BY <1>1 DEF TypeOK, vars, crawlVars, hookVars, sweepVars, noteVars, boundVars
<1> QED BY <1>1, CrawlerType, ConsumerType, SweeperType, WorldType DEF Next

\* Every variable keeps its shape, whatever the news and however often the
\* process starts again.
THEOREM TypeCorrect == Spec => []TypeOK
<1>1. Init => TypeOK
  BY TypeInit
<1>2. TypeOK /\ [Next]_vars => TypeOK'
  BY TypeStep
<1> QED BY <1>1, <1>2, PTL DEF Spec

---------------------------------------------------------------------------
(* The queue and its set of pending symbols *)

\* A symbol joins the queue at its end, and leaves it from its head.
LEMMA AppendPlaces ==
    ASSUME NEW q \in Seq(Symbols), NEW s \in Symbols
    PROVE  LET r == Append(q, s)
           IN  /\ {r[i] : i \in DOMAIN r} = {q[i] : i \in DOMAIN q} \cup {s}
               /\ (\A i, j \in DOMAIN q : q[i] = q[j] => i = j)
                  /\ s \notin {q[i] : i \in DOMAIN q}
                     => \A i, j \in DOMAIN r : r[i] = r[j] => i = j
<1> DEFINE r == Append(q, s)
           n == Len(q)
<1>1. n \in Nat /\ DOMAIN q = 1..n /\ DOMAIN r = 1..(n + 1)
  OBVIOUS
<1>2. (\A i \in 1..n : r[i] = q[i]) /\ r[n + 1] = s
  OBVIOUS
<1> HIDE DEF r, n
<1>3. \A i \in 1..(n + 1) : i \in 1..n \/ i = n + 1
  BY <1>1
<1>4. 1..n \subseteq 1..(n + 1) /\ n + 1 \in 1..(n + 1)
  BY <1>1
<1>5. {r[i] : i \in DOMAIN r} = {q[i] : i \in DOMAIN q} \cup {s}
  BY <1>1, <1>2, <1>3, <1>4
<1>6. ASSUME \A i, j \in DOMAIN q : q[i] = q[j] => i = j,
             s \notin {q[i] : i \in DOMAIN q},
             NEW i \in DOMAIN r, NEW j \in DOMAIN r, r[i] = r[j]
      PROVE  i = j
  BY <1>1, <1>2, <1>3, <1>6
<1> QED BY <1>5, <1>6 DEF r

LEMMA TailPlaces ==
    ASSUME NEW q \in Seq(Symbols), q # << >>,
           \A i, j \in DOMAIN q : q[i] = q[j] => i = j
    PROVE  LET r == Tail(q)
           IN  /\ {r[i] : i \in DOMAIN r} = {q[i] : i \in DOMAIN q} \ {Head(q)}
               /\ Head(q) \in {q[i] : i \in DOMAIN q}
               /\ \A i, j \in DOMAIN r : r[i] = r[j] => i = j
<1> DEFINE r == Tail(q)
           n == Len(q)
<1>1. n \in Nat \ {0} /\ DOMAIN q = 1..n /\ DOMAIN r = 1..(n - 1) /\ Head(q) = q[1]
  OBVIOUS
<1>2. \A i \in 1..(n - 1) : r[i] = q[i + 1]
  OBVIOUS
<1> HIDE DEF r, n
<1>3. \A i \in 1..(n - 1) : i + 1 \in 1..n /\ i + 1 # 1
  BY <1>1
<1>4. \A i \in 1..n : i = 1 \/ (i - 1 \in 1..(n - 1) /\ (i - 1) + 1 = i)
  BY <1>1
<1>5. 1 \in 1..n
  BY <1>1
<1>6. ASSUME NEW i \in DOMAIN r PROVE r[i] \in {q[k] : k \in DOMAIN q} \ {Head(q)}
  BY <1>1, <1>2, <1>3, <1>5, <1>6
<1>7. ASSUME NEW k \in DOMAIN q, q[k] # Head(q) PROVE q[k] \in {r[i] : i \in DOMAIN r}
  <2>1. k - 1 \in DOMAIN r /\ (k - 1) + 1 = k
    BY <1>1, <1>4, <1>7
  <2> QED BY <1>1, <1>2, <2>1
<1>8. ASSUME NEW i \in DOMAIN r, NEW j \in DOMAIN r, r[i] = r[j] PROVE i = j
  <2>1. q[i + 1] = q[j + 1] /\ i + 1 \in DOMAIN q /\ j + 1 \in DOMAIN q
    BY <1>1, <1>2, <1>3, <1>8
  <2>2. i + 1 = j + 1
    BY <2>1
  <2> QED BY <1>1, <2>2
<1>9. Head(q) \in {q[i] : i \in DOMAIN q}
  BY <1>1, <1>5
<1> QED BY <1>6, <1>7, <1>8, <1>9 DEF r

LEMMA PendingInit == Init => PendingIsQueued
  BY DEF Init, PendingIsQueued, Queued

LEMMA PendingStep ==
    ASSUME TypeOK, PendingIsQueued, [Next]_vars
    PROVE  PendingIsQueued'
<1> USE DEF PendingIsQueued
<1>1. ASSUME UNCHANGED <<pending, queue, storing, held>>,
             consumer' = consumer \/ (consumer # "got" /\ consumer' # "got")
      PROVE  PendingIsQueued'
  BY <1>1 DEF Queued
<1>2. CASE UNCHANGED vars
  BY <1>1, <1>2 DEF vars, hookVars
<1>3. ASSUME NEW s \in Symbols, HookMarks(s) PROVE PendingIsQueued'
  <2>1. UNCHANGED <<queue, consumer, held>> /\ storing = None
    BY <1>3 DEF HookMarks, MarkPending
  <2>2. Queued' = Queued
    BY <2>1 DEF Queued
  <2>3. CASE s \in pending
    BY <1>1, <1>3, <2>1, <2>3 DEF HookMarks, MarkPending
  <2>4. CASE s \notin pending
    <3>1. pending' = pending \cup {s} /\ storing' = s
      BY <1>3, <2>4 DEF HookMarks, MarkPending
    <3> QED BY <2>1, <2>2, <2>4, <3>1, NoneAssumption
  <2> QED BY <2>3, <2>4
<1>4. CASE HookSends
  <2>1. UNCHANGED <<consumer, held>> /\ storing \in Symbols /\ storing' = None
        /\ queue \in Seq(Symbols)
    BY <1>4 DEF HookSends, Enqueue, TypeOK
  <2>2. CASE queue' = Append(queue, storing) /\ pending' = pending
    <3>1. Queued' = Queued \cup {storing}
      BY <2>1, <2>2, AppendPlaces DEF Queued
    <3>2. \A i, j \in DOMAIN queue' : queue'[i] = queue'[j] => i = j
      BY <2>1, <2>2, AppendPlaces DEF Queued
    <3>3. None \notin Queued'
      <4>1. Queued \subseteq Symbols
        BY <2>1 DEF Queued
      <4> QED BY <2>1, <3>1, <4>1, NoneAssumption
    <3> QED BY <2>1, <2>2, <3>1, <3>2, <3>3, TypeStep, <1>4, NoneAssumption DEF TypeOK
  <2>3. CASE queue' = queue /\ pending' = pending \ {storing}
    <3>1. Queued' = Queued
      BY <2>3 DEF Queued
    <3>2. Queued \subseteq Symbols
      BY <2>1 DEF Queued
    <3> QED BY <2>1, <2>3, <3>1, <3>2, NoneAssumption DEF TypeOK
  <2> QED BY <1>4, <2>2, <2>3 DEF HookSends, Enqueue
<1>5. CASE Dequeue
  <2>1. queue \in Seq(Symbols) /\ queue # << >> /\ queue' = Tail(queue)
        /\ held' = Head(queue) /\ consumer = "wait" /\ consumer' = "got"
        /\ UNCHANGED <<pending, storing>>
    BY <1>5 DEF Dequeue, TypeOK, hookVars
  <2>2. Queued' = Queued \ {held'} /\ held' \in Queued
    <3>1. LET r == Tail(queue)
          IN  /\ {r[i] : i \in DOMAIN r} = {queue[i] : i \in DOMAIN queue} \ {Head(queue)}
              /\ Head(queue) \in {queue[i] : i \in DOMAIN queue}
      BY <2>1, TailPlaces
    <3>2. queue' = Tail(queue) /\ held' = Head(queue)
      BY <2>1
    <3> QED BY <3>1, <3>2 DEF Queued
  <2>3. \A i, j \in DOMAIN queue' : queue'[i] = queue'[j] => i = j
    BY <2>1, TailPlaces
  <2> QED BY <2>1, <2>2, <2>3
<1>6. CASE ConsumerTakes
  <2>1. UNCHANGED <<queue, storing, held>> /\ consumer = "got" /\ consumer' = "check"
        /\ pending' = pending \ {held}
    BY <1>6 DEF ConsumerTakes, Undefer, ConsumerGoes, hookVars
  <2>2. Queued' = Queued
    BY <2>1 DEF Queued
  <2> QED BY <2>1, <2>2
<1>7. CASE Restart
  BY <1>7 DEF Restart, Queued
<1>8. CASE FetchFeed \/ HookReturns \/ \E h \in Headlines : Ingest(h)
  <2>1. UNCHANGED <<pending, queue, storing, held, consumer>>
    BY <1>8 DEF FetchFeed, HookReturns, Ingest, IngestHeadline, hookVars
  <2> QED BY <1>1, <2>1
<1>9. CASE Debounce \/ ConsumerLocks \/ ConsumerReads \/ ConsumerReturns
  <2>1. UNCHANGED <<pending, queue, storing, held>> /\ consumer # "got" /\ consumer' # "got"
    BY <1>9 DEF Debounce, ConsumerLocks, ConsumerReads, ConsumerReturns, Returned,
       ConsumerGoes, hookVars
  <2> QED BY <1>1, <2>1
<1>10. CASE Sweeper
  <2>1. UNCHANGED <<pending, queue, storing, held, consumer>>
    BY <1>10 DEF Sweeper, SweepStarts, SweepVisits, SweepLocks, SweepReturns, SweepEnds,
       Returned, hookVars
  <2> QED BY <1>1, <2>1
<1>11. CASE \E s \in Symbols : DebounceEnds(s) \/ SignalCloses(s)
  <2>1. UNCHANGED <<pending, queue, storing, held, consumer>>
    BY <1>11 DEF DebounceEnds, SignalCloses, hookVars
  <2> QED BY <1>1, <2>1
<1> QED BY <1>2, <1>3, <1>4, <1>5, <1>6, <1>7, <1>8, <1>9, <1>10, <1>11
     DEF Next, Crawler, Consumer, World

\* A symbol is pending exactly while its one event is on its way to the
\* consumer: no symbol is queued twice, and none stays marked with no event.
THEOREM PendingMeansQueued == Spec => []PendingIsQueued
<1>1. Init => PendingIsQueued
  BY PendingInit
<1>2. TypeOK /\ PendingIsQueued /\ [Next]_vars => PendingIsQueued'
  BY PendingStep
<1> QED BY <1>1, <1>2, TypeCorrect, PTL DEF Spec

\* Distinct symbols, and one more about to be sent: the queue is shorter than
\* the universe.
LEMMA QueueShort ==
    ASSUME TypeOK, PendingIsQueued
    PROVE  NeverFoundFull
<1>1. SUFFICES ASSUME Cardinality(Symbols) <= QueueCap, storing # None
               PROVE  Len(queue) < QueueCap
  BY DEF NeverFoundFull
<1> DEFINE n == Len(queue)
           others == Symbols \ {storing}
<1>2. queue \in Seq(Symbols) /\ storing \in Symbols /\ n \in Nat /\ DOMAIN queue = 1..n
  BY <1>1 DEF TypeOK
<1>3. IsFiniteSet(others) /\ Cardinality(others) = Cardinality(Symbols) - 1
      /\ Cardinality(Symbols) \in Nat
  BY <1>2, FiniteAssumption, FS_RemoveElement, FS_CardinalityType
<1>4. IsFiniteSet(1..n) /\ Cardinality(1..n) = n
  BY <1>2, FS_Interval
<1>5. queue \in [1..n -> others]
  <2>1. \A i \in 1..n : queue[i] \in Symbols /\ queue[i] # storing
    BY <1>2 DEF PendingIsQueued, Queued
  <2>2. queue \in [1..n -> Symbols]
    BY <1>2
  <2> QED BY <2>1, <2>2
<1>6. \A i, j \in 1..n : queue[i] = queue[j] => i = j
  BY <1>2 DEF PendingIsQueued
<1> HIDE DEF n, others
<1>7. ~(Cardinality(others) < Cardinality(1..n))
  <2>1. SUFFICES ASSUME Cardinality(others) < Cardinality(1..n) PROVE FALSE
    OBVIOUS
  <2>2. \E x, y \in 1..n : x # y /\ queue[x] = queue[y]
    BY <1>3, <1>4, <1>5, <2>1, FS_PigeonHole, Zenon
  <2> QED BY <1>6, <2>2
<1>8. n < QueueCap
  BY <1>1, <1>2, <1>3, <1>4, <1>7, QueueAssumption
<1> QED BY <1>8 DEF n

\* With a place for each symbol the queue is never found full: no symbol is
\* ever dropped for want of room, however much news comes in.
THEOREM NeverFull == Spec => []NeverFoundFull
<1>1. TypeOK /\ PendingIsQueued => NeverFoundFull
  BY QueueShort
<1> QED BY <1>1, TypeCorrect, PendingMeansQueued, PTL

---------------------------------------------------------------------------
(* Coalescing *)

\* A headline stays settled while the buffer and the notes only grow.
LEMMA SettledKept ==
    ASSUME NEW h \in Headlines, NEW s \in Symbols, Settled(h, s),
           articles' = articles,
           weighed[s] \subseteq weighed'[s], skipped[s] \subseteq skipped'[s]
    PROVE  Settled(h, s)'
  BY DEF Settled, PushedOut

\* What is noted is never forgotten.
LEMMA NotesGrow ==
    ASSUME TypeOK, NEW r \in Symbols, NEW read, Skips(r) \/ Weighs(r, read)
    PROVE  \A s \in Symbols : weighed[s] \subseteq weighed'[s] /\ skipped[s] \subseteq skipped'[s]
  BY DEF TypeOK, Skips, Weighs

LEMMA SkippedSettles ==
    ASSUME TypeOK, NEW s \in Symbols, NEW h \in Ingested, Skips(s)
    PROVE  Settled(h, s)'
  BY DEF TypeOK, Skips, Settled

\* The evaluation that starts now reads the headline, or newer ones are in front.
LEMMA WeighedSettles ==
    ASSUME TypeOK, NEW s \in Symbols, NEW h \in Ingested, Weighs(s, Latest), articles' = articles
    PROVE  Settled(h, s)'
<1>1. PICK i \in DOMAIN articles : articles[i] = h
  BY DEF Ingested
<1>2. Len(articles) \in Nat /\ DOMAIN articles = 1..Len(articles)
  BY DEF TypeOK
<1>3. CASE i > Window
  BY <1>1, <1>3 DEF Settled, PushedOut
<1>4. CASE ~(i > Window)
  <2>1. h \in Latest
    BY <1>1, <1>2, <1>4, QueueAssumption DEF Latest
  <2>2. h \in weighed'[s]
    BY <2>1 DEF Weighs, TypeOK
  <2> QED BY <2>2 DEF Settled
<1> QED BY <1>3, <1>4

\* A step that leaves the buffer alone loses no news when whatever was on its
\* way is still, or is settled.
LEMMA LosesNothing ==
    ASSUME TypeOK, CoalescingLosesNothing, articles' = articles,
           \A s \in Symbols : weighed[s] \subseteq weighed'[s] /\ skipped[s] \subseteq skipped'[s],
           \A h \in Ingested : \A s \in Relevant[h] :
               OnItsWay(h, s) => OnItsWay(h, s)' \/ Settled(h, s)'
    PROVE  CoalescingLosesNothing'
<1>1. Ingested' = Ingested
  BY DEF Ingested
<1>2. SUFFICES ASSUME NEW h \in Ingested, NEW s \in Relevant[h]
               PROVE  Settled(h, s)' \/ OnItsWay(h, s)'
  BY <1>1 DEF CoalescingLosesNothing
<1>3. h \in Headlines /\ s \in Symbols
  BY <1>2, IngestedType, RelevantAssumption
<1>4. CASE Settled(h, s)
  BY <1>3, <1>4, SettledKept
<1>5. CASE OnItsWay(h, s)
  BY <1>2, <1>5
<1> QED BY <1>2, <1>4, <1>5 DEF CoalescingLosesNothing

LEMMA CoalescingInit == Init => CoalescingLosesNothing
  BY DEF Init, CoalescingLosesNothing, Ingested

\* A new headline goes to the front, and its relevant symbols to the hook.
LEMMA CoalescingIngest ==
    ASSUME TypeOK, CoalescingLosesNothing, NEW g \in Headlines, Ingest(g)
    PROVE  CoalescingLosesNothing'
<1>1. UNCHANGED <<queue, consumer, held, storing, weighed, skipped>> /\ article = None
  BY DEF Ingest, IngestHeadline, hookVars, noteVars
<1>2. Queued' = Queued
  BY <1>1 DEF Queued
<1>3. CASE UNCHANGED <<articles, article, hits>>
  <2>1. \A h, s : OnItsWay(h, s) => OnItsWay(h, s)'
    BY <1>1, <1>2, <1>3 DEF OnItsWay
  <2> QED BY <1>1, <1>3, <2>1, LosesNothing
<1>4. CASE articles' = <<g>> \o articles /\ article' = g /\ hits' = Relevant[g]
  <2>1. articles \in Seq(Headlines) /\ Len(articles) \in Nat
        /\ DOMAIN articles = 1..Len(articles)
    BY DEF TypeOK
  <2>2. DOMAIN articles' = 1..(Len(articles) + 1) /\ articles'[1] = g
        /\ \A i \in 1..Len(articles) : articles'[i + 1] = articles[i]
    BY <1>4, <2>1
  <2>3. \A i \in 1..(Len(articles) + 1) : i = 1 \/ (i - 1 \in 1..Len(articles) /\ (i - 1) + 1 = i)
    BY <2>1
  <2>4. Ingested' \subseteq Ingested \cup {g}
    <3>1. SUFFICES ASSUME NEW i \in DOMAIN articles', articles'[i] # g
                   PROVE  articles'[i] \in Ingested
      BY DEF Ingested
    <3>2. i - 1 \in DOMAIN articles /\ articles'[(i - 1) + 1] = articles[i - 1] /\ (i - 1) + 1 = i
      BY <2>1, <2>2, <2>3, <3>1
    <3> QED BY <3>2 DEF Ingested
  <2>5. SUFFICES ASSUME NEW h \in Ingested', NEW s \in Relevant[h]
                 PROVE  Settled(h, s)' \/ OnItsWay(h, s)'
    BY DEF CoalescingLosesNothing
  <2>6. CASE h = g
    BY <1>4, <2>5, <2>6 DEF OnItsWay
  <2>7. CASE h \in Ingested
    <3>1. Settled(h, s) \/ OnItsWay(h, s)
      BY <2>5, <2>7 DEF CoalescingLosesNothing
    <3>2. CASE OnItsWay(h, s)
      <4>1. h # None
        BY <2>7, IngestedType, NoneAssumption
      <4> QED BY <1>1, <1>2, <3>2, <4>1 DEF OnItsWay
    <3>3. CASE h \in weighed[s] \cup skipped[s]
      BY <1>1, <3>3 DEF Settled
    <3>4. CASE PushedOut(h)
      <4>1. PICK i \in DOMAIN articles : articles[i] = h /\ i > Window
        BY <3>4 DEF PushedOut
      <4>2. i + 1 \in DOMAIN articles' /\ articles'[i + 1] = h /\ i + 1 > Window
        BY <2>1, <2>2, <4>1, QueueAssumption
      <4> QED BY <4>2 DEF Settled, PushedOut
    <3> QED BY <3>1, <3>2, <3>3, <3>4 DEF Settled
  <2> QED BY <2>4, <2>5, <2>6, <2>7
<1>5. UNCHANGED <<articles, article, hits>>
      \/ (articles' = <<g>> \o articles /\ article' = g /\ hits' = Relevant[g])
  BY DEF Ingest, IngestHeadline, hookVars
<1> QED BY <1>3, <1>4, <1>5

LEMMA CoalescingHook ==
    ASSUME TypeOK, PendingIsQueued, CoalescingLosesNothing,
           FetchFeed \/ HookSends \/ HookReturns \/ \E s \in Symbols : HookMarks(s)
    PROVE  CoalescingLosesNothing'
<1>1. articles' = articles /\ UNCHANGED <<consumer, held>>
  BY DEF FetchFeed, HookSends, HookReturns, HookMarks, crawlVars
<1>2. \A h \in Ingested : \A s \in Relevant[h] : h \in Headlines /\ s \in Symbols
  BY IngestedType, RelevantAssumption
<1>3. CASE FetchFeed \/ HookReturns
  <2>1. UNCHANGED <<queue, storing, weighed, skipped, hits>>
    BY <1>3 DEF FetchFeed, HookReturns, hookVars, noteVars
  <2>2. Queued' = Queued
    BY <2>1 DEF Queued
  <2>3. UNCHANGED article \/ hits = {}
    BY <1>3 DEF FetchFeed, HookReturns, hookVars
  <2>4. \A h, s : OnItsWay(h, s) => OnItsWay(h, s)'
    BY <1>1, <2>1, <2>2, <2>3 DEF OnItsWay
  <2> QED BY <1>1, <2>1, <2>4, LosesNothing
<1>4. ASSUME NEW t \in Symbols, HookMarks(t) PROVE CoalescingLosesNothing'
  <2>1. UNCHANGED <<queue, article, weighed, skipped>> /\ storing = None /\ hits' = hits \ {t}
    BY <1>4 DEF HookMarks, MarkPending, noteVars
  <2>2. Queued' = Queued
    BY <2>1 DEF Queued
  <2>3. storing' = t \/ t \in Queued \/ (held = t /\ consumer = "got")
    <3>1. CASE t \in pending
      BY <2>1, <3>1 DEF PendingIsQueued
    <3>2. CASE t \notin pending
      BY <1>4, <3>2 DEF HookMarks, MarkPending
    <3> QED BY <3>1, <3>2
  <2>4. ASSUME NEW h \in Ingested, NEW s \in Relevant[h], OnItsWay(h, s)
        PROVE  OnItsWay(h, s)'
    <3>1. s # storing
      BY <1>2, <2>1, <2>4, NoneAssumption
    <3>2. CASE s = t
      BY <1>1, <2>2, <2>3, <3>2 DEF OnItsWay
    <3>3. CASE s # t
      BY <1>1, <2>1, <2>2, <2>4, <3>1, <3>3 DEF OnItsWay
    <3> QED BY <3>2, <3>3
  <2> QED BY <1>1, <2>1, <2>4, LosesNothing
<1>5. CASE HookSends
  <2>1. storing \in Symbols /\ queue \in Seq(Symbols) /\ UNCHANGED <<article, hits>>
    BY <1>5 DEF HookSends, Enqueue, TypeOK
  <2>2. UNCHANGED noteVars \/ Skips(storing)
    BY <1>5 DEF HookSends, Enqueue
  <2>3. \A s \in Symbols : weighed[s] \subseteq weighed'[s] /\ skipped[s] \subseteq skipped'[s]
    <3>1. CASE UNCHANGED noteVars
      BY <3>1 DEF noteVars
    <3> QED BY <2>1, <2>2, <3>1, NotesGrow
  <2>4. Queued' = Queued \cup {storing} \/ (Queued' = Queued /\ Skips(storing))
    <3>1. CASE queue' = Append(queue, storing)
      BY <2>1, <3>1, AppendPlaces DEF Queued
    <3>2. CASE queue' = queue /\ Skips(storing)
      BY <3>2 DEF Queued
    <3> QED BY <1>5, <3>1, <3>2 DEF HookSends, Enqueue
  <2>5. ASSUME NEW h \in Ingested, NEW s \in Relevant[h], OnItsWay(h, s)
        PROVE  OnItsWay(h, s)' \/ Settled(h, s)'
    <3>1. CASE s # storing
      BY <1>1, <2>1, <2>4, <2>5, <3>1 DEF OnItsWay
    <3>2. CASE s = storing /\ Skips(storing)
      BY <2>1, <2>5, <3>2, SkippedSettles
    <3>3. CASE s = storing /\ Queued' = Queued \cup {storing}
      BY <3>3 DEF OnItsWay
    <3> QED BY <2>4, <3>1, <3>2, <3>3
  <2> QED BY <1>1, <2>3, <2>5, LosesNothing
<1> QED BY <1>3, <1>4, <1>5

LEMMA CoalescingConsumer ==
    ASSUME TypeOK, CoalescingLosesNothing, Consumer
    PROVE  CoalescingLosesNothing'
<1>1. UNCHANGED <<articles, article, hits, storing>>
  BY DEF Consumer, Dequeue, ConsumerTakes, Debounce, ConsumerLocks, ConsumerReads,
     ConsumerReturns, crawlVars, hookVars
<1>2. \A h \in Ingested : \A s \in Relevant[h] : h \in Headlines /\ s \in Symbols
  BY IngestedType, RelevantAssumption
<1>3. held \in Symbols \/ consumer = "wait"
  BY DEF TypeOK
<1>4. CASE Dequeue
  <2>1. UNCHANGED <<weighed, skipped>> /\ consumer = "wait" /\ consumer' = "got"
        /\ held' = Head(queue) /\ queue' = Tail(queue) /\ queue # << >>
        /\ queue \in Seq(Symbols)
    BY <1>4 DEF Dequeue, noteVars, TypeOK
  <2>2. \A s \in Queued : s = held' \/ s \in Queued'
    <3>1. SUFFICES ASSUME NEW i \in DOMAIN queue, queue[i] # Head(queue)
                   PROVE  \E j \in DOMAIN Tail(queue) : Tail(queue)[j] = queue[i]
      BY <2>1 DEF Queued
    <3>2. i \in 1..Len(queue) /\ i # 1 /\ Len(queue) \in Nat
      BY <2>1, <3>1
    <3>3. i - 1 \in 1..(Len(queue) - 1) /\ (i - 1) + 1 = i
      BY <3>2
    <3>4. DOMAIN Tail(queue) = 1..(Len(queue) - 1)
          /\ \A j \in 1..(Len(queue) - 1) : Tail(queue)[j] = queue[j + 1]
      BY <2>1
    <3> QED BY <3>3, <3>4
  <2>3. \A h, s : OnItsWay(h, s) => OnItsWay(h, s)'
    BY <1>1, <2>1, <2>2 DEF OnItsWay
  <2> QED BY <1>1, <2>1, <2>3, LosesNothing
<1>5. CASE ConsumerTakes \/ ConsumerReturns
  <2>1. UNCHANGED <<queue, held, weighed, skipped>>
        /\ (consumer \in {"got", "check", "lock", "look"} => consumer' = "check")
    BY <1>5 DEF ConsumerTakes, Undefer, ConsumerReturns, Returned, ConsumerGoes, noteVars
  <2>2. Queued' = Queued
    BY <2>1 DEF Queued
  <2>3. \A h, s : OnItsWay(h, s) => OnItsWay(h, s)'
    BY <1>1, <2>1, <2>2 DEF OnItsWay
  <2> QED BY <1>1, <2>1, <2>3, LosesNothing
<1>6. CASE Debounce \/ ConsumerLocks \/ ConsumerReads
  <2>1. UNCHANGED <<queue, held>> /\ held \in Symbols
    BY <1>3, <1>6 DEF Debounce, ConsumerLocks, ConsumerReads, ConsumerGoes
  <2>2. Queued' = Queued
    BY <2>1 DEF Queued
  <2>3. Skips(held) \/ Weighs(held, Latest)
        \/ (UNCHANGED noteVars /\ consumer' \in {"lock", "look"})
    BY <1>6 DEF Debounce, ConsumerLocks, ConsumerReads, ConsumerGoes
  <2>4. \A s \in Symbols : weighed[s] \subseteq weighed'[s] /\ skipped[s] \subseteq skipped'[s]
    <3>1. CASE UNCHANGED noteVars
      BY <3>1 DEF noteVars
    <3> QED BY <2>1, <2>3, <3>1, NotesGrow
  <2>5. ASSUME NEW h \in Ingested, NEW s \in Relevant[h], OnItsWay(h, s)
        PROVE  OnItsWay(h, s)' \/ Settled(h, s)'
    <3>1. CASE s # held \/ consumer' \in {"lock", "look"}
      BY <1>1, <2>1, <2>2, <2>5, <3>1 DEF OnItsWay
    <3>2. CASE s = held /\ Skips(held)
      BY <2>1, <2>5, <3>2, SkippedSettles
    <3>3. CASE s = held /\ Weighs(held, Latest)
      BY <1>1, <2>1, <2>5, <3>3, WeighedSettles
    <3> QED BY <2>3, <3>1, <3>2, <3>3
  <2> QED BY <1>1, <2>4, <2>5, LosesNothing
<1> QED BY <1>4, <1>5, <1>6 DEF Consumer

LEMMA CoalescingElsewhere ==
    ASSUME TypeOK, CoalescingLosesNothing, Sweeper \/ World
    PROVE  CoalescingLosesNothing'
<1>1. CASE Sweeper
  <2>1. UNCHANGED <<articles, article, hits, storing, queue, consumer, held>>
    BY <1>1 DEF Sweeper, SweepStarts, SweepVisits, SweepLocks, SweepReturns, SweepEnds,
       crawlVars, hookVars
  <2>2. Queued' = Queued
    BY <2>1 DEF Queued
  <2>3. UNCHANGED noteVars \/ (sweepSym \in Symbols /\ Weighs(sweepSym, sweepNews))
    BY <1>1 DEF Sweeper, SweepStarts, SweepVisits, SweepLocks, SweepReturns, SweepEnds, TypeOK
  <2>4. \A s \in Symbols : weighed[s] \subseteq weighed'[s] /\ skipped[s] \subseteq skipped'[s]
    <3>1. CASE UNCHANGED noteVars
      BY <3>1 DEF noteVars
    <3> QED BY <2>3, <3>1, NotesGrow
  <2>5. \A h, s : OnItsWay(h, s) => OnItsWay(h, s)'
    BY <2>1, <2>2 DEF OnItsWay
  <2> QED BY <2>1, <2>4, <2>5, LosesNothing
<1>2. CASE \E s \in Symbols : DebounceEnds(s) \/ SignalCloses(s)
  <2>1. UNCHANGED <<articles, article, hits, storing, queue, consumer, held, weighed, skipped>>
    BY <1>2 DEF DebounceEnds, SignalCloses, crawlVars, hookVars, noteVars
  <2>2. Queued' = Queued
    BY <2>1 DEF Queued
  <2>3. \A h, s : OnItsWay(h, s) => OnItsWay(h, s)'
    BY <2>1, <2>2 DEF OnItsWay
  <2> QED BY <2>1, <2>3, LosesNothing
<1>3. CASE Restart
  <2>1. PICK q \in [1..Cardinality(stored) -> stored] : articles' = q
    BY <1>3 DEF Restart, InSomeOrder
  <2>2. Ingested' \subseteq stored
    BY <2>1 DEF Ingested
  <2>3. \A s \in Symbols : skipped'[s] = stored
    BY <1>3 DEF Restart
  <2>4. \A h \in Ingested' : \A s \in Relevant[h] : s \in Symbols
    BY <2>2, RelevantAssumption DEF TypeOK
  <2> QED BY <2>2, <2>3, <2>4 DEF CoalescingLosesNothing, Settled
<1> QED BY <1>1, <1>2, <1>3 DEF World

LEMMA CoalescingStep ==
    ASSUME TypeOK, PendingIsQueued, CoalescingLosesNothing, [Next]_vars
    PROVE  CoalescingLosesNothing'
<1>1. CASE UNCHANGED vars
  BY <1>1 DEF CoalescingLosesNothing, Ingested, Settled, PushedOut, OnItsWay, Queued, vars,
     crawlVars, hookVars, noteVars
<1> QED BY <1>1, CoalescingIngest, CoalescingHook, CoalescingConsumer, CoalescingElsewhere
     DEF Next, Crawler

\* No headline is lost to coalescing, debouncing, the per-symbol lock or the
\* sweep: it is weighed, given up knowingly, pushed out or on its way.
THEOREM NothingLost == Spec => []CoalescingLosesNothing
<1>1. Init => CoalescingLosesNothing
  BY CoalescingInit
<1>2. TypeOK /\ PendingIsQueued /\ CoalescingLosesNothing /\ [Next]_vars
      => CoalescingLosesNothing'
  BY CoalescingStep
<1> QED BY <1>1, <1>2, TypeCorrect, PendingMeansQueued, PTL DEF Spec
=============================================================================
