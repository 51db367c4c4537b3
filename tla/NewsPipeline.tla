---------------------------- MODULE NewsPipeline ----------------------------
(***************************************************************************)
(* From a headline in a feed to the evaluation it triggers: the crawler    *)
(* (internal/market/news_crawler.go), the queue of symbols with its set of *)
(* pending ones, the consumer of that queue (internal/server/news_events.go)*)
(* and the backstop sweep that shares its per-symbol lock and debounce     *)
(* (runBackgroundScan in internal/server/signal_handlers.go).              *)
(*                                                                         *)
(* The crawler is one goroutine that ingests an item under its lock and    *)
(* then calls the hook without it; the consumer is another, and the sweep  *)
(* a third.  An evaluation is the step that reads the headlines and the    *)
(* step that returns.                                                      *)
(***************************************************************************)
EXTENDS Integers, Sequences, FiniteSets

CONSTANTS
    Symbols,      \* the scan universe
    Headlines,    \* what the feeds list
    Relevant,     \* the symbols each headline is relevant to
    QueueCap,     \* capacity of newsQueue
    Window,       \* how many of the latest headlines an evaluation reads
    MaxFaults,    \* bound: classifications and stores that fail
    MaxRestarts   \* bound: restarts of the process

ASSUME FiniteAssumption == IsFiniteSet(Symbols) /\ IsFiniteSet(Headlines)
ASSUME RelevantAssumption == Relevant \in [Headlines -> SUBSET Symbols]
ASSUME QueueAssumption == QueueCap \in Nat \ {0} /\ Window \in Nat \ {0}
ASSUME FaultsAssumption == MaxFaults \in Nat /\ MaxRestarts \in Nat

VARIABLES
    seen,         \* seenHashes
    articles,     \* the crawler's buffer, newest first
    stored,       \* headlines in the news_articles table
    hashes,       \* headlines in the Redis set
    items,        \* what is left of the feed being fetched
    article, hits,\* the article the hook runs for, the symbols it has left
    storing,      \* the symbol it has marked pending and not yet sent, or None
    pending,      \* newsPending
    queue,        \* newsQueue
    consumer, held, \* the consumer's step and symbol
    evalBusy,     \* symbols being evaluated under lockSymbol
    fresh,        \* symbols evaluated less than NewsEventDebounce ago
    sweep, sweepSym, sweepNews, \* the sweep's step, symbol and headlines
    active,       \* symbols with an active signal
    weighed,      \* per symbol, the headlines some evaluation of it has read
    skipped,      \* per symbol, those an event for it was dropped with
    faults, restarts

crawlVars == <<seen, articles, stored, hashes, items>>
hookVars  == <<article, hits, storing>>
sweepVars == <<sweep, sweepSym, sweepNews>>
noteVars  == <<weighed, skipped>>
boundVars == <<faults, restarts>>
vars == <<crawlVars, hookVars, pending, queue, consumer, held, evalBusy, fresh,
          sweepVars, active, noteVars, boundVars>>

CONSTANT None
ASSUME NoneAssumption == None \notin Symbols /\ None \notin Headlines

ConsumerSteps == {"wait", "got", "check", "lock", "look", "evaluating"}
SweepSteps    == {"rest", "visit", "lock", "evaluating"}

Ingested == {articles[i] : i \in DOMAIN articles}

\* The headlines an evaluation that starts now reads.
Latest == {articles[i] : i \in 1..(IF Len(articles) < Window THEN Len(articles) ELSE Window)}

Fails == faults < MaxFaults /\ faults' = faults + 1

Skips(s) == skipped' = [skipped EXCEPT ![s] = @ \cup Ingested] /\ UNCHANGED weighed
Weighs(s, read) == weighed' = [weighed EXCEPT ![s] = @ \cup read] /\ UNCHANGED skipped

---------------------------------------------------------------------------
(* The crawler *)

FetchFeed ==
    /\ items = {} /\ article = None
    /\ items' = Headlines
    /\ UNCHANGED <<seen, articles, stored, hashes, hookVars, pending, queue, consumer,
                   held, evalBusy, fresh, sweepVars, active, noteVars, boundVars>>

\* The hash is marked seen, in memory and in Redis, before the headline is
\* classified.  A classification that fails gives up the rest of the feed.
\* What the database refuses is kept in memory all the same.
IngestHeadline(h) ==
    /\ h \in items /\ article = None
    /\ seen' = seen \cup {h}
    /\ IF h \in seen \cup hashes
       THEN /\ items' = items \ {h}
            /\ UNCHANGED <<articles, stored, hashes, hookVars, faults>>
       ELSE /\ hashes' = hashes \cup {h}
            /\ \/ /\ Fails \* the classifier
                  /\ items' = {}
                  /\ UNCHANGED <<articles, stored, hookVars>>
               \/ /\ \/ stored' = stored \cup {h} /\ UNCHANGED faults
                     \/ UNCHANGED stored /\ Fails \* the insert
                  /\ articles' = <<h>> \o articles
                  /\ items' = items \ {h}
                  /\ article' = h /\ hits' = Relevant[h]
                  /\ UNCHANGED storing

Ingest(h) ==
    /\ IngestHeadline(h)
    /\ UNCHANGED <<pending, queue, consumer, held, evalBusy, fresh, sweepVars, active,
                   noteVars, restarts>>

---------------------------------------------------------------------------
(* The hook: EnqueueNewsArticle *)

\* Mutant of MarkPending: a symbol that is pending is queued again.
MarkPendingAgain(s) ==
    /\ s \in hits /\ storing = None
    /\ hits' = hits \ {s}
    /\ pending' = pending \cup {s} /\ storing' = s
    /\ UNCHANGED article

\* LoadOrStore: a symbol that is pending already has its event.
MarkPending(s) ==
    /\ s \in hits /\ storing = None
    /\ hits' = hits \ {s}
    /\ IF s \in pending THEN UNCHANGED <<pending, storing>>
       ELSE pending' = pending \cup {s} /\ storing' = s
    /\ UNCHANGED article

HookMarks(s) ==
    /\ MarkPending(s)
    /\ UNCHANGED <<crawlVars, queue, consumer, held, evalBusy, fresh, sweepVars, active,
                   noteVars, boundVars>>

\* Mutant of Enqueue: a symbol that found no room stays pending.
EnqueueKeepsPending ==
    /\ storing # None /\ storing' = None
    /\ IF Len(queue) < QueueCap
       THEN queue' = Append(queue, storing) /\ UNCHANGED noteVars
       ELSE UNCHANGED queue /\ Skips(storing)
    /\ UNCHANGED pending

\* The send does not block: without room the symbol is dropped, and logged.
Enqueue ==
    /\ storing # None /\ storing' = None
    /\ IF Len(queue) < QueueCap
       THEN queue' = Append(queue, storing) /\ UNCHANGED <<pending, noteVars>>
       ELSE /\ pending' = pending \ {storing}
            /\ Skips(storing)
            /\ UNCHANGED queue

HookSends ==
    /\ Enqueue
    /\ UNCHANGED <<crawlVars, article, hits, consumer, held, evalBusy, fresh, sweepVars,
                   active, boundVars>>

HookReturns ==
    /\ article # None /\ hits = {} /\ storing = None
    /\ article' = None
    /\ UNCHANGED <<crawlVars, hits, storing, pending, queue, consumer, held, evalBusy,
                   fresh, sweepVars, active, noteVars, boundVars>>

---------------------------------------------------------------------------
(* The consumer *)

ConsumerGoes(step) == consumer' = step /\ UNCHANGED held

\* Mutant of Dequeue: the channel is closed, and receiving yields the zero value.
DequeueClosed ==
    /\ consumer = "wait" /\ consumer' = "got"
    /\ IF queue = << >> THEN held' = None /\ UNCHANGED queue
       ELSE held' = Head(queue) /\ queue' = Tail(queue)
    /\ UNCHANGED <<crawlVars, hookVars, pending, evalBusy, fresh, sweepVars, active,
                   noteVars, boundVars>>

Dequeue ==
    /\ consumer = "wait" /\ queue # << >>
    /\ held' = Head(queue) /\ queue' = Tail(queue)
    /\ consumer' = "got"
    /\ UNCHANGED <<crawlVars, hookVars, pending, evalBusy, fresh, sweepVars, active,
                   noteVars, boundVars>>

\* Mutant of Undefer: the mark is never taken back.
UndeferNever == consumer = "got" /\ ConsumerGoes("check") /\ UNCHANGED pending

\* The symbol is eligible again before the guards run.
Undefer == consumer = "got" /\ pending' = pending \ {held} /\ ConsumerGoes("check")

ConsumerTakes ==
    /\ Undefer
    /\ UNCHANGED <<crawlVars, hookVars, queue, evalBusy, fresh, sweepVars, active,
                   noteVars, boundVars>>

Debounce ==
    /\ consumer = "check"
    /\ IF held \in fresh THEN ConsumerGoes("wait") /\ Skips(held)
       ELSE ConsumerGoes("lock") /\ UNCHANGED noteVars
    /\ UNCHANGED <<crawlVars, hookVars, pending, queue, evalBusy, fresh, sweepVars,
                   active, boundVars>>

ConsumerLocks ==
    /\ consumer = "lock"
    /\ IF held \in evalBusy
       THEN ConsumerGoes("wait") /\ Skips(held) /\ UNCHANGED evalBusy
       ELSE ConsumerGoes("look") /\ evalBusy' = evalBusy \cup {held} /\ UNCHANGED noteVars
    /\ UNCHANGED <<crawlVars, hookVars, pending, queue, fresh, sweepVars, active, boundVars>>

\* A symbol with an active signal has nothing to decide; for any other the
\* headlines are read and the evaluation starts.
ConsumerReads ==
    /\ consumer = "look"
    /\ IF held \in active
       THEN /\ ConsumerGoes("wait") /\ evalBusy' = evalBusy \ {held}
            /\ Skips(held) /\ UNCHANGED fresh
       ELSE /\ ConsumerGoes("evaluating") /\ fresh' = fresh \cup {held}
            /\ Weighs(held, Latest) /\ UNCHANGED evalBusy
    /\ UNCHANGED <<crawlVars, hookVars, pending, queue, sweepVars, active, boundVars>>

\* It returns, with a signal or without; the lock goes with it.
Returned(s) == evalBusy' = evalBusy \ {s} /\ UNCHANGED pending

ConsumerReturns ==
    /\ consumer = "evaluating" /\ ConsumerGoes("wait")
    /\ Returned(held)
    /\ active' \in {active, active \cup {held}}
    /\ UNCHANGED <<crawlVars, hookVars, queue, fresh, sweepVars, noteVars, boundVars>>
---------------------------------------------------------------------------
(* The backstop sweep: runBackgroundScan *)

SweepGoes(step) == sweep' = step /\ UNCHANGED <<sweepSym, sweepNews>>

\* One read of the headlines serves every symbol of the sweep.
SweepStarts ==
    /\ sweep = "rest" /\ sweep' = "visit"
    /\ sweepNews' = Latest /\ UNCHANGED sweepSym
    /\ UNCHANGED <<crawlVars, hookVars, pending, queue, consumer, held, evalBusy, fresh,
                   active, noteVars, boundVars>>

\* A symbol with an active signal is passed over.
SweepVisits(s) ==
    /\ sweep = "visit" /\ s \notin active
    /\ sweep' = "lock" /\ sweepSym' = s /\ UNCHANGED sweepNews
    /\ UNCHANGED <<crawlVars, hookVars, pending, queue, consumer, held, evalBusy, fresh,
                   active, noteVars, boundVars>>

SweepLocks ==
    /\ sweep = "lock"
    /\ IF sweepSym \in evalBusy
       THEN SweepGoes("visit") /\ UNCHANGED <<evalBusy, fresh, noteVars>>
       ELSE /\ SweepGoes("evaluating")
            /\ evalBusy' = evalBusy \cup {sweepSym} /\ fresh' = fresh \cup {sweepSym}
            /\ Weighs(sweepSym, sweepNews)
    /\ UNCHANGED <<crawlVars, hookVars, pending, queue, consumer, held, active, boundVars>>

SweepReturns ==
    /\ sweep = "evaluating" /\ SweepGoes("visit")
    /\ Returned(sweepSym)
    /\ active' \in {active, active \cup {sweepSym}}
    /\ UNCHANGED <<crawlVars, hookVars, queue, consumer, held, fresh, noteVars, boundVars>>

\* Every symbol seen, or the cap reached.
SweepEnds ==
    /\ sweep = "visit" /\ SweepGoes("rest")
    /\ UNCHANGED <<crawlVars, hookVars, pending, queue, consumer, held, evalBusy, fresh,
                   active, noteVars, boundVars>>

---------------------------------------------------------------------------
(* The world around it *)

DebounceEnds(s) ==
    /\ s \in fresh /\ fresh' = fresh \ {s}
    /\ UNCHANGED <<crawlVars, hookVars, pending, queue, consumer, held, evalBusy,
                   sweepVars, active, noteVars, boundVars>>

SignalCloses(s) ==
    /\ s \in active /\ active' = active \ {s}
    /\ UNCHANGED <<crawlVars, hookVars, pending, queue, consumer, held, evalBusy, fresh,
                   sweepVars, noteVars, boundVars>>

InSomeOrder(S) ==
    {q \in [1..Cardinality(S) -> S] : \A h \in S : \E i \in DOMAIN q : q[i] = h}

\* The process starts again: the buffer and the seen hashes come from the
\* database, Redis keeps its set, what was queued is gone, and the hook is not
\* called for what the buffer is filled with.
Restart ==
    /\ restarts < MaxRestarts /\ restarts' = restarts + 1
    /\ seen' = stored /\ articles' \in InSomeOrder(stored)
    /\ items' = {} /\ article' = None /\ hits' = {} /\ storing' = None
    /\ pending' = {} /\ queue' = << >> /\ consumer' = "wait"
    /\ evalBusy' = {} /\ fresh' = {} /\ sweep' = "rest"
    /\ skipped' = [s \in Symbols |-> stored]
    /\ weighed' = [s \in Symbols |-> {}]
    /\ UNCHANGED <<stored, hashes, held, sweepSym, sweepNews, active, faults>>

---------------------------------------------------------------------------
Init ==
    /\ seen = {} /\ articles = << >> /\ stored = {} /\ hashes = {} /\ items = {}
    /\ article = None /\ hits = {} /\ storing = None
    /\ pending = {} /\ queue = << >> /\ consumer = "wait" /\ held = None
    /\ evalBusy = {} /\ fresh = {}
    /\ sweep = "rest" /\ sweepSym = None /\ sweepNews = {}
    /\ active = {} /\ faults = 0 /\ restarts = 0
    /\ weighed = [s \in Symbols |-> {}] /\ skipped = [s \in Symbols |-> {}]

Crawler == FetchFeed \/ HookSends \/ HookReturns
           \/ (\E h \in Headlines : Ingest(h)) \/ (\E s \in Symbols : HookMarks(s))

Consumer == Dequeue \/ ConsumerTakes \/ Debounce \/ ConsumerLocks \/ ConsumerReads
            \/ ConsumerReturns

Sweeper == SweepStarts \/ (\E s \in Symbols : SweepVisits(s)) \/ SweepLocks
           \/ SweepReturns \/ SweepEnds

World == (\E s \in Symbols : DebounceEnds(s) \/ SignalCloses(s)) \/ Restart

Next == Crawler \/ Consumer \/ Sweeper \/ World

Spec == Init /\ [][Next]_vars

\* The crawler polls on a ticker and the consumer loops; neither ever waits
\* for a lock.  Nothing is assumed of the sweep, which need not be configured.
FairSpec == Spec /\ WF_vars(Crawler) /\ WF_vars(Consumer)

---------------------------------------------------------------------------
(* Properties *)

Queued == {queue[i] : i \in DOMAIN queue}

\* An event for s whose evaluation has not read the headlines yet.
OnItsWay(h, s) ==
    \/ article = h /\ s \in hits
    \/ storing = s
    \/ s \in Queued
    \/ held = s /\ consumer \in {"got", "check", "lock", "look"}

\* Window newer headlines came in since.
PushedOut(h) == \E i \in DOMAIN articles : articles[i] = h /\ i > Window

Settled(h, s) == h \in weighed[s] \cup skipped[s] \/ PushedOut(h)

\* Variables keep their shape.
TypeOK ==
    /\ seen \subseteq Headlines /\ stored \subseteq Headlines
    /\ hashes \subseteq Headlines /\ items \subseteq Headlines
    /\ articles \in Seq(Headlines)
    /\ article \in Headlines \cup {None} /\ hits \subseteq Symbols
    /\ storing \in Symbols \cup {None}
    /\ pending \subseteq Symbols
    /\ queue \in Seq(Symbols)
    /\ consumer \in ConsumerSteps /\ held \in Symbols \cup {None}
    /\ consumer # "wait" => held # None
    /\ evalBusy \subseteq Symbols /\ fresh \subseteq Symbols
    /\ sweep \in SweepSteps /\ sweepSym \in Symbols \cup {None}
    /\ sweep \in {"lock", "evaluating"} => sweepSym # None
    /\ sweepNews \subseteq Headlines
    /\ active \subseteq Symbols
    /\ weighed \in [Symbols -> SUBSET Headlines]
    /\ skipped \in [Symbols -> SUBSET Headlines]
    /\ faults \in Nat /\ restarts \in Nat

\* "Pending = already queued" (news_events.go:72): a symbol is marked exactly
\* while an event for it is about to be sent, in the queue, or just out of it,
\* and the queue never holds a symbol twice.
PendingIsQueued ==
    /\ pending = Queued \cup ({storing} \ {None})
                 \cup (IF consumer = "got" THEN {held} ELSE {})
    /\ \A i, j \in DOMAIN queue : queue[i] = queue[j] => i = j
    /\ storing \notin Queued
    /\ consumer = "got" => held \notin Queued \cup {storing}

\* A queue with a place for each symbol of the universe is never found full:
\* 512 places do for a catalogue of fewer instruments, however much news comes.
NeverFoundFull ==
    Cardinality(Symbols) <= QueueCap => (storing # None => Len(queue) < QueueCap)

\* Folding the events of a symbol into one loses no news: a headline that is
\* relevant to it has been read by an evaluation, was given up with an event
\* that was dropped, has Window newer ones in front of it, or is about to be
\* read through an event on its way.
CoalescingLosesNothing ==
    \A h \in Ingested : \A s \in Relevant[h] : Settled(h, s) \/ OnItsWay(h, s)

\* No symbol goes deaf: every headline that comes in is settled in the end for
\* every symbol it is relevant to.
NewsIsSettled ==
    \A h \in Headlines : \A s \in Relevant[h] :
        (h \in Ingested) ~> (h \notin Ingested \/ Settled(h, s))

---------------------------------------------------------------------------
(* What the documentation says and the code does not do *)

\* "when new RSS articles or headlines are published, then the news daemon
\* ingests them ... and stores them" (specs/005, US4 scenario 1): a headline
\* the feeds keep listing is ingested in the end.
HeadlinesIngested == \A h \in Headlines : <>(h \in Ingested)
=============================================================================
