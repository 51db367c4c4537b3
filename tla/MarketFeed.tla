----------------------------- MODULE MarketFeed -----------------------------
(***************************************************************************)
(* The live feed (internal/market/live_feed.go) and its one consumer       *)
(* (cmd/trader/main.go): the feed polls every exchange, fills in what did  *)
(* not answer from its last quotes, and sends the quotes over a channel    *)
(* with room for FeedCap of them; the consumer puts each into the store    *)
(* the daemon, the handlers and the evaluator read prices from.            *)
(*                                                                         *)
(* A price is the number of the poll that fetched it; 0 is no price.       *)
(***************************************************************************)
EXTENDS Integers, SequencesExt

CONSTANTS
    Assets,          \* the catalog
    SourceOf,        \* the exchange an asset is fetched from
    FeedCap,         \* room of the channel: 250
    MaxPolls         \* bound: polls, the boot's own included

Sources == {SourceOf[a] : a \in Assets}

ASSUME FeedAssumption ==
    /\ IsFiniteSet(Assets)
    /\ SourceOf \in [Assets -> Sources]
    /\ FeedCap \in Nat \ {0}
    /\ MaxPolls \in Nat

VARIABLES
    polls,           \* how often the exchanges have been asked
    lastQuotes,      \* the feed's cache: the last price fetched of each asset
    feed,            \* "boot", then "first" until the first batch is sent
    sending,         \* what is left to send of the batch
    feedChan,        \* the channel
    priced,          \* the store: the price of each asset
    skipped          \* history: assets whose latest quote found no room

feedVars == <<polls, lastQuotes, feed, sending, feedChan, priced, skipped>>

Quote(a, at) == [asset |-> a, at |-> at]

---------------------------------------------------------------------------
(* The feed *)

\* The exchanges are asked at once; the quotes of those that answered come in
\* any order.
Fetched(sources) == {a \in Assets : SourceOf[a] \in sources}

\* What a pass leaves in the cache: what it fetched, and what was there.
Merged(sources) ==
    [a \in Assets |-> IF a \in Fetched(sources) THEN polls + 1 ELSE lastQuotes[a]]

\* The other assets that were ever fetched are filled in from the cache.
Cached(sources) == {a \in Assets \ Fetched(sources) : lastQuotes[a] > 0}

Batch(sources, order) ==
    [i \in DOMAIN order |-> Quote(order[i], Merged(sources)[order[i]])]

\* Mutant of FetchAllLiveTicks: a pass does not update the cache.
FetchAllUncached(sources) ==
    /\ polls < MaxPolls
    /\ polls' = polls + 1
    /\ lastQuotes' = IF feed = "boot" THEN Merged(sources) ELSE lastQuotes

FetchAllLiveTicks(sources) ==
    /\ polls < MaxPolls
    /\ polls' = polls + 1
    /\ lastQuotes' = Merged(sources)

\* Before anything else the boot stores a pass of its own.
InitialFetch(sources) ==
    /\ feed = "boot"
    /\ FetchAllLiveTicks(sources)
    /\ priced' = Merged(sources)
    /\ feed' = "first"
    /\ UNCHANGED <<sending, feedChan, skipped>>

\* Subscribe asks again at once, and then on every tick of its ticker, once
\* the batch before is out.
Poll(sources, order) ==
    /\ feed \in {"first", "ticking"}
    /\ sending = <<>>
    /\ FetchAllLiveTicks(sources)
    /\ sending' = Batch(sources, order)
    /\ feed' = IF feed = "first" THEN "blocking" ELSE "ticking"
    /\ UNCHANGED <<feedChan, priced, skipped>>

\* The first batch waits for room, a later one never does: a quote that finds
\* the channel full is gone.
Send ==
    /\ sending # <<>>
    /\ sending' = Tail(sending)
    /\ \/ /\ Len(feedChan) < FeedCap
          /\ feedChan' = Append(feedChan, Head(sending))
          /\ skipped' = skipped \ {Head(sending).asset}
       \/ /\ feed = "ticking" /\ Len(feedChan) = FeedCap
          /\ skipped' = skipped \cup {Head(sending).asset}
          /\ UNCHANGED feedChan
    /\ UNCHANGED <<polls, lastQuotes, feed, priced>>

FirstBatchSent ==
    /\ feed = "blocking" /\ sending = <<>>
    /\ feed' = "ticking"
    /\ UNCHANGED <<polls, lastQuotes, sending, feedChan, priced, skipped>>

\* IngestTick stores the quote; the daemon's pass over every position
\* (Guardian) follows before the next one is taken.
IngestTick ==
    /\ feedChan # <<>>
    /\ feedChan' = Tail(feedChan)
    /\ priced' = [priced EXCEPT ![Head(feedChan).asset] = Head(feedChan).at]
    /\ UNCHANGED <<polls, lastQuotes, feed, sending, skipped>>

FeedInit ==
    /\ polls = 0
    /\ lastQuotes = [a \in Assets |-> 0]
    /\ feed = "boot"
    /\ sending = <<>> /\ feedChan = <<>>
    /\ priced = [a \in Assets |-> 0]
    /\ skipped = {}

FeedNext ==
    \/ \E sources \in SUBSET Sources :
          \/ InitialFetch(sources)
          \/ \E fresh \in SetToSeqs(Fetched(sources)), old \in SetToSeqs(Cached(sources)) :
                Poll(sources, fresh \o old)
    \/ Send \/ FirstBatchSent \/ IngestTick

FeedSpec == FeedInit /\ [][FeedNext]_feedVars

---------------------------------------------------------------------------
(* Properties *)

FeedTypeOK ==
    /\ polls \in 0..MaxPolls
    /\ lastQuotes \in [Assets -> 0..MaxPolls]
    /\ priced \in [Assets -> 0..MaxPolls]
    /\ feed \in {"boot", "first", "blocking", "ticking"}
    /\ Len(feedChan) <= FeedCap
    /\ skipped \subseteq Assets

\* The quotes between the feed and the store, oldest first.
Line == feedChan \o sending

\* Prices never go back: through batches, a full channel, exchanges that fail
\* for a while and quotes filled in for them, no price overtakes a newer one
\* of its asset; and once everything sent is stored, the store has the feed's
\* own last price of every asset, unless that quote found no room.
StoreFollowsFeed ==
    \A a \in Assets :
        LET mine == {i \in DOMAIN Line : Line[i].asset = a}
        IN  /\ priced[a] <= lastQuotes[a]
            /\ \A i \in mine : priced[a] <= Line[i].at /\ Line[i].at <= lastQuotes[a]
            /\ \A i, j \in mine : i <= j => Line[i].at <= Line[j].at
            /\ mine = {} /\ a \notin skipped => priced[a] = lastQuotes[a]

\* "real-time live market ticks directly from the exchange"
\* (internal/market/live_feed.go:380): what is sent was fetched by this pass.
\* (An exchange that does not answer goes on being sent from the cache, and
\* nothing downstream looks at the age of a quote.)
TicksAreLive == \A i \in DOMAIN sending : sending[i].at = polls
=============================================================================
