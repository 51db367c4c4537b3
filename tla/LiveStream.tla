----------------------------- MODULE LiveStream -----------------------------
(***************************************************************************)
(* The live stream of the dashboard (internal/server/sse.go): a feed       *)
(* stores a tick and broadcasts it, over Redis when that works and locally *)
(* when it does not; each dashboard has a bounded channel, registers it,   *)
(* is sent a snapshot of the stored quotes, and then drains the channel.   *)
(* Events are the ticks of one symbol, numbered in the order the feed      *)
(* delivers them.                                                          *)
(***************************************************************************)
EXTENDS Integers, SequencesExt

CONSTANTS
    Dashboards,      \* client connections
    ChannelCap,      \* capacity of a client's channel (32 in the code)
    MaxTicks,        \* bound: ticks of the feed
    MaxRedisFaults,  \* bound: publishes that fail
    RedisAttached    \* whether a Redis client was given

ASSUME LiveStreamAssumption ==
    /\ ChannelCap \in Nat \ {0}
    /\ MaxTicks \in Nat
    /\ MaxRedisFaults \in Nat
    /\ RedisAttached \in BOOLEAN

VARIABLES
    stored,          \* the newest tick in the quote store
    ingest,          \* IngestTick: "idle", "stored" or "fallback"
    pipe,            \* published to Redis, not yet handed to broadcastLocal
    clients,         \* b.clients: the registered channels
    channel,         \* the content of each channel
    stage,           \* where each connection's handler is
    shown,           \* ticks written to each connection, in order
    missed,          \* history: a full channel made the client miss a tick
    redisFaults      \* publishes that failed

streamVars == <<stored, ingest, pipe, clients, channel, stage, shown, missed, redisFaults>>

Stages == {"away", "snapshot", "flush", "loop", "gone"}

---------------------------------------------------------------------------
(* The feed *)

\* UpdateQuote, and SetTicker in the cache, which nothing here reads.
StoreTick ==
    /\ ingest = "idle" /\ stored < MaxTicks
    /\ stored' = stored + 1
    /\ ingest' = "stored"
    /\ UNCHANGED <<pipe, clients, channel, stage, shown, missed, redisFaults>>

\* Mutant of broadcastLocal: a client joins only once its snapshot is out.
broadcastLocalLate(n) ==
    LET full == {d \in clients : Len(channel[d]) >= ChannelCap}
    IN  /\ channel' = [d \in Dashboards |->
              IF d \in clients \ full /\ stage[d] = "loop"
              THEN Append(channel[d], n) ELSE channel[d]]
        /\ missed' = [d \in Dashboards |-> missed[d] \/ d \in full]

\* Every registered channel with room gets the tick; a full one is skipped.
broadcastLocal(n) ==
    LET full == {d \in clients : Len(channel[d]) >= ChannelCap}
    IN  /\ channel' = [d \in Dashboards |->
              IF d \in clients \ full THEN Append(channel[d], n) ELSE channel[d]]
        /\ missed' = [d \in Dashboards |-> missed[d] \/ d \in full]

\* A successful publish ends Broadcast; the subscriber does the rest.
Publish ==
    /\ ingest = "stored" /\ RedisAttached
    /\ pipe' = Append(pipe, stored)
    /\ ingest' = "idle"
    /\ UNCHANGED <<stored, clients, channel, stage, shown, missed, redisFaults>>

\* A publish that answers with an error may have reached Redis all the same.
PublishFails(reached) ==
    /\ ingest = "stored" /\ RedisAttached
    /\ redisFaults < MaxRedisFaults
    /\ redisFaults' = redisFaults + 1
    /\ pipe' = IF reached THEN Append(pipe, stored) ELSE pipe
    /\ ingest' = "fallback"
    /\ UNCHANGED <<stored, clients, channel, stage, shown, missed>>

BroadcastHere ==
    /\ ingest = IF RedisAttached THEN "fallback" ELSE "stored"
    /\ broadcastLocal(stored)
    /\ ingest' = "idle"
    /\ UNCHANGED <<stored, pipe, clients, stage, shown, redisFaults>>

\* The goroutine of AttachRedis.
Subscriber ==
    /\ pipe # <<>>
    /\ broadcastLocal(Head(pipe))
    /\ pipe' = Tail(pipe)
    /\ UNCHANGED <<stored, ingest, clients, stage, shown, redisFaults>>

---------------------------------------------------------------------------
(* A connection *)

\* The channel is registered before anything is written.
Connect(d) ==
    /\ stage[d] = "away"
    /\ clients' = clients \cup {d}
    /\ stage' = [stage EXCEPT ![d] = "snapshot"]
    /\ UNCHANGED <<stored, ingest, pipe, channel, shown, missed, redisFaults>>

\* The provider reads the stored quotes under no lock of the broadcaster.
ReadSnapshot(d) ==
    /\ stage[d] = "snapshot"
    /\ shown' = [shown EXCEPT ![d] = IF stored > 0 THEN Append(@, stored) ELSE @]
    /\ stage' = [stage EXCEPT ![d] = "flush"]
    /\ UNCHANGED <<stored, ingest, pipe, clients, channel, missed, redisFaults>>

\* It is on its way before whatever the channel has collected meanwhile.
EnterLoop(d) ==
    /\ stage[d] = "flush"
    /\ stage' = [stage EXCEPT ![d] = "loop"]
    /\ UNCHANGED <<stored, ingest, pipe, clients, channel, shown, missed, redisFaults>>

WriteNext(d) ==
    /\ stage[d] = "loop" /\ channel[d] # <<>>
    /\ shown' = [shown EXCEPT ![d] = Append(@, Head(channel[d]))]
    /\ channel' = [channel EXCEPT ![d] = Tail(@)]
    /\ UNCHANGED <<stored, ingest, pipe, clients, stage, missed, redisFaults>>

\* Mutant of Disconnect: the channel is closed and stays registered.
DisconnectKeepsClient(d) ==
    /\ stage[d] = "loop"
    /\ channel' = [channel EXCEPT ![d] = <<>>]
    /\ stage' = [stage EXCEPT ![d] = "gone"]
    /\ UNCHANGED <<stored, ingest, pipe, clients, shown, missed, redisFaults>>

\* The request context ends: the channel is unregistered and closed under the
\* write lock, so no broadcast can send on it afterwards.
Disconnect(d) ==
    /\ stage[d] = "loop"
    /\ clients' = clients \ {d}
    /\ channel' = [channel EXCEPT ![d] = <<>>]
    /\ stage' = [stage EXCEPT ![d] = "gone"]
    /\ UNCHANGED <<stored, ingest, pipe, shown, missed, redisFaults>>

StreamInit ==
    /\ stored = 0 /\ ingest = "idle" /\ pipe = <<>> /\ clients = {}
    /\ channel = [d \in Dashboards |-> <<>>]
    /\ stage = [d \in Dashboards |-> "away"]
    /\ shown = [d \in Dashboards |-> <<>>]
    /\ missed = [d \in Dashboards |-> FALSE]
    /\ redisFaults = 0

StreamNext ==
    \/ StoreTick \/ Publish \/ BroadcastHere \/ Subscriber
    \/ \E reached \in BOOLEAN : PublishFails(reached)
    \/ \E d \in Dashboards :
          Connect(d) \/ ReadSnapshot(d) \/ EnterLoop(d) \/ WriteNext(d) \/ Disconnect(d)

StreamSpec == StreamInit /\ [][StreamNext]_streamVars

---------------------------------------------------------------------------
(* Properties *)

StreamTypeOK ==
    /\ stored \in 0..MaxTicks
    /\ ingest \in {"idle", "stored", "fallback"}
    /\ clients \subseteq Dashboards
    /\ \A d \in Dashboards :
          /\ stage[d] \in Stages
          /\ Len(channel[d]) <= ChannelCap
          /\ d \in clients <=> stage[d] \in {"snapshot", "flush", "loop"}
    /\ redisFaults \in 0..MaxRedisFaults

Settled(d) == stage[d] = "loop" /\ channel[d] = <<>> /\ pipe = <<>> /\ ingest = "idle"

\* No tick falls between the snapshot and the live events: a client whose
\* channel was never full has been shown the newest tick as soon as nothing is
\* under way, whenever it connected and whichever way the ticks travelled.
NothingBetween ==
    \A d \in Dashboards :
        Settled(d) /\ ~missed[d] /\ stored > 0 => stored \in Range(shown[d])

\* The last tick a settled client was shown is the newest.  (Not after a full
\* channel, and not when a tick that went over Redis comes in after one that
\* was delivered locally.)
NewestLast ==
    \A d \in Dashboards :
        Settled(d) /\ stored > 0 => shown[d] # <<>> /\ Last(shown[d]) = stored
=============================================================================
