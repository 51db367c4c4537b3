----------------------------- MODULE Messenger -----------------------------
(***************************************************************************)
(* The Telegram bot (internal/telegram/bot.go): a bounded queue of         *)
(* messages, the workers that drain it, the live switch and credentials,   *)
(* and one delivery with its retries and its plain-text fallback.  The     *)
(* Telegram service is external: it may answer, refuse the markup, fail,   *)
(* or take the message and lose the answer.                                *)
(***************************************************************************)
EXTENDS Integers, SequencesExt, FiniteSets

CONSTANTS
    Messages,        \* notifications, each broadcast once
    Workers,         \* bound: goroutines that may be started
    SendQueueCap,    \* capacity of sendQueue (100 in the code)
    MaxRetries,      \* attempts of a delivery (3 in the code)
    MaxSwitches      \* bound: changes of the bot's configuration

ASSUME MessengerAssumption ==
    /\ SendQueueCap \in Nat \ {0}
    /\ MaxRetries \in Nat \ {0}
    /\ MaxSwitches \in Nat
    /\ IsFiniteSet(Workers) /\ Workers # {}

VARIABLES
    enabled,         \* cfg.Enabled with both credentials present
    running,         \* c.running
    sendQueue,       \* c.sendQueue
    worker,          \* the goroutines running processQueue
    copies,          \* copies of each message that reached the chat
    fate,            \* history: what became of each message
    switches         \* configuration changes so far

messengerVars == <<enabled, running, sendQueue, worker, copies, fate, switches>>

Unstarted == [pc |-> "none"]
Waiting   == [pc |-> "wait"]

Sending(m, attempt) == [pc |-> "send", msg |-> m, attempt |-> attempt]

Alive == {w \in Workers : worker[w].pc # "none"}

---------------------------------------------------------------------------
(* The switch *)

\* go c.processQueue()
Spawn ==
    \E w \in Workers \ Alive : worker' = [worker EXCEPT ![w] = Waiting]

\* Mutant of UpdateConfig: it turns the bot on without a worker.
UpdateConfigStuck(on) ==
    /\ switches < MaxSwitches
    /\ switches' = switches + 1
    /\ enabled' = on
    /\ running' = on
    /\ UNCHANGED worker
    /\ UNCHANGED <<sendQueue, copies, fate>>

\* Turning the bot off clears running and stops nobody; turning it on again
\* starts one more worker.  Stop, which would end one, has no caller.
UpdateConfig(on) ==
    /\ switches < MaxSwitches
    /\ on /\ ~running => Alive # Workers
    /\ switches' = switches + 1
    /\ enabled' = on
    /\ running' = on
    /\ IF on /\ ~running THEN Spawn ELSE UNCHANGED worker
    /\ UNCHANGED <<sendQueue, copies, fate>>

\* SendMessage: dropped while the bot is off or the queue is full.
SendMessage(m) ==
    /\ fate[m] = "unsent"
    /\ IF enabled /\ Len(sendQueue) < SendQueueCap
       THEN sendQueue' = Append(sendQueue, m) /\ fate' = [fate EXCEPT ![m] = "queued"]
       ELSE fate' = [fate EXCEPT ![m] = "dropped"] /\ UNCHANGED sendQueue
    /\ UNCHANGED <<enabled, running, worker, copies, switches>>

---------------------------------------------------------------------------
(* A worker *)

Take(w) ==
    /\ worker[w].pc = "wait" /\ sendQueue # <<>>
    /\ worker' = [worker EXCEPT ![w] = Sending(Head(sendQueue), 1)]
    /\ sendQueue' = Tail(sendQueue)
    /\ UNCHANGED <<enabled, running, copies, fate, switches>>

Finish(w, end) ==
    /\ fate' = [fate EXCEPT ![worker[w].msg] = end]
    /\ worker' = [worker EXCEPT ![w] = Waiting]

Deliver(m) == copies' = [copies EXCEPT ![m] = @ + 1]

\* Status 200.
Answered(w) ==
    /\ worker[w].pc = "send"
    /\ Deliver(worker[w].msg)
    /\ Finish(w, "delivered")
    /\ UNCHANGED <<enabled, running, sendQueue, switches>>

\* Any other failure counts an attempt, also one that reached the chat before
\* the answer was lost; the last attempt gives the message up.
Fails(w, reached) ==
    LET m == worker[w].msg
    IN  /\ worker[w].pc = "send"
        /\ IF reached THEN Deliver(m) ELSE UNCHANGED copies
        /\ IF worker[w].attempt < MaxRetries
           THEN /\ worker' = [worker EXCEPT ![w].attempt = @ + 1]
                /\ UNCHANGED fate
           ELSE Finish(w, "failed")
        /\ UNCHANGED <<enabled, running, sendQueue, switches>>

\* Status 400: the markup is refused, the text goes out once without it, and
\* may arrive although no good answer comes back.
PlainText(w, works) ==
    /\ worker[w].pc = "send"
    /\ Deliver(worker[w].msg) \/ (~works /\ UNCHANGED copies)
    /\ Finish(w, IF works THEN "delivered" ELSE "failed")
    /\ UNCHANGED <<enabled, running, sendQueue, switches>>

\* The deadline of 15 s over all attempts, or credentials that are gone.
GivesUp(w) ==
    /\ worker[w].pc = "send"
    /\ worker[w].attempt > 1 \/ ~enabled
    /\ Finish(w, "failed")
    /\ UNCHANGED <<enabled, running, sendQueue, copies, switches>>

\* NewBotClient, for credentials that are there or not.
MessengerInit ==
    /\ enabled \in BOOLEAN
    /\ running = enabled
    /\ sendQueue = <<>>
    /\ IF enabled
       THEN \E w \in Workers :
               worker = [v \in Workers |-> IF v = w THEN Waiting ELSE Unstarted]
       ELSE worker = [w \in Workers |-> Unstarted]
    /\ copies = [m \in Messages |-> 0]
    /\ fate = [m \in Messages |-> "unsent"]
    /\ switches = 0

Work(w) ==
    \/ Take(w) \/ Answered(w) \/ GivesUp(w)
    \/ \E reached \in BOOLEAN : Fails(w, reached)
    \/ \E works \in BOOLEAN : PlainText(w, works)

MessengerNext ==
    \/ \E on \in BOOLEAN : UpdateConfig(on)
    \/ \E m \in Messages : SendMessage(m)
    \/ \E w \in Workers : Work(w)

MessengerSpec == MessengerInit /\ [][MessengerNext]_messengerVars

\* A worker loops for ever; each of its requests ends, in an answer or in the
\* client's timeout of 10 s.
MessengerFairness == \A w \in Workers : WF_messengerVars(Work(w))

---------------------------------------------------------------------------
(* Properties *)

MessengerTypeOK ==
    /\ Len(sendQueue) <= SendQueueCap
    /\ \A m \in Messages : copies[m] \in 0..MaxRetries
    /\ \A m \in Messages : fate[m] \in {"unsent", "queued", "dropped", "delivered", "failed"}
    /\ enabled = running
    /\ Cardinality(Alive) <= 1 + switches

\* What was accepted is dealt with: a queued message is delivered or given up
\* in the end, also when the bot is turned off and on around it.
QueuedIsSettled ==
    \A m \in Messages : fate[m] = "queued" ~> fate[m] \in {"delivered", "failed"}

\* One worker paces the chat.  (Off and on again makes two.)
OneWorker == Cardinality(Alive) <= 1

\* A message reaches the chat once.  (A lost answer is retried.)
DeliveredOnce == \A m \in Messages : copies[m] <= 1
=============================================================================
