----------------------------- MODULE ShadowDesk -----------------------------
(***************************************************************************)
(* The decision core in the shadow of the live path: judgments queue up    *)
(* for a few workers (internal/trader/shadow.go), a worker routes one      *)
(* through Jev and, below the threshold, through the language model        *)
(* (internal/trader/decision_router.go, internal/ai), and the outcome      *)
(* becomes a row of evidence (internal/db/shadow_store.go) while health    *)
(* counters record every call.  Jev, the model and the database are        *)
(* external: each may fail at any call.                                    *)
(*                                                                         *)
(* Confidences and thresholds are percentages; a threshold of 0 stands for *)
(* a process without a decision router.                                    *)
(***************************************************************************)
EXTENDS Integers, SequencesExt, FiniteSetsExt

CONSTANTS
    Cycles,          \* judgments the live path asks for, each once
    Judges,          \* the shadow workers
    ShadowQueueCap,  \* capacity of the queue (64 in the code)
    Thresholds,      \* thresholds the settings page may set
    Confidences,     \* confidences Jev or the model may report
    MaxRetunes,      \* bound: changes of the threshold
    MaxPanics        \* bound: judgments that panic

ASSUME ShadowAssumption ==
    /\ ShadowQueueCap \in Nat \ {0}
    /\ Thresholds \subseteq 1..100
    /\ Confidences \subseteq Int
    /\ MaxRetunes \in Nat /\ MaxPanics \in Nat

Vocabulary == {"LONG", "SHORT", "NO_TRADE"}

VARIABLES
    threshold,       \* the router's Threshold
    judgments,       \* o.queue
    judge,           \* what each worker is doing
    evidence,        \* shadow_decisions: the row of a cycle
    outcomeOf,       \* history: what became of each cycle
    health,          \* RecordJev and RecordGateway: good and bad calls
    shadowBudget     \* retunes and panics used up

shadowVars == <<threshold, judgments, judge, evidence, outcomeOf, health, shadowBudget>>

Resting == [pc |-> "rest"]

NoRow == [status |-> "none"]

ErrorRow == [status |-> "error", choice |-> "", route |-> "", judge |-> "jev",
             confidence |-> 0, limit |-> 0]

\* limit is history: the threshold the answer was measured against.
OkRow(choice, route, confidence, limit) ==
    [status |-> "ok", choice |-> choice, route |-> route, judge |-> "jev",
     confidence |-> confidence, limit |-> limit]

---------------------------------------------------------------------------
(* The live path *)

\* JudgeEntry: a full queue refuses the judgment and nobody looks at the error.
Enqueue(c) ==
    /\ outcomeOf[c] = "unasked"
    /\ IF Len(judgments) < ShadowQueueCap
       THEN judgments' = Append(judgments, c) /\ outcomeOf' = [outcomeOf EXCEPT ![c] = "queued"]
       ELSE outcomeOf' = [outcomeOf EXCEPT ![c] = "refused"] /\ UNCHANGED judgments
    /\ UNCHANGED <<threshold, judge, evidence, health, shadowBudget>>

\* SetThreshold, or the router that the first saved threshold creates.
ensureDecisionRouter(t) ==
    /\ shadowBudget.retunes < MaxRetunes
    /\ shadowBudget' = [shadowBudget EXCEPT !.retunes = @ + 1]
    /\ threshold' = t
    /\ UNCHANGED <<judgments, judge, evidence, outcomeOf, health>>

---------------------------------------------------------------------------
(* A worker *)

Settle(j, fate) ==
    /\ outcomeOf' = [outcomeOf EXCEPT ![judge[j].cycle] = fate]
    /\ judge' = [judge EXCEPT ![j] = Resting]

\* Without a router the judgment is skipped.  Route reads the threshold once,
\* before it asks Jev.
TakeJudgment(j) ==
    LET c == Head(judgments)
    IN  /\ judge[j].pc = "rest" /\ judgments # <<>>
        /\ judgments' = Tail(judgments)
        /\ IF threshold = 0
           THEN outcomeOf' = [outcomeOf EXCEPT ![c] = "skipped"] /\ UNCHANGED judge
           ELSE /\ judge' = [judge EXCEPT ![j] =
                      [pc |-> "jev", cycle |-> c, limit |-> threshold, row |-> ErrorRow]]
                /\ UNCHANGED outcomeOf
        /\ UNCHANGED <<threshold, evidence, health, shadowBudget>>

Counted(service, good) ==
    health' = [health EXCEPT ![service][IF good THEN "ok" ELSE "fail"] = @ + 1]

Proceed(j, pc, row) == judge' = [judge EXCEPT ![j].pc = pc, ![j].row = row]

\* Evaluate fails: no key, no address, a timeout, a status, a bad body, an
\* answer missing.  The row is an error; nobody guesses.
JevFails(j) ==
    /\ judge[j].pc = "jev"
    /\ Counted("jev", FALSE)
    /\ Proceed(j, "record", ErrorRow)
    /\ UNCHANGED <<threshold, judgments, evidence, outcomeOf, shadowBudget>>

\* An answer outside the vocabulary is an error, a confident one is final, any
\* other goes on to the language model.
JevAnswers(j, choice, confidence) ==
    /\ judge[j].pc = "jev"
    /\ Counted("jev", TRUE)
    /\ IF choice \notin Vocabulary THEN Proceed(j, "record", ErrorRow)
       ELSE Proceed(j, IF confidence >= judge[j].limit THEN "record" ELSE "escalate",
                    OkRow(choice, "jev_direct", confidence, judge[j].limit))
    /\ UNCHANGED <<threshold, judgments, evidence, outcomeOf, shadowBudget>>

\* Mutant of EscalationFails: Jev's unsure answer stands in for the model's.
EscalationFallsBack(j) ==
    /\ judge[j].pc = "escalate"
    /\ Counted("gateway", FALSE)
    /\ Proceed(j, "record", judge[j].row)
    /\ UNCHANGED <<threshold, judgments, evidence, outcomeOf, shadowBudget>>

\* The escalation fails; Jev's unsure answer does not stand in for it.
EscalationFails(j) ==
    /\ judge[j].pc = "escalate"
    /\ Counted("gateway", FALSE)
    /\ Proceed(j, "record", ErrorRow)
    /\ UNCHANGED <<threshold, judgments, evidence, outcomeOf, shadowBudget>>

\* Analyze: BUY and SELL are directions, anything else is no trade.
Direction(decision) ==
    CASE decision = "BUY" -> "LONG" [] decision = "SELL" -> "SHORT" [] OTHER -> "NO_TRADE"

\* Analyze bounds the reported confidence: a negative one becomes a half.
Bounded(p) == IF p < 0 THEN 50 ELSE IF p > 100 THEN 100 ELSE p

\* The model's answer replaces Jev's, also Jev's confidence unless the model
\* reports none; the row goes on naming Jev as its judge.
ModelAnswers(j, decision, p) ==
    LET asked == judge[j].row.confidence
    IN  /\ judge[j].pc = "escalate"
        /\ Counted("gateway", TRUE)
        /\ Proceed(j, "record",
               OkRow(Direction(decision), "escalated",
                     IF Bounded(p) = 0 THEN asked ELSE Bounded(p), judge[j].limit))
        /\ UNCHANGED <<threshold, judgments, evidence, outcomeOf, shadowBudget>>

\* ShadowDecision.Validate.
ValidRow(r) ==
    /\ r.judge \in {"jev", "llm"}
    /\ IF r.status = "error" THEN r.choice = ""
       ELSE r.status = "ok" /\ r.choice \in Vocabulary

\* InsertShadowDecision; a row that cannot be stored is only logged.
Record(j, stored) ==
    LET c == judge[j].cycle
    IN  /\ judge[j].pc = "record"
        /\ IF stored /\ ValidRow(judge[j].row)
           THEN evidence' = [evidence EXCEPT ![c] = judge[j].row] /\ Settle(j, "recorded")
           ELSE Settle(j, "lost") /\ UNCHANGED evidence
        /\ UNCHANGED <<threshold, judgments, health, shadowBudget>>

Panic(j, next) ==
    /\ judge[j].pc # "rest" /\ judge[j].pc # "dead"
    /\ shadowBudget.panics < MaxPanics
    /\ shadowBudget' = [shadowBudget EXCEPT !.panics = @ + 1]
    /\ outcomeOf' = [outcomeOf EXCEPT ![judge[j].cycle] = "lost"]
    /\ judge' = [judge EXCEPT ![j] = next]
    /\ UNCHANGED <<threshold, judgments, evidence, health>>

\* Mutant of Panics: nobody recovers and the worker is gone.
PanicsForGood(j) == Panic(j, [pc |-> "dead"])

\* A panic costs the judgment, never the worker.
Panics(j) == Panic(j, Resting)

\* A process with a configured router, or with JEV_DISABLE and none.
ShadowInit ==
    /\ threshold \in Thresholds \cup {0}
    /\ judgments = <<>>
    /\ judge = [j \in Judges |-> Resting]
    /\ evidence = [c \in Cycles |-> NoRow]
    /\ outcomeOf = [c \in Cycles |-> "unasked"]
    /\ health = [jev |-> [ok |-> 0, fail |-> 0], gateway |-> [ok |-> 0, fail |-> 0]]
    /\ shadowBudget = [retunes |-> 0, panics |-> 0]

Judging(j) ==
    \/ TakeJudgment(j) \/ JevFails(j) \/ EscalationFails(j)
    \/ \E choice \in Vocabulary \cup {"OTHER"}, p \in Confidences : JevAnswers(j, choice, p)
    \/ \E d \in {"BUY", "SELL", "HOLD"}, p \in Confidences : ModelAnswers(j, d, p)
    \/ \E stored \in BOOLEAN : Record(j, stored)
    \/ Panics(j)

ShadowNext ==
    \/ \E c \in Cycles : Enqueue(c)
    \/ \E t \in Thresholds : ensureDecisionRouter(t)
    \/ \E j \in Judges : Judging(j)

ShadowSpec == ShadowInit /\ [][ShadowNext]_shadowVars

\* A worker takes what is queued, and every call it makes has a deadline.
ShadowFairness == \A j \in Judges : WF_shadowVars(Judging(j))

---------------------------------------------------------------------------
(* Properties *)

ShadowTypeOK ==
    /\ threshold \in Thresholds \cup {0}
    /\ Len(judgments) <= ShadowQueueCap
    /\ \A c \in Cycles : evidence[c] = NoRow \/ ValidRow(evidence[c])
    /\ \A j \in Judges : judge[j].pc \in {"rest", "jev", "escalate", "record", "dead"}

Rows(test(_)) == Cardinality({c \in Cycles : evidence[c].status = "ok" /\ test(evidence[c])})

\* The evidence is backed by calls: every answer that was recorded as Jev's
\* own reached the threshold it was measured against, and the health counters
\* show a good Jev call for every row with an answer and a good call of the
\* model for every escalated one: no failure on the way became an answer.
EvidenceIsBacked ==
    /\ \A c \in Cycles :
          evidence[c].status = "ok" /\ evidence[c].route = "jev_direct" =>
              evidence[c].confidence >= evidence[c].limit
    /\ Rows(LAMBDA r : TRUE) <= health.jev.ok
    /\ Rows(LAMBDA r : r.route = "escalated") <= health.gateway.ok

\* A judgment that was queued is recorded, skipped or lost in the end: a
\* panic or a failing store never stops the workers.
QueuedIsJudged ==
    \A c \in Cycles : outcomeOf[c] = "queued" ~> outcomeOf[c] \in {"recorded", "skipped", "lost"}

\* A row names the model that produced it.  (An escalated one names Jev.)
JudgeIsNamed ==
    \A c \in Cycles : evidence[c].status = "ok" /\ evidence[c].route = "escalated" =>
        evidence[c].judge = "llm"

\* No judgment is dropped silently.  (A full queue is told to JudgeEntry,
\* which drops the error with the judgment.)
NothingDropped == \A c \in Cycles : outcomeOf[c] # "refused"
=============================================================================
