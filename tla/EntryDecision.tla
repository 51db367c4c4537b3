------------------------------ MODULE EntryDecision ------------------------------
(***************************************************************************)
(* From a market snapshot to a saved signal                                *)
(* (internal/trader/signals.go, EvaluateMarketSignal and judgeEntryCore,   *)
(* with state.go, managed_params.go, timeframe.go).  Evaluators work on    *)
(* one symbol at once, each for as long as the decision core takes; the    *)
(* operator may change the live settings between the question and the      *)
(* answer, and signals open and close meanwhile.                           *)
(***************************************************************************)
EXTENDS EntryRules

CONSTANTS
    Evaluators,        \* evaluations of the symbol, each run once
    Requests,          \* what a caller may pass: snapshot, capital, headlines
    Answers,           \* batches the core may answer with
    EscalationAnswers, \* what the language model may answer: choice, confidence
    OpenInterests,     \* changes of open interest the exchange may report
    LiveSettings,      \* settings the operator may have saved
    KnownIntervals,    \* the eight intervals of config.KnownIntervals
    MaxDeskSaves,      \* bound: changes of the settings
    MaxDeskFaults,     \* bound: failures of the classifier, the core, the store
    MaxCloses          \* bound: closes of the symbol's signal

ASSUME EntryDecisionAssumption ==
    /\ IsFiniteSet(Evaluators)
    /\ \A r \in Requests : r.equity \in Nat /\ r.capital \in Nat /\ r.natr \in Nat
    /\ MaxDeskSaves \in Nat /\ MaxDeskFaults \in Nat /\ MaxCloses \in Nat

\* What config.Load lets an override be; the regime's multiples are a pair.
OverrideRanges ==
    [min_rr |-> 50..20 * 100, leverage |-> 1..125, conviction |-> 1..Whole,
     atr_regime |-> [sl : 1..20 * 100, tp : 1..20 * 100], confluence |-> 0..100]

ASSUME LiveSettingsAssumption ==
    \A s \in LiveSettings : \A k \in EntryParamKeys :
        s.over[k] # NoAnswer => s.over[k] \in OverrideRanges[k]

\* The scores and probabilities of an answer are numbers, and so is a leverage.
ASSUME AnswersAssumption ==
    \A ans \in Answers : \A k \in EntryParamKeys :
        LET a == ans.params[k]
        IN  /\ IsFiniteSet(DOMAIN a.probs) /\ \A i \in DOMAIN a.probs : a.probs[i] \in Int
            /\ a.score \in Int \cup {NoAnswer}
            /\ k = "leverage" => a.choice \in Int \cup {NoAnswer}

VARIABLES
    live,              \* the settings in force: overrides, timeframes, threshold
    evals,             \* per evaluator, how far it is and what it holds
    book,              \* signals the store has, newest last
    open,              \* whether the newest signal is ACTIVE
    bounds             \* saves, faults and closes so far

entryVars == <<live, evals, book, open, bounds>>

NoSignal == [dir |-> "none"]

Fresh == [pc |-> "idle", req |-> NoAnswer, asked |-> {}, thr |-> 0,
          batch |-> NoAnswer, choice |-> "NO_TRADE", conf |-> 0, params |-> NoAnswer,
          sig |-> NoSignal, told |-> "pending"]

Went(e, pc) == evals' = [evals EXCEPT ![e].pc = pc]
Ends(e, why) == evals' = [evals EXCEPT ![e].pc = "done", ![e].told = why]
Faulted == bounds.faults < MaxDeskFaults /\ bounds' = [bounds EXCEPT !.faults = @ + 1]

---------------------------------------------------------------------------
(* The evaluation up to the answer of the core *)

\* Invalid input is an error; an ACTIVE signal of the symbol is handed back.
Evaluate(e, r) ==
    /\ evals[e].pc = "idle"
    /\ evals' = [evals EXCEPT ![e].req = r,
                   ![e].pc = IF r.price <= 0 \/ r.equity <= 0 \/ r.capital <= 0 THEN "done"
                             ELSE IF open THEN "done"
                             ELSE IF r.headlines THEN "classify" ELSE "ask",
                   ![e].told = IF r.price <= 0 \/ r.equity <= 0 \/ r.capital <= 0 THEN "error"
                               ELSE IF open THEN "existing" ELSE "pending"]
    /\ UNCHANGED <<live, book, open, bounds>>

\* Headlines are classified by the core; a failure ends the evaluation.
Classify(e) ==
    /\ evals[e].pc = "classify"
    /\ \/ Went(e, "ask") /\ UNCHANGED bounds
       \/ Ends(e, "error") /\ Faulted
    /\ UNCHANGED <<live, book, open>>

BucketTimeframes(settings, bucket) ==
    IF settings.frames[bucket] = {} THEN KnownIntervals ELSE settings.frames[bucket]

EntryQuestions(over) == {"direction", "edge", "timeframe"} \cup ManagedEntryQuestions(over)

\* The batch.  A snapshot nobody measured, or a price that is not there, is an
\* error, and so is a missing threshold.
Ask(e) ==
    LET r == evals[e].req
    IN  /\ evals[e].pc = "ask"
        /\ IF ~r.measured \/ live.threshold <= 0 THEN Ends(e, "error")
           ELSE evals' = [evals EXCEPT ![e].pc = "core", ![e].thr = live.threshold,
                            ![e].asked = EntryQuestions(live.over)]
        /\ UNCHANGED <<live, book, open, bounds>>

\* The chosen interval must be in the set in force now, and the distribution
\* must be over exactly that set; an unrestricted set takes any known interval.
ValidTimeframe(ans, frames) ==
    /\ ans.frame \in frames
    /\ ans.over # {}
    /\ IF frames = KnownIntervals THEN ans.over \subseteq KnownIntervals
       ELSE ans.over = frames

ValidBatch(ans, frames) ==
    /\ ValidTimeframe(ans, frames)
    /\ ans.direction \in {"LONG", "SHORT"}
    /\ ans.edge # NoAnswer /\ ans.edge \in 0..100

\* The edge decides whether to trade, the direction which way.
Composed(ans) ==
    IF ans.edge >= 50 THEN [choice |-> ans.direction, conf |-> Lower(ans.conf, ans.edge)]
    ELSE [choice |-> "NO_TRADE", conf |-> 100 - ans.edge]

\* Every question has an answer, or the call fails; the core does not answer
\* what it was not asked.  Meanwhile the settings may have changed: the
\* timeframe set and the parameters' modes are read again.
BatchAnswered(e, ans) ==
    LET v == evals[e]
        got == [k \in v.asked \cap EntryParamKeys |-> ans.params[k]]
        frames == BucketTimeframes(live, v.req.bucket)
        values == ResolveEntry(live.over, got)
        core == Composed(ans)
        valid == ValidBatch(ans, frames) /\ Bad \notin {values[k] : k \in EntryParamKeys}
    IN  /\ v.pc = "core"
        /\ evals' = [evals EXCEPT ![e].batch = ans,
                       ![e].pc = IF ~valid THEN "done"
                                 ELSE IF core.conf < v.thr THEN "escalate" ELSE "assemble",
                       ![e].told = IF valid THEN "pending" ELSE "error",
                       ![e].choice = IF valid THEN core.choice ELSE @,
                       ![e].conf = IF valid THEN core.conf ELSE @,
                       ![e].params = IF valid THEN PackageParamRecord(live.over, values) ELSE @]
        /\ UNCHANGED <<live, book, open, bounds>>

BatchFails(e) ==
    /\ evals[e].pc = "core"
    /\ Ends(e, "error") /\ Faulted
    /\ UNCHANGED <<live, book, open>>

\* Below the threshold the language model judges the same request; the more
\* confident of the two decides.
Escalate(e, esc) ==
    /\ evals[e].pc = "escalate"
    /\ IF esc.choice \notin {"LONG", "SHORT", "NO_TRADE"} THEN Ends(e, "error")
       ELSE evals' = [evals EXCEPT ![e].pc = "assemble",
                        ![e].choice = IF esc.conf > evals[e].conf THEN esc.choice ELSE @,
                        ![e].conf = Higher(esc.conf, @)]
    /\ UNCHANGED <<live, book, open, bounds>>

EscalationFails(e) ==
    /\ evals[e].pc = "escalate"
    /\ Ends(e, "error") /\ Faulted
    /\ UNCHANGED <<live, book, open>>

---------------------------------------------------------------------------
(* The candidate *)

\* The profile's stop, kept inside the bounds of .env.  The regime's stop
\* multiple is written into the profile only after this.
StopDistance(natr, prof) == Within(ATRStop(natr, prof), Env.minSL, Env.maxSL)

\* The regime names the runner's multiple; the first target keeps its share.
RegimeProfile(prof, regime) ==
    [prof EXCEPT !.slAtr = IF regime.sl > 0 THEN regime.sl ELSE @,
                 !.tp1Atr = IF regime.tp > 0 /\ prof.tp2Atr > 0
                            THEN (regime.tp * @) \div prof.tp2Atr ELSE @,
                 !.tp2Atr = IF regime.tp > 0 THEN regime.tp ELSE @]

\* Targets before the bounds: staged from the range, or stretched to the
\* minimum reward over the profile's own stop when no range was measured, and
\* in any case stretched to it over the stop in force.
Targets(natr, prof, base, regime, minRR, sl) ==
    LET staged == StagedTargets(natr, RegimeProfile(prof, regime))
        floor == MinReward(minRR, base)
        tp1 == IF natr > 0 THEN staged.tp1 ELSE Higher(staged.tp1, floor)
        tp2 == IF natr > 0 THEN staged.tp2 ELSE Higher(staged.tp2, (floor * 3) \div 2)
    IN  ClampTakeProfits(Higher(tp1, MinReward(minRR, sl)), tp2)

\* The managed leverage, lowered to the volatility target and the buffer.
ChosenLeverage(natr, asked, sl, prof) ==
    LeverageWithinBuffer(sl,
        IF natr > 0 THEN Lower(asked, VolTargetLeverage(natr, asked, prof)) ELSE asked, prof)

\* What EvaluateMarketSignal assembles from the answer.
Candidate(v) ==
    LET r == v.req
        prof == ProfileForBucket(r.bucket)
        p == v.params.values
        base == ATRStop(r.natr, prof)
        sl == StopDistance(r.natr, prof)
        lev == ChosenLeverage(r.natr, p.leverage, sl, prof)
        risk == IF p.conviction > 0 THEN p.conviction ELSE prof.risk
        tps == Targets(r.natr, prof, base, p.atr_regime, p.min_rr, sl)
    IN  [dir |-> v.choice, sl |-> sl, tp1 |-> tps.tp1, tp2 |-> tps.tp2, leverage |-> lev,
         margin |-> Lower(PositionMargin(r.equity, risk, r.capital, sl, lev),
                          (r.equity * Env.maxMargin) \div Whole),
         frame |-> v.batch.frame, record |-> v.params, asked |-> v.asked, req |-> r]

\* Why a candidate is refused before the gate, if it is: a confluence
\* below the managed threshold, a request without any headline, a bounded
\* target that misses the minimum reward.
Refused(v, c) ==
    LET p == v.params.values
        r == v.req
    IN  IF p.confluence > 0 /\ r.confluence > 0 /\ r.confluence < p.confluence
        THEN "confluence_threshold"
        ELSE IF ~r.headlines THEN "no_catalyst"
        ELSE IF c.tp1 < MinReward(p.min_rr, c.sl) THEN "take_profit_bound" ELSE "accepted"

Assemble(e) ==
    LET v == evals[e]
        c == Candidate(v)
        why == Refused(v, c)
    IN  /\ v.pc = "assemble"
        /\ IF v.choice = "NO_TRADE" THEN Ends(e, "hold")
           ELSE IF why # "accepted" THEN Ends(e, why)
           ELSE evals' = [evals EXCEPT ![e].pc = "gate", ![e].sig = c]
        /\ UNCHANGED <<live, book, open, bounds>>

\* The open interest is fetched for the gate; a failed fetch is unknown.
EntryGate(e, oi) ==
    LET v == evals[e]
        rule == EvaluateEntryGate(v.sig.dir = "LONG", v.req, oi, v.sig.sl, v.sig.leverage,
                                  ProfileForBucket(v.req.bucket).liqBuffer)
    IN  /\ v.pc = "gate"
        /\ IF rule = "passes" THEN Went(e, "guard") ELSE Ends(e, rule)
        /\ UNCHANGED <<live, book, open, bounds>>

\* The slot guard hands back a signal that appeared meanwhile, and otherwise
\* keeps the symbol to this evaluator until its insert (SlotAdmission).
SlotGuard(e) ==
    /\ evals[e].pc = "guard"
    /\ \A o \in Evaluators : evals[o].pc # "insert"
    /\ IF open THEN Ends(e, "existing") ELSE Went(e, "insert")
    /\ UNCHANGED <<live, book, open, bounds>>

\* The insert has its own five seconds.
Insert(e) ==
    /\ evals[e].pc = "insert"
    /\ \/ Ends(e, "saved") /\ book' = Append(book, evals[e].sig) /\ open' = TRUE
          /\ UNCHANGED bounds
       \/ Ends(e, "error") /\ Faulted /\ UNCHANGED <<book, open>>
    /\ UNCHANGED live

---------------------------------------------------------------------------
(* Environment *)

\* The settings page applies a save to the configuration the service reads.
SaveLive(s) ==
    /\ bounds.saves < MaxDeskSaves
    /\ s # live
    /\ live' = s
    /\ bounds' = [bounds EXCEPT !.saves = @ + 1]
    /\ UNCHANGED <<evals, book, open>>

CloseSymbol ==
    /\ open /\ bounds.closes < MaxCloses
    /\ open' = FALSE
    /\ bounds' = [bounds EXCEPT !.closes = @ + 1]
    /\ UNCHANGED <<live, evals, book>>

---------------------------------------------------------------------------

EntryInit ==
    /\ live \in LiveSettings
    /\ evals = [e \in Evaluators |-> Fresh]
    /\ book = <<>>
    /\ open = FALSE
    /\ bounds = [saves |-> 0, faults |-> 0, closes |-> 0]

EntryNext ==
    \/ \E e \in Evaluators :
        \/ \E r \in Requests : Evaluate(e, r)
        \/ Classify(e) \/ Ask(e) \/ BatchFails(e) \/ EscalationFails(e)
        \/ \E ans \in Answers : BatchAnswered(e, ans)
        \/ \E esc \in EscalationAnswers : Escalate(e, esc)
        \/ Assemble(e)
        \/ \E oi \in OpenInterests : EntryGate(e, oi)
        \/ SlotGuard(e) \/ Insert(e)
    \/ \E s \in LiveSettings : SaveLive(s)
    \/ CloseSymbol

EntrySpec == EntryInit /\ [][EntryNext]_entryVars

---------------------------------------------------------------------------
(* Properties *)

EntryTypeOK ==
    /\ live \in LiveSettings
    /\ \A e \in Evaluators : evals[e].pc \in {"idle", "classify", "ask", "core", "escalate",
                                              "assemble", "gate", "guard", "insert", "done"}
    /\ Len(book) <= Cardinality(Evaluators)
    /\ open \in BOOLEAN
    /\ bounds.saves <= MaxDeskSaves /\ bounds.faults <= MaxDeskFaults
    /\ bounds.closes <= MaxCloses

\* What every clamp and limit is for, of one signal.
SoundTrade(s) ==
    LET prof == ProfileForBucket(s.req.bucket)
        risk == s.record.values.conviction
    IN  /\ s.sl \in Env.minSL..Env.maxSL
        /\ s.leverage * (5000 + prof.liqBuffer * s.sl) <= Whole
        /\ s.tp1 \in Env.minTP..Env.maxTP
        /\ 100 * s.tp1 > s.record.values.min_rr * s.sl - 100
        /\ s.tp2 # NoAnswer => s.tp2 > s.tp1 /\ s.tp2 <= Env.maxTP
        /\ s.margin * s.leverage * (s.sl + 1000) <= s.req.equity * risk
        /\ s.margin <= s.req.capital
        /\ s.margin * Whole <= s.req.equity * Env.maxMargin

\* Whatever the core answers and however the layers of clamps (profile, .env,
\* regime, volatility target, liquidation buffer, bounds, minimum reward) work
\* against each other, a saved signal satisfies all of them at once: its stop is
\* inside the bounds of .env, liquidation is the profile's multiple of the stop
\* away, its first target pays at least the minimum reward for the stop in
\* force and lies inside the bounds with the runner strictly beyond it, and the
\* loss at the stop, with slippage, and the margin fit the budgets.
SavedTradesAreSound == \A i \in 1..Len(book) : SoundTrade(book[i])

\* The parameters a signal records as the core's are among the questions asked.
Unguessed(modes, asked) ==
    \A k \in EntryParamKeys : modes[k] = "core_managed" => k \in asked

\* No value of a saved signal was guessed (FR-307, zero fallback): a parameter
\* recorded as managed was asked about in the very batch the signal rests on,
\* although the settings that decide which parameters are managed are read once
\* for the question and again for the answer and may change in between.
NothingGuessed ==
    \A i \in 1..Len(book) : Unguessed(book[i].record.modes, book[i].asked)

\* "WIDE: expansion, wider stops and targets" (param_registry.go:480): the stop
\* of a signal taken in a regime is the regime's multiple of the range, within
\* the clamps.
StopFollowsRegime ==
    \A i \in 1..Len(book) :
        LET s == book[i]
            prof == ProfileForBucket(s.req.bucket)
        IN  s.req.natr > 0 =>
                s.sl = StopDistance(s.req.natr,
                                    RegimeProfile(prof, s.record.values.atr_regime))

\* "score is a probability-weighted LEVEL INDEX, never the semantic value"
\* (param_registry.go:671): a bare level index of the rubric does not become a
\* threshold no live market reaches.
BareIndexIsALevel ==
    \A e \in Evaluators :
        LET v == evals[e]
        IN  v.params # NoAnswer /\ "confluence" \in v.asked
            /\ v.batch.params["confluence"].score \in {0, 100, 200, 300}
            => v.params.values.confluence <= 55
=============================================================================
