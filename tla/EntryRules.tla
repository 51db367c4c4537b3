------------------------------- MODULE EntryRules -------------------------------
(***************************************************************************)
(* The arithmetic of an entry: the risk profiles                           *)
(* (internal/config/risk_profiles.go), the parameters the decision core    *)
(* manages (internal/trader/param_registry.go), the futures mathematics    *)
(* (futures_math.go) and the entry gate (entry_gate.go).                   *)
(*                                                                         *)
(* A price level is its distance from the entry in the trade's favour, or  *)
(* for a stop against it, in millionths of the entry price (1 % = 10000),  *)
(* so that long and short trades share one arithmetic.  Multiples and      *)
(* scores are in hundredths, capital in dollars.  Quotients round down.    *)
(***************************************************************************)
EXTENDS Integers, Sequences, FiniteSetsExt, Functions

CONSTANTS
    NoAnswer,          \* a setting, an answer or a measurement that is not there
    Bad,               \* an error instead of a value
    ProfileFile,       \* RISK_PROFILES_FILE: per profile, the fields it restates
    Env                \* the bounds .env sets, see EntryRulesAssumption

\* The entry price, the equity: what a distance, a rate and a share are parts of.
Whole == 1000000

\* config.validateRequiredSemantics orders the bounds of the stop and of the
\* targets and asks for a positive risk floor; that the floor is not above the
\* cap nothing asks.  A bound of zero would switch its clamp off: these are set.
ASSUME EntryRulesAssumption ==
    /\ Env.minSL \in Nat \ {0} /\ Env.maxSL \in Nat /\ Env.minSL <= Env.maxSL
    /\ Env.minTP \in Nat \ {0} /\ Env.maxTP \in Nat /\ Env.minTP <= Env.maxTP
    /\ Env.minRisk \in Nat \ {0} /\ Env.maxRisk \in Nat \ {0}
    /\ Env.maxMargin \in 1..Whole

\* The fields of a profile in the file are numbers.
ASSUME ProfileFileAssumption ==
    \A name \in DOMAIN ProfileFile : \A f \in DOMAIN ProfileFile[name] :
        ProfileFile[name][f] \in Int

Lower(a, b) == IF a < b THEN a ELSE b
Higher(a, b) == IF a > b THEN a ELSE b
Within(v, lo, hi) == IF v < lo THEN lo ELSE IF v > hi THEN hi ELSE v

---------------------------------------------------------------------------
(* Risk profiles *)

DefaultCryptoProfile ==
    [horizonMin |-> 60, horizonMax |-> 60, breakevenAt |-> 30, flatAt |-> 40,
     slAtr |-> 150, slSwing |-> 25, slMin |-> 6000, slMax |-> 25000,
     tp1Atr |-> 75, tp2Atr |-> 230, tp1Frac |-> 60,
     hourlyVol |-> 35000, liqBuffer |-> 4, risk |-> 15000, halfLife |-> 15]

DefaultCommodityProfile ==
    [horizonMin |-> 240, horizonMax |-> 720, breakevenAt |-> 120, flatAt |-> 180,
     slAtr |-> 250, slSwing |-> 25, slMin |-> 6000, slMax |-> 40000,
     tp1Atr |-> 120, tp2Atr |-> 230, tp1Frac |-> 60,
     hourlyVol |-> 12000, liqBuffer |-> 4, risk |-> 10000, halfLife |-> 60]

\* A field the file restates with a positive value replaces the base's.
MergeProfile(base, ov) ==
    [f \in DOMAIN base |-> IF f \in DOMAIN ov THEN IF ov[f] > 0 THEN ov[f] ELSE base[f]
                           ELSE base[f]]

ValidProfile(p) ==
    /\ p.horizonMin > 0 /\ p.horizonMax >= p.horizonMin
    /\ 0 < p.breakevenAt /\ p.breakevenAt < p.flatAt /\ p.flatAt < p.horizonMax
    /\ 0 < p.slMin /\ p.slMin <= p.slMax
    /\ p.slAtr > 0 /\ p.tp1Atr > 0
    /\ 0 < p.tp1Frac /\ p.tp1Frac < 100
    /\ 0 < p.risk /\ p.risk <= 50000
    /\ p.liqBuffer >= 1 /\ p.halfLife > 0

\* An overlay that would not validate leaves the compiled profile in force.
LoadedProfile(name, base) ==
    IF name \notin DOMAIN ProfileFile THEN base
    ELSE LET merged == MergeProfile(base, ProfileFile[name])
         IN  IF ValidProfile(merged) THEN merged ELSE base

ProfileForBucket(bucket) ==
    IF bucket = "CORE" THEN LoadedProfile("COMMODITY", DefaultCommodityProfile)
    ELSE LoadedProfile("CRYPTO", DefaultCryptoProfile)

---------------------------------------------------------------------------
(* Managed parameters.  An answer has the distribution over the levels of a *)
(* score ("probs": level index to percent, empty when the core gave none), *)
(* the bare score and the chosen word or number.                           *)

MinRRLevels == <<120, 200, 300, 450>>
ConvictionLevels == <<25, 50, 75, 100>>
ConfluenceLevels == <<20, 30, 42, 55>>

\* The question of decay rides the news batch, never the entry batch.
EntryParamKeys == {"min_rr", "leverage", "conviction", "atr_regime", "confluence"}

ParamMode(over, key) == IF over[key] = NoAnswer THEN "core_managed" ELSE "override"

\* Only a managed parameter is asked about.
ManagedEntryQuestions(over) == {k \in EntryParamKeys : ParamMode(over, k) = "core_managed"}

\* The expected value over the levels; without a distribution the score is an
\* index between the levels, and outside them the value itself.
EvFromAnswer(ans, levels) ==
    LET keys == DOMAIN ans.probs
        total == SumFunction(ans.probs)
        top == 100 * (Len(levels) - 1)
        at == ans.score \div 100
    IN  IF keys # {}
        THEN IF keys \subseteq 0..(Len(levels) - 1) /\ total \in 97..103
             THEN SumFunction([k \in keys |-> ans.probs[k] * levels[k + 1]]) \div 100
             ELSE Bad
        ELSE IF ans.score = NoAnswer THEN Bad
        ELSE IF ans.score < 0 \/ ans.score > top THEN ans.score
        ELSE IF ans.score = top THEN levels[Len(levels)]
        ELSE levels[at + 1] + ((ans.score % 100) * (levels[at + 2] - levels[at + 1])) \div 100

\* A score without a distribution.
RawScoreOnly(ans) == DOMAIN ans.probs = {} /\ ans.score # NoAnswer

ClampMinRR(ans) ==
    LET val == EvFromAnswer(ans, MinRRLevels)
    IN  IF val = Bad THEN Bad ELSE Within(val, 50, 1000)

ClampLeverage(ans) ==
    LET val == IF ans.choice # NoAnswer THEN ans.choice
               ELSE IF ans.score # NoAnswer THEN ans.score \div 100 ELSE Bad
    IN  IF val = Bad THEN Bad ELSE Within(val, 1, 12)

\* math.Round(val*10000)/10000: to the nearest hundredth of a percent.
ToTenThousandth(risk) == ((risk + 50) \div 100) * 100

\* A bare score above the cap is taken for a risk fraction and capped; up to
\* the cap it is a share of the band, rounded, like the expected value is,
\* which is not.
ClampConviction(ans) ==
    LET band == Env.maxRisk - Env.minRisk
        ev == EvFromAnswer(ans, ConvictionLevels)
    IN  IF RawScoreOnly(ans)
        THEN IF ans.score < 0 THEN Env.minRisk
             ELSE IF ans.score # 100 /\ ans.score * 10000 > Env.maxRisk THEN Env.maxRisk
             ELSE ToTenThousandth(Env.minRisk + (ans.score * band) \div 100)
        ELSE IF ev = Bad THEN Bad
        ELSE IF ev < 0 THEN Env.minRisk
        ELSE Lower(Env.minRisk + (ev * band) \div 100, Env.maxRisk)

Regimes ==
    [TIGHT |-> [sl |-> 100, tp |-> 200], NORMAL |-> [sl |-> 150, tp |-> 300],
     WIDE |-> [sl |-> 200, tp |-> 400]]

ClampAtrRegime(ans) == IF ans.choice \in DOMAIN Regimes THEN Regimes[ans.choice] ELSE Bad

\* A bare score outside 0..1 is taken for the threshold itself.
ClampConfluence(ans) ==
    LET val == IF RawScoreOnly(ans) /\ ans.score \notin 0..100 THEN ans.score
               ELSE EvFromAnswer(ans, ConfluenceLevels)
    IN  IF val = Bad THEN Bad ELSE Within(val, 0, 100)

ClampParam(key, ans) ==
    CASE key = "min_rr" -> ClampMinRR(ans)
      [] key = "leverage" -> ClampLeverage(ans)
      [] key = "conviction" -> ClampConviction(ans)
      [] key = "atr_regime" -> ClampAtrRegime(ans)
      [] key = "confluence" -> ClampConfluence(ans)

\* Mutant of Resolve: a managed parameter without an answer gets a default.
ResolveWithDefault(over, answers, key) ==
    IF over[key] # NoAnswer THEN over[key]
    ELSE IF key \notin DOMAIN answers
    THEN IF key = "atr_regime" THEN Regimes.NORMAL ELSE 8
    ELSE ClampParam(key, answers[key])

\* An override is used as it is set; a managed parameter needs an answer.
Resolve(over, answers, key) ==
    IF over[key] # NoAnswer THEN over[key]
    ELSE IF key \notin DOMAIN answers THEN Bad
    ELSE ClampParam(key, answers[key])

ResolveEntry(over, answers) == [k \in EntryParamKeys |-> Resolve(over, answers, k)]

\* PackageParamRecord: what is stored with the signal.
PackageParamRecord(over, values) ==
    [modes |-> [k \in EntryParamKeys |-> ParamMode(over, k)], values |-> values]

---------------------------------------------------------------------------
(* Futures mathematics *)

\* The stop sits the profile's multiple and the swing offset behind the entry;
\* an unmeasured range leaves the raw stop at zero, which the clamp turns into
\* the widest stop.
ATRStop(atr, prof) ==
    LET raw == IF atr > 0 THEN ((prof.slAtr + prof.slSwing) * atr) \div 100 ELSE Whole
    IN  Within(raw, prof.slMin, prof.slMax)

StagedTargets(atr, prof) ==
    IF atr > 0 THEN [tp1 |-> (prof.tp1Atr * atr) \div 100, tp2 |-> (prof.tp2Atr * atr) \div 100]
    ELSE [tp1 |-> prof.slMin, tp2 |-> 2 * prof.slMin]

VolTargetLeverage(natr, cap, prof) ==
    IF natr <= 0 \/ prof.hourlyVol <= 0 THEN 1
    ELSE Lower(Higher(prof.hourlyVol \div natr, 1), Higher(cap, 1))

\* Isolated margin: entry less one leverage-th, plus 0.5 % maintenance.
LiquidationDistance(leverage) == (Whole \div leverage) - 5000

LiquidationBufferOK(sl, leverage, prof) ==
    leverage \in 1..125 /\ sl > 0 /\ LiquidationDistance(leverage) >= prof.liqBuffer * sl

\* The highest leverage, not above the one asked for, that keeps the buffer.
LeverageWithinBuffer(sl, leverage, prof) ==
    LET kept == {l \in 1..leverage : LiquidationBufferOK(sl, l, prof)}
    IN  IF kept = {} THEN 1 ELSE Max(kept)

\* Fixed fractional risk over the stop's distance and 10 bps of slippage.  A
\* risk above a tenth of the equity is not cut to a tenth but to two percent.
PositionMargin(equity, risk, capital, sl, leverage) ==
    LET capped == IF risk <= 0 \/ risk > 100000 THEN 20000 ELSE risk
    IN  Lower((equity * capped) \div ((sl + 1000) * leverage), capital)

MinReward(minRR, sl) == (minRR * sl) \div 100

\* Mutant of ClampTakeProfits: a runner behind the first target is kept.
ClampTakeProfitsKeepsRunner(tp1, tp2) ==
    [tp1 |-> Within(tp1, Env.minTP, Env.maxTP), tp2 |-> Within(tp2, Env.minTP, Env.maxTP)]

\* Both targets are put inside the bounds.  A runner that is not beyond the
\* first target is staged at twice its distance, or left out when the bound
\* forbids that.
ClampTakeProfits(tp1, tp2) ==
    LET first == Within(tp1, Env.minTP, Env.maxTP)
        runner == Within(tp2, Env.minTP, Env.maxTP)
    IN  [tp1 |-> first,
         tp2 |-> IF runner > first THEN runner
                 ELSE IF 2 * first <= Env.maxTP THEN 2 * first ELSE NoAnswer]

---------------------------------------------------------------------------
(* Entry gate.  An unknown measurement passes its rule. *)

TrendAgrees(long, vwapSide, superTrend) ==
    vwapSide = "unknown" \/ superTrend = "unknown"
        \/ (IF long THEN vwapSide = "above" /\ superTrend = "bull"
            ELSE vwapSide = "below" /\ superTrend = "bear")

\* The gate's rules in the order they are tried.  Volume is in tenths, the
\* distance to the middle band and the open interest's change in hundredths.
GateRules(long, m, oi, sl, leverage, liqBuffer) ==
    << [rule |-> "NO_TREND", hit |-> ~TrendAgrees(long, m.vwapSide, m.superTrend)],
       [rule |-> "NO_VOLUME", hit |-> m.volume \in 1..24],
       [rule |-> "CHASE_BLOCKED",
        hit |-> m.z # NoAnswer /\ (IF long THEN m.z > 200 ELSE -m.z > 200)],
       [rule |-> "OI_TRAP",
        hit |-> oi # NoAnswer /\ (IF long THEN oi < -150 ELSE oi > 150)],
       [rule |-> "LIQ_BUFFER",
        hit |-> LET distance == LiquidationDistance(leverage)
                IN  distance > 0 /\ distance < liqBuffer * sl] >>

\* The first rule the candidate breaks, or that it passes.
EvaluateEntryGate(long, m, oi, sl, leverage, liqBuffer) ==
    LET rules == GateRules(long, m, oi, sl, leverage, liqBuffer)
        broken == {i \in 1..Len(rules) : rules[i].hit}
    IN  IF broken = {} THEN "passes" ELSE rules[Min(broken)].rule
=============================================================================
