------------------------------- MODULE MCDesk -------------------------------
(***************************************************************************)
(* Treasury, EarlyExit, EntryDecision and Settings on small instances, in  *)
(* one run.  The four share no state here: a behaviour is one of the four  *)
(* parts at work, the others at rest.                                      *)
(***************************************************************************)
EXTENDS Treasury, EarlyExit, EntryDecision, Settings, TLC

CONSTANTS
    Parts,        \* the parts this run lets work
    general, ann, \* the seeded general partner and another investor
    btc

VARIABLE part

deskVars == <<part, treasuryVars, vars, exitVars, entryVars, settingsVars>>

---------------------------------------------------------------------------
(* The ledger: empty, or with the seed row and one investor. *)

MCFirstLedgers ==
    LET Ann == [active |-> TRUE, deposited |-> 60, withdrawn |-> 0, units |-> 60]
    IN  {[i \in Investors |-> NoRow],
         [i \in Investors |-> IF i = general THEN SeedRow ELSE Ann]}

---------------------------------------------------------------------------
(* Early exits: guards of the core, one of them kept, and exits turned off. *)

MCOffers == {[symbol |-> btc, long |-> TRUE, entry |-> 10, stop |-> 8, tp |-> 14,
              leverage |-> 2, margin |-> 20]}

MCVerdicts == {[noul |-> 80, conf |-> 0], [noul |-> 60, conf |-> 0]}

MCGuardAnswers == {[perDay |-> 0, minHold |-> -5]}

MCGuardConfigs ==
    {[enabled |-> TRUE, managed |-> {"perDay", "minHold"}, minHold |-> 0,
      cooldown |-> 1, perDay |-> 0, floor |-> 75],
     [enabled |-> TRUE, managed |-> {"minHold"}, minHold |-> 0,
      cooldown |-> 1, perDay |-> 2, floor |-> 75],
     [enabled |-> FALSE, managed |-> {}, minHold |-> 1,
      cooldown |-> 1, perDay |-> 1, floor |-> 75]}

---------------------------------------------------------------------------
(* Entries: snapshots on both sides of every limit, answers that are sound, *)
(* weak, out of range or about other timeframes.                            *)

MCEnv == [minSL |-> 6000, maxSL |-> 25000, minTP |-> 15000, maxTP |-> 80000,
          minRisk |-> 5000, maxRisk |-> 20000, maxMargin |-> 200000]

MCProfileFile == ("CRYPTO" :> [slMax |-> 30000]) @@ ("COMMODITY" :> [slMin |-> 50000])

MCRequests ==
    LET Of(b, natr, vol, z, heard) ==
            [price |-> 1, equity |-> 1000, capital |-> 150, bucket |-> b, natr |-> natr,
             confluence |-> 40, measured |-> TRUE, headlines |-> heard,
             vwapSide |-> "above", superTrend |-> "bull", volume |-> vol, z |-> z]
        Plain == Of("ALPHA", 8000, 30, NoAnswer, TRUE)
    IN  {Of("ALPHA", natr, 30, 100, TRUE) : natr \in {0, 8000, 30000}}
        \cup {Of("CORE", 8000, 0, NoAnswer, FALSE),
              Of("ALPHA", 8000, 20, 300, TRUE), [Plain EXCEPT !.capital = 0],
              [Plain EXCEPT !.vwapSide = "unknown", !.measured = FALSE]}

Level(i) == [probs |-> (i :> 100), score |-> NoAnswer, choice |-> NoAnswer]
Bare(s)  == [probs |-> <<>>, score |-> s, choice |-> NoAnswer]
Word(w)  == [probs |-> <<>>, score |-> NoAnswer, choice |-> w]

MCAnswers ==
    LET Of(dir, conf, edge, rr, lev, conv, regime, confl) ==
            [direction |-> dir, conf |-> conf, edge |-> edge, frame |-> "1h",
             over |-> {"1h", "4h"},
             params |-> ("min_rr" :> rr @@ "leverage" :> lev @@ "conviction" :> conv
                         @@ "atr_regime" :> regime @@ "confluence" :> confl)]
        Wide == Of("LONG", 90, 80, Level(0), Word(12), Level(3), Word("WIDE"), Level(0))
    IN  {Wide, [Wide EXCEPT !.edge = 40],
         Of("LONG", 60, 80, Level(3), Word(5), Bare(50), Word("TIGHT"), Level(1)),
         Of("LONG", 90, 90, Bare(150), Word(10), Bare(1), Word("NORMAL"), Bare(200)),
         Of("SHORT", 90, 90, Bare(1100), Word(3), Level(1), Word("NORMAL"), Bare(50)),
         Of("LONG", 90, 90, Level(7), Word(12), Level(3), Word("WIDE"), Level(0))}
         \cup {[Wide EXCEPT !.over = {"1h"}, !.edge = 90]}

MCEscalationAnswers == {[choice |-> "SHORT", conf |-> 70], [choice |-> "NO_TRADE", conf |-> 10],
                        [choice |-> "BUY", conf |-> 90]}

MCOpenInterests == {200, -200, NoAnswer}

MCLiveSettings ==
    LET Frames == [b \in {"CORE", "ALPHA"} |-> {"1h", "4h"}]
        Core   == [k \in EntryParamKeys |-> NoAnswer]
    IN  {[over |-> Core, frames |-> Frames, threshold |-> 75],
         [over |-> [Core EXCEPT !["min_rr"] = 250, !["leverage"] = 8],
          frames |-> [Frames EXCEPT !["CORE"] = {}], threshold |-> 75]}

---------------------------------------------------------------------------
(* Settings: a file with every core key left to the core. *)

MCFirstFile == [k \in Keys |-> CASE k \in ManagedKeys -> Blank
                                 [] k = "CALENDAR_HALT_MINUTES" -> 15
                                 [] OTHER -> 1]

MCPayloads ==
    {"DEFAULT_LEVERAGE" :> 2, "DEFAULT_LEVERAGE" :> Blank, "CALENDAR_HALT_MINUTES" :> 0,
     "TELEGRAM_BOT_TOKEN" :> 2, "TYPESAFE_API_KEY" :> Blank,
     "TELEGRAM_CHAT_ID" :> 3 @@ "MAX_CONCURRENT_SIGNALS" :> 101,
     "TELEGRAM_BOT_TOKEN" :> Blank @@ "EARLY_EXIT_ENABLED" :> 1,
     "TYPESAFE_API_KEY" :> 2 @@ "EARLY_EXIT_ENABLED" :> Blank @@ "UPSTREAM_PROXY_URL" :> Hostless}

---------------------------------------------------------------------------
\* What a part at rest starts with does not matter; one choice is enough.
DeskInit ==
    /\ part \in Parts
    /\ TreasuryInit /\ (part # "treasury" => ledger = CHOOSE l \in FirstLedgers : TRUE)
    /\ EarlyExitInit /\ (part # "early exit" => savedGuards = CHOOSE g \in GuardConfigs : TRUE)
    /\ EntryInit /\ (part # "entry" => live = CHOOSE s \in LiveSettings : TRUE)
    /\ SettingsInit

DeskNext ==
    /\ UNCHANGED part
    /\ \/ /\ part = "treasury" /\ TreasuryNext
          /\ UNCHANGED <<vars, exitVars, entryVars, settingsVars>>
       \/ /\ part = "early exit" /\ EarlyExitNext
          /\ UNCHANGED <<treasuryVars, entryVars, settingsVars>>
       \/ /\ part = "entry" /\ EntryNext
          /\ UNCHANGED <<treasuryVars, vars, exitVars, settingsVars>>
       \/ /\ part = "settings" /\ SettingsNext
          /\ UNCHANGED <<treasuryVars, vars, exitVars, entryVars>>

DeskSpec == DeskInit /\ [][DeskNext]_deskVars

\* Requests, saves and evaluators are told apart by what they do alone.
DeskSymmetry == Permutations(Calls) \cup Permutations(Evaluators) \cup Permutations(Saves)

\* Every variable of the four parts keeps its shape.
DeskTypeOK == TreasuryTypeOK /\ EarlyExitTypeOK /\ EntryTypeOK /\ SettingsTypeOK
=============================================================================
