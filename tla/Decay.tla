------------------------------- MODULE Decay -------------------------------
(***************************************************************************)
(* The pure rules that decide when a signal leaves the book: level         *)
(* crossings (trader/signals.go), the time-decay state machine and the     *)
(* break-even stop (trader/futures_math.go).  Ages count checkpoints; R    *)
(* multiples are kept as the fraction gain/risk, compared without dividing.*)
(***************************************************************************)
EXTENDS Integers

Profile == [breakeven: Nat, flat: Nat, horizon: Nat]

DecayStates == {"NONE", "BREAKEVEN", "CLOSED"}

\* Mutant of Resolution: the stop itself does not count as a hit.
ResolutionStrict(sig, stop, p) ==
    CASE (IF sig.long THEN p >= sig.tp ELSE p <= sig.tp) -> "TAKE_PROFIT"
      [] (IF sig.long THEN p < sig.tp /\ p < stop ELSE p > sig.tp /\ p > stop)
             -> "STOP_LOSS"
      [] OTHER -> "NONE"

\* What CheckSignalResolution finds for a row with this stop at price p.
Resolution(sig, stop, p) ==
    CASE (IF sig.long THEN p >= sig.tp ELSE p <= sig.tp) -> "TAKE_PROFIT"
      [] (IF sig.long THEN p < sig.tp /\ p <= stop ELSE p > sig.tp /\ p >= stop)
             -> "STOP_LOSS"
      [] OTHER -> "NONE"

\* Distance from the entry to the stop on the losing side: not positive once
\* the stop has been moved past the entry.
RiskDistance(sig, stop) ==
    IF sig.long THEN sig.entry - stop ELSE stop - sig.entry

Gain(sig, p) == IF sig.long THEN p - sig.entry ELSE sig.entry - p

\* Entry moved past the round-trip fees, given in price units.
BreakevenStopPrice(sig, fees) ==
    IF sig.long THEN sig.entry + fees ELSE sig.entry - fees

Tighter(sig, new, old) == IF sig.long THEN new > old ELSE new < old

\* Mutant of EvaluateDecay: the flat checkpoint fires one checkpoint early.
EvaluateDecayEarlyFlat(age, gain, risk, state, prof) ==
    CASE age >= prof.horizon -> [state |-> "CLOSED", action |-> "TIME_EXIT"]
      [] age < prof.horizon /\ age + 1 >= prof.flat /\ gain <= 0 ->
            [state |-> "CLOSED", action |-> "CLOSE"]
      [] OTHER -> [state |-> state, action |-> ""]

\* The checkpoints in the order the code tries them; a checkpoint of 0 is off.
EvaluateDecay(age, gain, risk, state, prof) ==
    LET horizon == prof.horizon > 0 /\ age >= prof.horizon
        flat    == prof.flat > 0 /\ age >= prof.flat /\ gain <= 0
        protect == /\ prof.breakeven > 0 /\ age >= prof.breakeven
                   /\ state = "NONE" /\ 2 * gain < risk
    IN  CASE horizon -> [state |-> "CLOSED", action |-> "TIME_EXIT"]
          [] ~horizon /\ flat -> [state |-> "CLOSED", action |-> "CLOSE"]
          [] ~horizon /\ ~flat /\ protect ->
                [state |-> "BREAKEVEN", action |-> "BREAKEVEN"]
          [] OTHER -> [state |-> state, action |-> ""]
=============================================================================
