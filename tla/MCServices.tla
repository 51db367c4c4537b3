----------------------------- MODULE MCServices -----------------------------
(***************************************************************************)
(* MarketFeed, Guardian, LiveStream, Messenger and ShadowDesk on small     *)
(* instances, in one run.  The five share no state here: a behaviour is    *)
(* one of the parts at work, under its own fairness, the others at rest.   *)
(***************************************************************************)
EXTENDS MarketFeed, Guardian, LiveStream, Messenger, ShadowDesk

CONSTANTS
    Parts,       \* the parts this run lets work
    btc, eth, xau

VARIABLE part

servicesVars == <<part, feedVars, guardianVars,
                  streamVars, messengerVars, shadowVars>>

---------------------------------------------------------------------------
MCSourceOf == [a \in Assets |-> IF a = xau THEN "futures" ELSE "spot"]

MCOrder == <<btc, xau>>

\* A long that both prices close, 6 at its stop; a short that 12 stops and 6
\* brings home.
MCOffers ==
    {[symbol |-> btc, long |-> TRUE, entry |-> 10, stop |-> 8, tp |-> 14,
      leverage |-> 2, margin |-> 20],
     [symbol |-> xau, long |-> FALSE, entry |-> 10, stop |-> 12, tp |-> 6,
      leverage |-> 1, margin |-> 30]}

---------------------------------------------------------------------------
\* What a part at rest starts with does not matter; one choice is enough.
ServicesInit ==
    /\ part \in Parts
    /\ FeedInit
    /\ GuardianInit
    /\ StreamInit
    /\ MessengerInit /\ (part # "messenger" => ~enabled)
    /\ ShadowInit /\ (part # "shadow" => threshold = 0)

ServicesNext ==
    /\ UNCHANGED part
    /\ \/ /\ part = "feed" /\ FeedNext
          /\ UNCHANGED <<guardianVars, streamVars, messengerVars, shadowVars>>
       \/ /\ part = "guardian" /\ GuardianNext
          /\ UNCHANGED <<feedVars, streamVars, messengerVars, shadowVars>>
       \/ /\ part = "stream" /\ StreamNext
          /\ UNCHANGED <<feedVars, guardianVars, messengerVars, shadowVars>>
       \/ /\ part = "messenger" /\ MessengerNext
          /\ UNCHANGED <<feedVars, guardianVars, streamVars, shadowVars>>
       \/ /\ part = "shadow" /\ ShadowNext
          /\ UNCHANGED <<feedVars, guardianVars, streamVars, messengerVars>>

\* GuardianFairness, MessengerFairness and ShadowFairness, each asked of the
\* behaviours in which its part works.
ServicesFairness ==
    /\ WF_guardianVars(part = "guardian" /\ ProcessTick)
    /\ \A w \in Workers : WF_messengerVars(part = "messenger" /\ Work(w))
    /\ \A j \in Judges : WF_shadowVars(part = "shadow" /\ Judging(j))

ServicesSpec == ServicesInit /\ [][ServicesNext]_servicesVars /\ ServicesFairness

\* Every variable of the five parts keeps its shape.
ServicesTypeOK ==
    FeedTypeOK /\ GuardianTypeOK /\ StreamTypeOK /\ MessengerTypeOK /\ ShadowTypeOK
=============================================================================
