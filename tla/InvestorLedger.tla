--------------------------- MODULE InvestorLedger ---------------------------
(***************************************************************************)
(* What the investor ledger and the Tier 1 reserve promise together, with  *)
(* no handlers, locks, prices or failed statements: every movement of      *)
(* money is one step, and the books are balanced in it.  Units are bought  *)
(* and redeemed at whatever price the pool was given; an investor redeems  *)
(* only units that are there; what the ledger pays out is owed by the      *)
(* reserve until it is settled, and the reserve settles only what it has.  *)
(***************************************************************************)
EXTENDS Integers

CONSTANTS Investors, Amounts, InitialCapital

VARIABLES
    accounts,         \* the row of each investor
    journal,          \* the units its transactions add up to
    cash,             \* the reserve
    owed,             \* paid by the ledger, not yet taken from the reserve
    process           \* how often the process was started again

ledgerVars == <<accounts, journal, cash, owed, process>>

Account == [active: BOOLEAN, deposited: Nat, withdrawn: Nat, units: Nat]

Init ==
    /\ accounts \in [Investors -> Account]
    /\ \A i \in Investors : ~accounts[i].active => accounts[i].units = 0
    /\ journal = [i \in Investors |-> accounts[i].units]
    /\ cash \in Nat
    /\ owed = 0
    /\ process = 0

\* A deposit, or the first one of an investor who had no account.
Subscribe(i, a) ==
    LET units == accounts'[i].units - accounts[i].units
    IN  /\ units \in Nat
        /\ accounts' = [accounts EXCEPT ![i].active = TRUE,
                                        ![i].deposited = @ + a, ![i].units = @ + units]
        /\ journal' = [journal EXCEPT ![i] = @ + units]
        /\ UNCHANGED <<cash, owed, process>>

\* A withdrawal burns units of the account and no more than it has.
Redeem(i, a) ==
    LET units == accounts[i].units - accounts'[i].units
    IN  /\ accounts[i].active
        /\ units \in 0..accounts[i].units
        /\ accounts' = [accounts EXCEPT ![i].withdrawn = @ + a, ![i].units = @ - units]
        /\ journal' = [journal EXCEPT ![i] = @ - units]
        /\ owed' = owed + a
        /\ UNCHANGED <<cash, process>>

\* The reserve is debited for a withdrawal.
Settle(a) ==
    /\ a <= cash /\ a <= owed
    /\ cash' = cash - a
    /\ owed' = owed - a
    /\ UNCHANGED <<accounts, journal, process>>

\* A share of a deposit or a profit is swept into the reserve.
Credit ==
    /\ cash' >= cash
    /\ UNCHANGED <<accounts, journal, owed, process>>

\* A new process counts the reserve afresh, owes nothing and, over an empty
\* ledger, opens the account of the configured capital.
Reopen(i) ==
    /\ cash' \in Nat
    /\ owed' = 0
    /\ process' = process + 1
    /\ \/ UNCHANGED <<accounts, journal>>
       \/ /\ \A j \in Investors : ~accounts[j].active
          /\ accounts' = [accounts EXCEPT ![i] =
                 [active |-> TRUE, deposited |-> InitialCapital, withdrawn |-> 0,
                  units |-> InitialCapital]]
          /\ journal' = [journal EXCEPT ![i] = @ + InitialCapital]

Next ==
    \/ \E i \in Investors, a \in Amounts \cup {InitialCapital} : Subscribe(i, a)
    \/ \E i \in Investors, a \in Amounts : Redeem(i, a)
    \/ \E a \in Amounts : Settle(a)
    \/ Credit
    \/ \E i \in Investors : Reopen(i)

Spec == Init /\ [][Next]_ledgerVars
=============================================================================
