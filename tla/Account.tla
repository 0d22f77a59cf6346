------------------------------ MODULE Account ------------------------------
(***************************************************************************)
(* What the credit ledger promises its callers: accounts whose balance and *)
(* lifetime counters change by whole purchases, refunds and burns, each of *)
(* them booked at once, and none of them leaving a debt.  CreditLedger,    *)
(* where a call is several SQL statements and may die between two of them, *)
(* implements it.                                                          *)
(***************************************************************************)
EXTENDS Integers

CONSTANTS
    Orgs,
    Amounts,       \* whole numbers of micro-dollars
    InitialCredit

VARIABLES
    balance, purchased, consumed,
    books        \* what was booked, by org and kind

vars == <<balance, purchased, consumed, books>>

Kinds == {"purchase", "burn", "refund"}

Init ==
    /\ balance = [o \in Orgs |-> InitialCredit]
    /\ purchased = [o \in Orgs |-> InitialCredit]
    /\ consumed = [o \in Orgs |-> 0]
    /\ books = [o \in Orgs |-> [k \in Kinds |-> IF k = "purchase" THEN InitialCredit ELSE 0]]

Book(o, k, a) == books' = [books EXCEPT ![o][k] = @ + a]

Purchase(o, a) ==
    /\ balance' = [balance EXCEPT ![o] = @ + a]
    /\ purchased' = [purchased EXCEPT ![o] = @ + a]
    /\ Book(o, "purchase", a)
    /\ UNCHANGED consumed

Refund(o, a) ==
    /\ balance' = [balance EXCEPT ![o] = @ + a]
    /\ Book(o, "refund", a)
    /\ UNCHANGED <<purchased, consumed>>

Burn(o, a) ==
    /\ balance[o] >= a
    /\ balance' = [balance EXCEPT ![o] = @ - a]
    /\ consumed' = [consumed EXCEPT ![o] = @ + a]
    /\ Book(o, "burn", a)
    /\ UNCHANGED purchased

Next == \E o \in Orgs, a \in Amounts : Purchase(o, a) \/ Refund(o, a) \/ Burn(o, a)

Spec == Init /\ [][Next]_vars

-----------------------------------------------------------------------------
TypeOK ==
    /\ balance \in [Orgs -> Nat]
    /\ purchased \in [Orgs -> Nat]
    /\ consumed \in [Orgs -> Nat]
    /\ books \in [Orgs -> [Kinds -> Nat]]

(* The books explain the balance and both lifetime counters, which is what *)
(* the columns of org_credit_balance stand for.                            *)
Reconciled ==
    \A o \in Orgs :
        /\ purchased[o] = books[o]["purchase"]
        /\ consumed[o] = books[o]["burn"]
        /\ balance[o] = books[o]["purchase"] + books[o]["refund"] - books[o]["burn"]
=============================================================================
