------------------------------- MODULE Escrow -------------------------------
(***************************************************************************)
(* What the billing of a request promises (relay/common/billing.go):       *)
(* quota taken from the user's source stands on an account of the request, *)
(* which is in the end either charged with a price, once and for good, or  *)
(* released, and never both.                                               *)
(***************************************************************************)
EXTENDS Integers

CONSTANTS Requests, Prices

VARIABLES
    phase,  \* "open", "charged" or "released"
    paid,   \* the account: net quota taken for the request
    faulty  \* requests an error has hit: some quota may be kept from the user

vars == <<phase, paid, faulty>>

Init ==
    /\ phase = [r \in Requests |-> "open"]
    /\ paid = [r \in Requests |-> 0]
    /\ faulty = {}

\* Errors may strike along with any step; nothing heals them.
MayFail(r) == faulty' \in {faulty, faulty \cup {r}}

\* Only the account of r moves.
Only(r) == paid' = [paid EXCEPT ![r] = paid'[r]]

\* The hold of an open account is taken, raised, or taken back.
Adjust(r) ==
    /\ phase[r] = "open"
    /\ Only(r) /\ paid'[r] \in Nat
    /\ phase' = phase
    /\ MayFail(r)

\* The account is charged: the price, or more where an error keeps some quota.
Charge(r) ==
    /\ phase[r] = "open"
    /\ Only(r)
    /\ \E price \in Prices :
          /\ paid'[r] >= price
          /\ r \notin faulty => paid'[r] = price
    /\ phase' = [phase EXCEPT ![r] = "charged"]
    /\ faulty' = faulty

\* The request failed: from now on quota only flows back.
Release(r) ==
    /\ phase[r] = "open"
    /\ phase' = [phase EXCEPT ![r] = "released"]
    /\ UNCHANGED <<paid, faulty>>

GiveBack(r) ==
    /\ phase[r] = "released"
    /\ Only(r) /\ paid'[r] \in 0 .. paid[r]
    /\ phase' = phase
    /\ MayFail(r)

Break ==
    /\ \E R \in SUBSET Requests : faulty' = faulty \cup R
    /\ UNCHANGED <<phase, paid>>

Next == Break \/ \E r \in Requests : Adjust(r) \/ Charge(r) \/ Release(r) \/ GiveBack(r)

Spec == Init /\ [][Next]_vars
=============================================================================
