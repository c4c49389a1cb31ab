------------------------------ MODULE Allowance ------------------------------
(***************************************************************************)
(* What the per-subject budget promises, whatever counts it: in each       *)
(* window at most Limit requests are granted a unit and keep it.  A        *)
(* request that asked in one window may be answered in the next, and what  *)
(* a window grants with those is twice Limit at the most.  Only a request  *)
(* that holds a unit calls a provider, and only one that called none may   *)
(* give its unit back.  No counter, no expiry, no lost answer and no crash *)
(* appears here; UpstreamBudget implements it with them.                   *)
(***************************************************************************)
EXTENDS Naturals, FiniteSets

CONSTANTS Requests, Limit

VARIABLES
    window,     \* the window the clock is in
    unit,       \* of each request: none, asked, refused, held, spent, returned
    at,         \* the window whose unit it asks for
    called      \* whether it has called a provider

vars == <<window, unit, at, called>>

Init ==
    /\ window = 0
    /\ unit = [r \in Requests |-> "none"]
    /\ at = [r \in Requests |-> 0]
    /\ called = [r \in Requests |-> FALSE]

(* The units of window w that are not to be had.                           *)
Gone(w) == {r \in Requests : at[r] = w /\ unit[r] \in {"held", "spent"}}

Ask(r) ==
    /\ unit[r] = "none"
    /\ unit' = [unit EXCEPT ![r] = "asked"]
    /\ at' = [at EXCEPT ![r] = window]
    /\ UNCHANGED <<window, called>>

Grant(r) ==
    /\ unit[r] = "asked"
    /\ window <= at[r] + 1
    /\ Cardinality(Gone(at[r])) < IF window = at[r] THEN Limit ELSE 2 * Limit
    /\ unit' = [unit EXCEPT ![r] = "held"]
    /\ UNCHANGED <<window, at, called>>

Refuse(r) ==
    /\ unit[r] = "asked"
    /\ unit' = [unit EXCEPT ![r] = "refused"]
    /\ UNCHANGED <<window, at, called>>

Call(r) ==
    /\ unit[r] = "held"
    /\ called' = [called EXCEPT ![r] = TRUE]
    /\ UNCHANGED <<window, unit, at>>

Settle(r) ==
    /\ unit[r] = "held"
    /\ unit' = [unit EXCEPT ![r] = IF called[r] THEN "spent" ELSE "returned"]
    /\ UNCHANGED <<window, at, called>>

NextWindow ==
    /\ window' \in Nat /\ window' > window
    /\ UNCHANGED <<unit, at, called>>

Next ==
    \/ \E r \in Requests :
          Ask(r) \/ Grant(r) \/ Refuse(r) \/ Call(r) \/ Settle(r)
    \/ NextWindow

Spec == Init /\ [][Next]_vars
=============================================================================
