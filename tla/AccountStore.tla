---------------------------- MODULE AccountStore ----------------------------
(***************************************************************************)
(* What the user of the machine may expect of an account store that        *)
(* survives power failures: one account is registered, with a password     *)
(* that is long enough; its owner chooses a use case, as often as the      *)
(* dialogue is interrupted, and completes it once; and nothing else ever   *)
(* happens to an account.  This is promised as long as the store is        *)
(* intact, which it does not become again.                                 *)
(***************************************************************************)
CONSTANTS
    Names,       \* user names
    Secrets,     \* what is stored of the passwords that sign-up accepts
    UseCases     \* the choices of the onboarding dialogue

VARIABLES
    store,       \* the accounts
    intact       \* nothing has happened that the store does not survive

Init == store = {} /\ intact = TRUE

Register ==
    \E name \in Names, secret \in Secrets :
        /\ store = {}
        /\ store' = {[name |-> name, secret |-> secret, usecase |-> "none", onboarded |-> FALSE]}

Becomes(a, b) == a \in store /\ ~a.onboarded /\ store' = (store \ {a}) \cup {b}

Choose == \E a \in store, usecase \in UseCases : Becomes(a, [a EXCEPT !.usecase = usecase])

Complete == \E a \in store : a.usecase \in UseCases /\ Becomes(a, [a EXCEPT !.onboarded = TRUE])

Works == intact /\ intact' = TRUE /\ (Register \/ Choose \/ Complete)

Breaks == intact' = FALSE

Next == Works \/ Breaks

Spec == Init /\ [][Next]_<<store, intact>>
=============================================================================
