----------------------------- MODULE MCAccounts ------------------------------
(***************************************************************************)
(* Accounts and EmailChange for TLC: they share the table of users only,   *)
(* and each has its own part of it, so a behaviour is of one of the two.   *)
(* Users and addresses are interchangeable, so the first user to sign up   *)
(* is one of them, at one address; a SYMMETRY would disturb LockoutEnds.   *)
(***************************************************************************)
EXTENDS Accounts, EmailChange

VARIABLE scene     \* "access" or "move"

mcVars == <<aVars, chVars, scene>>

MCInit == AccInit /\ ChInit /\ scene \in {"access", "move"}

Access == scene = "access" /\ AccNext /\ UNCHANGED <<chVars, scene>>

FirstUser == CHOOSE u \in Users : TRUE
FirstAddress == CHOOSE a \in Addresses : TRUE
InOrder ==
    email[FirstUser] = Nowhere =>
        \A u \in Users : email'[u] # Nowhere => u = FirstUser /\ email'[u] = FirstAddress

Move == scene = "move" /\ ChNext /\ InOrder /\ UNCHANGED <<aVars, scene>>

MCNext == Access \/ Move

MCSpec == MCInit /\ [][MCNext]_mcVars /\ AccFairness

=============================================================================
