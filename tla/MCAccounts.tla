----------------------------- MODULE MCAccounts -----------------------------
(***************************************************************************)
(* Who may act, and who is who: the sessions of two administrators, the    *)
(* roster of a small school, or the registration of one member of staff.   *)
(* They share no state; a behaviour is of one.                             *)
(***************************************************************************)
EXTENDS MCSessions, MCRoster, MCActivation

VARIABLE about   \* what this behaviour is about

\* The part a behaviour is not about is at rest: none of its calls is made.
AccountsInit ==
    /\ about \in {"sessions", "roster", "activation"}
    /\ \E S \in IF about = "sessions" THEN Scenarios ELSE {{}} : InitWith(S)
    /\ \E S \in IF about = "roster" THEN RosterScenarios ELSE {{}} : RosterInitWith(S)
    /\ \E x \in IF about = "activation" THEN ActivationScenarios
                 ELSE {[calls |-> {}, done |-> {}, legacy |-> FALSE]} :
           ActivationInitWith(x.calls, x.done, x.legacy)

AccountsNext ==
    /\ \/ about = "sessions" /\ Next /\ UNCHANGED <<rosterVars, activationVars>>
       \/ about = "roster" /\ RosterNext /\ UNCHANGED <<vars, activationVars>>
       \/ about = "activation" /\ ActivationNext /\ UNCHANGED <<vars, rosterVars>>
    /\ UNCHANGED about

AccountsSpec == AccountsInit /\ [][AccountsNext]_<<about, vars, rosterVars, activationVars>>
=============================================================================
