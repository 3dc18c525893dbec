--------------------------- MODULE AgentLifecycle ---------------------------
(***************************************************************************)
(* What the controller promises about the agents of one custom resource,   *)
(* with no mention of reconciliation: an agent is created only under a     *)
(* guard (the finalizer), only when there is none, and never a second time *)
(* under the same identifier; the guard is given up only when no agent is  *)
(* left. AgentReconciler implements it.                                    *)
(***************************************************************************)
CONSTANT Ids

VARIABLES
    guarded,    \* the custom resource exists and carries the finalizer
    agents,     \* the agents the controller is answerable for
    past        \* every identifier ever given out

vars == <<guarded, agents, past>>

Init == guarded = FALSE /\ agents = {} /\ past = {}

Guard ==
    /\ ~guarded /\ guarded' = TRUE
    /\ UNCHANGED <<agents, past>>

(* An agent whose creation the controller never learns of is not counted.  *)
Create(i) ==
    /\ guarded /\ agents = {} /\ i \notin past
    /\ past' = past \cup {i}
    /\ agents' \in {{i}, {}}
    /\ UNCHANGED guarded

(* The agent is deleted, or its identifier is lost.                        *)
Leave ==
    /\ agents # {} /\ agents' = {}
    /\ UNCHANGED <<guarded, past>>

Unguard ==
    /\ guarded /\ agents = {} /\ guarded' = FALSE
    /\ UNCHANGED <<agents, past>>

Next == Guard \/ Leave \/ Unguard \/ \E i \in Ids : Create(i)

Spec == Init /\ [][Next]_vars
=============================================================================
