---------------------------- MODULE MCReconciler ----------------------------
(***************************************************************************)
(* Instances of AgentReconciler for TLC. Limits name the bound of every    *)
(* kind of disturbance; each run picks one of them.                        *)
(***************************************************************************)
EXTENDS AgentReconciler, TLC

CONSTANTS c1, c2, c3, o1, t1, a1, a2, a3

MCConfs == {c1, c2, c3}
MCValidConfs == {c1, c2}    \* with nothing AWS refuses
MCFewConfs == {c1, c3}
MCOverrides == {o1}
MCTagKeys == {t1}
MCIds2 == {a1, a2}
MCIds3 == {a1, a2, a3}
MCInvalid == {c3}
MCNone == {}

Symmetry == Permutations(MCIds3)

Limits(edits, kinds) ==
    [k \in Kinds |-> CASE k = "edit" -> edits [] k \in kinds -> 1 [] OTHER -> 0]

(* A creation and two later edits, and any fault once; Budget mixes them.  *)
MCAnyFault == Limits(3, Kinds)

(* The same without the faults after which the CR's status is behind what  *)
(* the worker did (a crash, a lost reply, a failed status patch) and       *)
(* without changes from outside.                                           *)
MCStatusKept == Limits(3, {"api", "k8s", "failPrepare"})

(* One edit fewer: the temporal properties see every fault, alone or with  *)
(* another.                                                                *)
MCLive == Limits(2, Kinds)

(* An edit and a restart of the controller.                                *)
MCRestart == Limits(2, {"crash"})

(* A creation and a deletion, with no fault.                               *)
MCNoFault == Limits(2, {})
=============================================================================
