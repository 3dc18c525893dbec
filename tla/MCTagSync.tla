----------------------------- MODULE MCTagSync -----------------------------
(***************************************************************************)
(* An instance of TagSync for TLC: one key of each origin.                 *)
(***************************************************************************)
EXTENDS TagSync

CONSTANTS u1, s1, x1, v1

MCUserKeys == {u1}
MCSystemKeys == {s1}
MCAwsKeys == {x1}
MCValues == {v1}

(* The flag off or on.                                                     *)
MCFlagSettings ==
    {[k \in Keys |-> IF k \in SystemKeys THEN v ELSE NoTag] : v \in {NoTag, v1}}

(* Every kind of disturbance once, in any combination and at any moment;   *)
(* the initial states have any tags on the agent.                          *)
MCLimit == [k \in Kinds |-> 1]
=============================================================================
