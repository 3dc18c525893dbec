------------------------------ MODULE MCFields ------------------------------
(***************************************************************************)
(* An instance of FieldReconciler for TLC: int32 is -4 .. 3, a float32 is  *)
(* an even number from 2 to 8, positive or negative, or 0.                 *)
(***************************************************************************)
EXTENDS FieldReconciler

MCInts64 == -13 .. 12
MCFloats64 == -10 .. 10
MCRound32 == [x \in MCFloats64 |-> 2 * (IF x < 0 THEN -((-x) \div 2) ELSE x \div 2)]
MCTypeOrder == <<"PRE_PROCESSING", "ORCHESTRATION">>

Pre(mode, x)  == [type |-> "PRE_PROCESSING", mode |-> mode, temperature |-> x]
Orch(mode, x) == [type |-> "ORCHESTRATION", mode |-> mode, temperature |-> x]

Plain == [ttl |-> 1, memory |-> [days |-> 3], prompts |-> <<Orch("OVERRIDDEN", 4)>>]

(* A number in range, one AWS refuses (-2), and each side of both ends,    *)
(* among them two that would wrap around to 1.                             *)
MCUserSpecs ==
    {[Plain EXCEPT !.ttl = n] : n \in {Nil, 1, 3, 4, 9, -2, -4, -5, -7}}
    \cup {[Plain EXCEPT !.memory = m] :
              m \in {Nil, [days |-> Nil], [days |-> 11], [days |-> -5]}}
    \cup {[Plain EXCEPT !.prompts = p] :
              p \in {Nil, <<>>, <<Orch("OVERRIDDEN", 5)>>, <<Orch("OVERRIDDEN", 1)>>,
                     <<Orch("OVERRIDDEN", -1)>>, <<Orch("OVERRIDDEN", 9)>>,
                     <<Orch("DEFAULT", 4)>>, <<Orch(Nil, 4)>>,
                     <<Orch("OVERRIDDEN", Nil), Pre("OVERRIDDEN", 2)>>}}
    \cup {[ttl |-> Nil, memory |-> Nil, prompts |-> Nil]}

MCDriftSpecs ==
    {[Plain EXCEPT !.ttl = 2],
     [Plain EXCEPT !.prompts = <<Pre("OVERRIDDEN", 6), Orch("OVERRIDDEN", 4)>>]}

MCRejectedTTLs == {-2, -4}

MCLimit == [k \in Kinds |-> 1]
=============================================================================
