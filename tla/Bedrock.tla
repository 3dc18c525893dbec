------------------------------ MODULE Bedrock ------------------------------
(***************************************************************************)
(* The Bedrock Agent service as the controller sees it: code outside the   *)
(* repository, modelled from the calls in pkg/resource/agent/sdk.go and    *)
(* hooks.go and the statuses of apis/v1alpha1/enums.go. An agent moves     *)
(* through its transitional statuses on its own (Settle), and the service  *)
(* refuses to change an agent that is in one of them.                      *)
(***************************************************************************)
EXTENDS AgentResource

CONSTANTS
    Invalid,        \* the Confs refused with a ValidationException
    BusyErrs,       \* how a refusal because of a transitional status is classified
    DefaultsLate    \* TRUE: the default prompt shows up only once the agent settles

ASSUME BedrockAssumption ==
    /\ Invalid \subseteq Confs
    /\ BusyErrs \subseteq {"recoverable", "terminal"}
    /\ DefaultsLate \in BOOLEAN

VARIABLES
    awsStatus,   \* Ids -> a status, or "unused" before and "gone" after the agent's life
    awsSpec      \* Ids -> the agent's draft, and its tags

awsVars == <<awsStatus, awsSpec>>

Exists(i)    == awsStatus[i] \in AgentStatuses
Live(i)      == Exists(i) /\ awsStatus[i] # "DELETING"
CanMutate(i) == awsStatus[i] \in {"NOT_PREPARED", "PREPARED", "FAILED"}
Busy(i)      == Exists(i) /\ ~CanMutate(i)

(* What the service stores, and shows in its reply: what the request       *)
(* leaves out is filled in, the prompt perhaps only once the agent settles. *)
Stored(spec) ==
    [spec EXCEPT !.conf = IF @ = Nil THEN DefaultConf ELSE @,
                 !.prompt = IF @ = Nil /\ ~DefaultsLate THEN NoOverride ELSE @]

AwsCreate(i, spec) ==
    /\ awsStatus[i] = "unused"
    /\ awsStatus' = [awsStatus EXCEPT ![i] = "CREATING"]
    /\ awsSpec' = [awsSpec EXCEPT ![i] = Stored(spec)]

AwsPrepare(i) ==
    /\ CanMutate(i)
    /\ awsStatus' = [awsStatus EXCEPT ![i] = "PREPARING"]
    /\ UNCHANGED awsSpec

(* UpdateAgent replaces the draft; tags have calls of their own.           *)
AwsUpdate(i, spec) ==
    /\ CanMutate(i)
    /\ awsStatus' = [awsStatus EXCEPT ![i] = "UPDATING"]
    /\ awsSpec' = [awsSpec EXCEPT ![i] = [Stored(spec) EXCEPT !.tags = awsSpec[i].tags]]

AwsDelete(i) ==
    /\ CanMutate(i)
    /\ awsStatus' = [awsStatus EXCEPT ![i] = "DELETING"]
    /\ UNCHANGED awsSpec

AwsSetTags(i, tags) ==
    /\ Exists(i)
    /\ awsSpec' = [awsSpec EXCEPT ![i].tags = tags]
    /\ UNCHANGED awsStatus

SettlesTo(status) ==
    CASE status = "CREATING"  -> {"NOT_PREPARED"}
      [] status = "UPDATING"  -> {"NOT_PREPARED"}
      [] status = "PREPARING" -> {"PREPARED", "FAILED"}
      [] status = "DELETING"  -> {"gone"}
      [] OTHER -> {}

AwsSettle(i, to) ==
    /\ to \in SettlesTo(awsStatus[i])
    /\ awsStatus' = [awsStatus EXCEPT ![i] = to]
    /\ awsSpec' = [awsSpec EXCEPT ![i].prompt = IF @ = Nil THEN NoOverride ELSE @]
=============================================================================
