--------------------------- MODULE AgentResource ---------------------------
(***************************************************************************)
(* The data the controller reasons about: the parts of an Agent custom     *)
(* resource that its decisions tell apart, and the pure functions on them  *)
(* that pkg/resource/agent computes (delta.go, hooks.go, manager.go).      *)
(*                                                                         *)
(* A spec has three parts, one for each way the code treats a field:       *)
(*   conf    any of the fields that newResourceDelta compares as is; when  *)
(*           it is left out (Nil) AWS fills it in, as it does for          *)
(*           idleSessionTTLInSeconds;                                      *)
(*   prompt  PromptOverrideConfiguration, the field with its own           *)
(*           comparison and the only one that is late initialized;         *)
(*   tags    the keys of the tag map, written by calls of their own.       *)
(***************************************************************************)
EXTENDS FiniteSets

CONSTANTS
    Confs,        \* values of a plain field
    DefaultConf,  \* the one AWS fills in when the field is left out
    Overrides,    \* prompt configurations a user may ask for
    NoOverride,   \* the prompt configuration AWS sets by default (all modes DEFAULT)
    TagKeys,      \* tag keys; TagSync.tla looks at their values
    Ids,          \* identifiers AWS may give to agents
    Nil           \* a Go nil pointer

AgentStatuses == {"CREATING", "PREPARING", "PREPARED", "NOT_PREPARED",
                  "DELETING", "FAILED", "VERSIONING", "UPDATING"}

ASSUME ValueAssumption ==
    /\ DefaultConf \in Confs
    /\ Nil # NoOverride
    /\ Nil \notin Confs \cup Overrides \cup Ids \cup AgentStatuses
    /\ NoOverride \notin Overrides

Prompts == Overrides \cup {NoOverride, Nil}

AgentSpec == [conf : Confs \cup {Nil}, prompt : Prompts, tags : SUBSET TagKeys]

(* A resource as the reconciler passes it around: Spec, Status.AgentID,    *)
(* Status.AgentStatus, and whether its metadata carries the finalizer.     *)
Resource == [spec : AgentSpec, id : Ids \cup {Nil},
             status : AgentStatuses \cup {Nil}, managed : BOOLEAN]

(* ackcompare.HasNilDifference: exactly one of the two is nil.             *)
HasNilDifference(a, b) == (a = Nil) # (b = Nil)

ComparePrompt(a, b) ==
    \/ HasNilDifference(a, b)
    \/ a # Nil /\ b # Nil /\ a # b

(* Mutant of CompareAgentStatus: only an agent that failed is prepared.    *)
CompareAgentStatusFailed(status) == status = "FAILED"

(* Mutant of CompareAgentStatus: a prepared agent is prepared again.       *)
CompareAgentStatusKnown(status) == status # Nil

(* The virtual field Spec.AgentStatus: any known status but PREPARED.      *)
CompareAgentStatus(status) == status \notin {Nil, "PREPARED"}

(* Mutant of Delta: the virtual path goes by a name sdkUpdate does not ask *)
(* for.                                                                    *)
DeltaMisspelt(desired, latest) ==
    IF CompareAgentStatus(latest.status) THEN {"Status.AgentStatus"} ELSE {}

Delta(desired, latest) ==
    {p \in {"AgentStatus", "Prompt", "Conf", "Tags"} :
        CASE p = "AgentStatus" -> CompareAgentStatus(latest.status)
          [] p = "Prompt" -> ComparePrompt(desired.spec.prompt, latest.spec.prompt)
          [] p = "Conf"   -> desired.spec.conf # latest.spec.conf
          [] p = "Tags"   -> desired.spec.tags # latest.spec.tags}

(* Mutant of IsSynced: an updated agent counts before it is prepared.      *)
IsSyncedEarly(r) == r.status \in {"PREPARED", "NOT_PREPARED"}

IsSynced(r) == r.status \in {"PREPARED"}

(* Mutant of LateInitialized: the value AWS reports always wins.           *)
LateInitializedAlways(latest, observed) ==
    [latest EXCEPT !.spec.prompt = observed.spec.prompt]

LateInitialized(latest, observed) ==
    IF observed.spec.prompt # Nil /\ latest.spec.prompt = Nil
    THEN [latest EXCEPT !.spec.prompt = observed.spec.prompt]
    ELSE latest

(* Mutant of IncompleteLateInitialization: AWS's first answer will do.     *)
IncompleteNever(r) == FALSE

IncompleteLateInitialization(r) == r.spec.prompt = Nil
=============================================================================
