--------------------------- MODULE AgentReferences --------------------------
(***************************************************************************)
(* The execution role of an agent, which the CR gives either as an ARN or  *)
(* as a reference to a Role object of the IAM controller                   *)
(* (pkg/resource/agent/references.go). The Role is another controller's:   *)
(* it comes, becomes synced, fails, goes and gets another ARN at any time, *)
(* and the worker reads it once in each reconciliation.                    *)
(***************************************************************************)
EXTENDS Naturals

CONSTANTS
    Arns,                   \* ARNs of roles
    EnableCrossNamespace,   \* the flag that allows references to other namespaces
    Nil,                    \* a Go nil pointer; for a Role, that there is none
    NoAgent,                \* the role of an agent that does not exist
    Limit                   \* how often each kind of disturbance may happen

Kinds == {"edit", "role", "api", "restart"}

(* Where a reference leads: the CR's namespace or another one.             *)
Places == {"own", "other"}

(* The two fields of the spec. A reference may lack its "from" or a name:  *)
(* the CRD requires neither.                                               *)
RoleSpec == [ref : Places \cup {"noFrom", "noName", Nil}, arn : Arns \cup {Nil}]

Roles == [terminal : BOOLEAN, synced : BOOLEAN, arn : Arns \cup {Nil}]

Errors == {"none", "both", "neither", "noName", "crossNamespace", "notFound", "terminal",
           "notSynced", "noArn", "api", "ValidationException"}

ASSUME ReferenceAssumption ==
    /\ Nil \notin Arns /\ NoAgent \notin Arns \cup {Nil}
    /\ Nil \notin Places \cup {"noFrom", "noName"} /\ Nil \notin Roles
    /\ EnableCrossNamespace \in BOOLEAN
    /\ Limit \in [Kinds -> Nat]

VARIABLES
    crSpec,     \* the CR
    roles,      \* the Role object at each place, or Nil
    awsRole,    \* the role the agent has in AWS
    queue,      \* "due", "waiting" or "empty"
    pc,         \* the worker: "idle", "resolve", "sync" or "finish"
    desired,    \* the spec the worker read, resolved in place
    err,        \* how the reconciliation ended
    written,    \* history: every spec the CR has had,
    published,  \*   the ARNs each place has published on a usable Role,
    used        \*   and how many disturbances there have been

vars == <<crSpec, roles, awsRole, queue, pc, desired, err, written, published, used>>

-----------------------------------------------------------------------------
ValidateReferenceFields(s) ==
    CASE s.ref # Nil /\ s.arn # Nil -> "both"
      [] s.ref = Nil /\ s.arn = Nil -> "neither"
      [] (s.ref = Nil) # (s.arn = Nil) -> "none"

(* Mutant of ReferencedState: a Role that is not synced will do.           *)
ReferencedStateUnsynced(role) ==
    CASE role = Nil -> "notFound"
      [] role # Nil /\ role.terminal -> "terminal"
      [] role # Nil /\ ~role.terminal -> IF role.arn = Nil THEN "noArn" ELSE "none"

(* getReferencedResourceState_Role.                                        *)
ReferencedState(role) ==
    IF role = Nil THEN "notFound"
    ELSE CASE role.terminal -> "terminal"
           [] ~role.terminal /\ ~role.synced -> "notSynced"
           [] ~role.terminal /\ role.synced -> IF role.arn = Nil THEN "noArn" ELSE "none"

CrossNamespaceAllowed(place) == place = "other" => EnableCrossNamespace

(* resolveReferenceForAgentResourceRoleARN: its error ...                  *)
ResolveError(s) ==
    CASE s.ref \in {Nil, "noFrom"} -> "none"
      [] s.ref = "noName" -> "noName"
      [] s.ref \in Places -> IF CrossNamespaceAllowed(s.ref)
                             THEN ReferencedState(roles[s.ref])
                             ELSE "crossNamespace"

(* ... and what it leaves in the spec.                                     *)
Resolved(s) ==
    IF s.ref \in Places /\ ResolveError(s) = "none"
    THEN [s EXCEPT !.arn = roles[s.ref].arn]
    ELSE s

(* Mutant of ClearResolvedReferences: the ARN stays.                       *)
ClearNothing(s) == s

(* What is taken out again before the spec is written back.                *)
ClearResolvedReferences(s) == IF s.ref # Nil THEN [s EXCEPT !.arn = Nil] ELSE s

-----------------------------------------------------------------------------
Spend(kind) ==
    /\ used[kind] < Limit[kind]
    /\ used' = [used EXCEPT ![kind] = @ + 1]

Blank == [ref |-> Nil, arn |-> Nil]

Usable(role) == ReferencedState(role) = "none"

Init ==
    /\ crSpec \in RoleSpec /\ written = {crSpec}
    /\ roles = [p \in Places |-> Nil] /\ published = {}
    /\ awsRole = NoAgent
    /\ queue = "due" /\ pc = "idle" /\ desired = Blank /\ err = "none"
    /\ used = [k \in Kinds |-> 0]

UserEdit ==
    /\ Spend("edit")
    /\ crSpec' \in RoleSpec /\ written' = written \cup {crSpec'}
    /\ queue' = "due"
    /\ UNCHANGED <<roles, awsRole, pc, desired, err, published>>

(* The IAM controller or its user changes a Role in any way.               *)
RoleChange ==
    /\ Spend("role")
    /\ \E p \in Places, role \in Roles \cup {Nil} :
          /\ roles' = [roles EXCEPT ![p] = role]
          /\ published' = published \cup
                (IF role # Nil /\ role.synced /\ ~role.terminal THEN {<<p, role.arn>>} ELSE {})
    /\ UNCHANGED <<crSpec, awsRole, queue, pc, desired, err, written>>

Start ==
    /\ pc = "idle" /\ queue = "due"
    /\ pc' = "resolve" /\ desired' = crSpec /\ err' = "none" /\ queue' = "empty"
    /\ UNCHANGED <<crSpec, roles, awsRole, written, published, used>>

(* Mutant of ResolveReferences: the error of the validation is forgotten   *)
(* once the reference has been resolved.                                   *)
ResolveReferencesShadowed ==
    /\ pc = "resolve"
    /\ desired' = Resolved(desired)
    /\ err' = ResolveError(desired)
    /\ pc' = IF err' = "none" THEN "sync" ELSE "finish"
    /\ UNCHANGED <<crSpec, roles, awsRole, queue, written, published, used>>

ResolveReferences ==
    /\ pc = "resolve"
    /\ desired' = Resolved(desired)
    /\ err' = IF ResolveError(desired) # "none" THEN ResolveError(desired)
                                                ELSE ValidateReferenceFields(desired)
    /\ pc' = IF err' = "none" THEN "sync" ELSE "finish"
    /\ UNCHANGED <<crSpec, roles, awsRole, queue, written, published, used>>

(* Mutant of Sync: a role that has changed is no difference.               *)
SyncOnce ==
    /\ pc = "sync" /\ pc' = "finish"
    /\ awsRole' = IF awsRole = NoAgent THEN desired.arn ELSE awsRole
    /\ UNCHANGED <<crSpec, roles, queue, desired, err, written, published, used>>

(* The agent is created, updated if the role differs, or left alone. AWS   *)
(* creates an agent without a role but does not take its role away.        *)
Sync ==
    /\ pc = "sync" /\ pc' = "finish"
    /\ \/ /\ awsRole = NoAgent \/ desired.arn \in Arns \cup {awsRole}
          /\ awsRole' = desired.arn
          /\ UNCHANGED <<err, used>>
       \/ /\ awsRole \in Arns /\ desired.arn = Nil
          /\ err' = "ValidationException"
          /\ UNCHANGED <<awsRole, used>>
       \/ Spend("api") /\ err' = "api" /\ UNCHANGED awsRole
    /\ UNCHANGED <<crSpec, roles, queue, desired, written, published>>

Idle == pc' = "idle" /\ desired' = Blank /\ err' = "none"

Finish ==
    /\ pc = "finish" /\ Idle
    /\ queue' = IF queue = "due" THEN "due"
                ELSE CASE err = "none" -> "waiting"
                       [] err = "ValidationException" -> "empty"
                       [] err \notin {"none", "ValidationException"} -> "due"
    /\ UNCHANGED <<crSpec, roles, awsRole, written, published, used>>

Restart ==
    /\ Spend("restart") /\ Idle
    /\ queue' = "due"
    /\ UNCHANGED <<crSpec, roles, awsRole, written, published>>

Resync ==
    /\ queue = "waiting" /\ queue' = "due"
    /\ UNCHANGED <<crSpec, roles, awsRole, pc, desired, err, written, published, used>>

Worker == Start \/ ResolveReferences \/ Sync \/ Finish

Next == Worker \/ UserEdit \/ RoleChange \/ Restart \/ Resync

Spec == Init /\ [][Next]_vars

(* The controller keeps working off its queue, also after errors, and the  *)
(* resync timer fires.                                                     *)
FairSpec == Spec /\ WF_vars(Worker) /\ WF_vars(Resync)

-----------------------------------------------------------------------------
(* Every variable has its type.                                            *)
TypeOK ==
    /\ crSpec \in RoleSpec /\ desired \in RoleSpec
    /\ roles \in [Places -> Roles \cup {Nil}]
    /\ awsRole \in Arns \cup {Nil, NoAgent}
    /\ queue \in {"due", "waiting", "empty"}
    /\ pc \in {"idle", "resolve", "sync", "finish"}
    /\ err \in Errors
    /\ written \subseteq RoleSpec
    /\ published \subseteq Places \X (Arns \cup {Nil})
    /\ used \in [Kinds -> Nat]

(* The roles that specs entitle the agent to: one names one and nothing    *)
(* else, or refers, and nothing else, to a place it may refer to, where a  *)
(* usable Role published one.                                              *)
EntitledBy(specs) ==
    {a \in Arns :
        \/ [ref |-> Nil, arn |-> a] \in specs
        \/ \E p \in Places :
              /\ CrossNamespaceAllowed(p)
              /\ [ref |-> p, arn |-> Nil] \in specs
              /\ <<p, a>> \in published}

Entitled == EntitledBy(written)

(* A reference without its "from" passes for a role that nobody has given. *)
MayHave(s, a) == a \in EntitledBy({s}) \/ (s.ref = "noFrom" /\ a = Nil)

(* An agent never gets a role the CR did not entitle it to, whatever the   *)
(* Roles and the CR go through between the reads: not the ARN of a Role    *)
(* that is terminal, not yet synced or out of bounds, nor either of two    *)
(* that contradict each other (references.go:79-88, 143-175).              *)
RoleEntitled == awsRole \in Entitled \cup {Nil, NoAgent}

(* A reconciliation that succeeds, and during which nobody edited the CR,  *)
(* leaves the agent with a role this CR entitles it to: not with that of   *)
(* an earlier edit (references.go:109-133, sdk.go:810-860).                *)
SuccessHasRole ==
    pc = "finish" /\ err = "none" /\ queue # "due" => MayHave(crSpec, awsRole)

(* What goes back into the CR is what the user wrote: clearing undoes the  *)
(* resolution (references.go:38-41: the original reference and none of     *)
(* the concrete values). A CR with both would never be accepted again.     *)
ResolutionUndone ==
    pc = "sync" \/ (pc = "finish" /\ err = "none")
        => ClearResolvedReferences(desired) \in written

Wanted ==   \* the role the CR asks for by now, or Nil when it is in error
    IF ValidateReferenceFields(crSpec) = "none" /\ ResolveError(crSpec) = "none"
    THEN Resolved(crSpec).arn ELSE Nil

(* Once the disturbances are over, an agent whose CR asks for a role, and  *)
(* whose Role is usable, has that role, also when the Role was not ready   *)
(* at first or has got another ARN since.                                  *)
RoleConverges == <>[](Wanted # Nil => awsRole = Wanted)

(* Every agent has a role (generator.yaml:24-25: the role is required).    *)
RoleGiven == awsRole # Nil

-----------------------------------------------------------------------------
(* What the worker holds comes from one spec and from one usable Role.     *)
HeldEntitled ==
    /\ crSpec \in written
    /\ pc = "resolve" => desired \in written
    /\ pc = "sync" => desired.arn \in Entitled \cup {Nil}

(* Unless the CR has been edited since, that spec is the CR's.             *)
HeldIsCurrent ==
    queue # "due" =>
        /\ pc = "resolve" => desired = crSpec
        /\ pc = "sync" => MayHave(crSpec, desired.arn)

PublishedIsKept ==
    \A p \in Places : Usable(roles[p]) => <<p, roles[p].arn>> \in published

(* The inductive invariant.                                                *)
RefInv ==
    /\ TypeOK /\ RoleEntitled /\ ResolutionUndone /\ SuccessHasRole
    /\ HeldEntitled /\ HeldIsCurrent /\ PublishedIsKept
=============================================================================
