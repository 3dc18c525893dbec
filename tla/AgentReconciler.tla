-------------------------- MODULE AgentReconciler --------------------------
(***************************************************************************)
(* One Agent custom resource (CR), the agent AWS runs for it, and the      *)
(* reconciliation that keeps the two together.                             *)
(*                                                                         *)
(* The ACK runtime's worker calls the resource manager of                  *)
(* pkg/resource/agent in a fixed order; every remote call the manager      *)
(* makes is a step of its own, because the user, AWS and a crash of the    *)
(* controller can come between any two of them. pc names the next call.    *)
(* The work queue gives one CR to one worker at a time, so there is one    *)
(* worker.                                                                 *)
(***************************************************************************)
EXTENDS Bedrock, Naturals

CONSTANTS
    Limit,          \* how often each kind of disturbance may happen
    Budget          \* how many edits and different kinds of faults one behaviour mixes

Kinds == {"edit",         \* the user creates, changes or deletes the CR
          "api",          \* an AWS call fails before it has any effect
          "reply",        \* an AWS call takes effect but its reply is lost
          "k8s",          \* a patch of the CR's spec or finalizer fails
          "status",       \* a patch of the CR's status fails
          "crash",        \* the controller restarts
          "drift",        \* somebody else changes the agent in AWS
          "failPrepare"}  \* AWS fails to prepare the agent

ASSUME LimitAssumption == Limit \in [Kinds -> Nat] /\ Budget \in Nat

VARIABLES
    (* the CR in the Kubernetes API server *)
    crExists, crDeleting, crFinalizer, crSpec, crId, crStatus, crSynced,
    (* the worker *)
    queue,      \* "due", "waiting" (for the resync period) or "empty"
    pc,         \* the call the worker makes next
    ctx,        \* what a read is for: "sync", "late" (initialization) or "delete"
    desired,    \* the CR as read when this reconciliation started
    latest,     \* the resource this reconciliation will report
    observed,   \* what GetAgent returned, until the tags have been read too
    delta,      \* the paths that sdkUpdate still has to deal with
    err,        \* "none", "recoverable" or "terminal"
    (* history *)
    lost,       \* agents whose identifier never reached the CR
    used        \* how many disturbances of each kind have happened

crVars == <<crExists, crDeleting, crFinalizer, crSpec, crId, crStatus, crSynced>>
workVars == <<pc, ctx, desired, latest, observed, delta, err>>
vars == <<crVars, awsVars, queue, workVars, lost, used>>

Spend(kind) ==
    /\ used[kind] < Limit[kind]
    /\ used' = [used EXCEPT ![kind] = @ + 1]
    /\ used'["edit"] + Cardinality({k \in Kinds \ {"edit"} : used'[k] > 0}) <= Budget

Blank == [spec |-> [conf |-> Nil, prompt |-> Nil, tags |-> {}],
          id |-> Nil, status |-> Nil, managed |-> FALSE]

Init ==
    /\ crExists = FALSE /\ crDeleting = FALSE /\ crFinalizer = FALSE
    /\ crSpec = Blank.spec /\ crId = Nil /\ crStatus = Nil /\ crSynced = FALSE
    /\ awsStatus = [i \in Ids |-> "unused"]
    /\ awsSpec = [i \in Ids |-> Blank.spec]
    /\ queue = "empty"
    /\ pc = "idle" /\ ctx = "sync" /\ delta = {} /\ err = "none"
    /\ desired = Blank /\ latest = Blank /\ observed = Blank
    /\ lost = {}
    /\ used = [k \in Kinds |-> 0]

-----------------------------------------------------------------------------
(* The user. A change of the spec is an event for the work queue.          *)

UserCreate ==
    /\ ~crExists /\ Spend("edit")
    /\ crExists' = TRUE
    /\ crSpec' \in AgentSpec
    /\ queue' = "due"
    /\ UNCHANGED <<crDeleting, crFinalizer, crId, crStatus, crSynced,
                   awsVars, workVars, lost>>

UserEdit ==
    /\ crExists /\ ~crDeleting /\ Spend("edit")
    /\ crSpec' \in AgentSpec \ {crSpec}
    /\ queue' = "due"
    /\ UNCHANGED <<crExists, crDeleting, crFinalizer, crId, crStatus, crSynced,
                   awsVars, workVars, lost>>

(* What is left of the CR's variables when the API server drops the object. *)
CrGone ==
    /\ crExists' = FALSE /\ crDeleting' = FALSE /\ crFinalizer' = FALSE
    /\ crSpec' = Blank.spec /\ crId' = Nil /\ crStatus' = Nil /\ crSynced' = FALSE

UserDelete ==
    /\ crExists /\ ~crDeleting /\ Spend("edit")
    /\ \/ /\ crFinalizer
          /\ crDeleting' = TRUE
          /\ queue' = "due"
          /\ UNCHANGED <<crExists, crFinalizer, crSpec, crId, crStatus, crSynced>>
       \/ /\ ~crFinalizer
          /\ CrGone
          /\ UNCHANGED queue
    /\ UNCHANGED <<awsVars, workVars, lost>>

-----------------------------------------------------------------------------
(* Control of the worker.                                                  *)

Goto(p) == pc' = p

Fail(e, r) ==       \* give up this reconciliation and report r
    /\ err' = e
    /\ latest' = r
    /\ Goto("finish")

Idle ==
    /\ Goto("idle") /\ ctx' = "sync" /\ delta' = {} /\ err' = "none"
    /\ desired' = Blank /\ latest' = Blank /\ observed' = Blank

Start ==
    /\ pc = "idle" /\ queue = "due"
    /\ queue' = "empty"
    /\ IF crExists
       THEN /\ Goto("get")
            /\ ctx' = IF crDeleting THEN "delete" ELSE "sync"
            /\ desired' = [spec |-> crSpec, id |-> crId, status |-> crStatus,
                           managed |-> crFinalizer]
            /\ latest' = desired'
            /\ UNCHANGED <<observed, delta, err>>
       ELSE UNCHANGED workVars
    /\ UNCHANGED <<crVars, awsVars, lost, used>>

(* Mutants of NotFound: an agent that is still being created, or one that  *)
(* failed, is taken for missing.                                           *)
NotFoundWhileCreating(r) == r.id \notin {i \in Ids : Exists(i) /\ awsStatus[i] # "CREATING"}
NotFoundWhenFailed(r)    == r.id \notin {i \in Ids : Exists(i) /\ awsStatus[i] # "FAILED"}

(* A read looks up the identifier of the resource it is given.             *)
NotFound(r) == r.id \notin {i \in Ids : Exists(i)}

(* Mutant of ReadError: a failing read reports an empty resource.          *)
ReadErrorForgets(e) == Fail(e, Blank)

(* What a failing read reports: ReadOne's argument, except that            *)
(* LateInitialize keeps the copy it was working on.                        *)
ReadError(e) == Fail(e, IF ctx = "late" THEN latest ELSE desired)

GetAgent ==
    /\ pc = "get"
    /\ \/ /\ ~NotFound(latest) /\ UNCHANGED used
          /\ observed' = [latest EXCEPT !.spec.conf = awsSpec[latest.id].conf,
                                        !.spec.prompt = awsSpec[latest.id].prompt,
                                        !.status = awsStatus[latest.id]]
          /\ Goto("list")
          /\ UNCHANGED <<latest, err>>
       \/ /\ NotFound(latest) /\ UNCHANGED used
          /\ CASE ctx = "sync"   -> /\ Goto(IF desired.managed THEN "create" ELSE "manage")
                                    /\ UNCHANGED <<latest, err>>
               [] ctx = "late"   -> ReadError("recoverable")
               [] ctx = "delete" -> Goto("unmanage") /\ UNCHANGED <<latest, err>>
          /\ UNCHANGED observed
       \/ /\ latest.id # Nil /\ Spend("api")
          /\ ReadError("recoverable")
          /\ UNCHANGED observed
    /\ UNCHANGED <<crVars, awsVars, queue, ctx, desired, delta, lost>>

(* The order in which sdkUpdate works off a delta.                         *)
UpdateCall(d) ==
    CASE "AgentStatus" \in d -> "prepare"
      [] "AgentStatus" \notin d /\ "Tags" \in d -> "untag"
      [] d # {} /\ d \cap {"AgentStatus", "Tags"} = {} -> "update"
      [] d = {} -> "patch"

(* ListTagsForResource completes a read; then the reconciler decides.      *)
ListTags ==
    /\ pc = "list"
    /\ observed' = Blank
    /\ LET read == [observed EXCEPT !.spec.tags = awsSpec[observed.id].tags] IN
       \/ /\ ~NotFound(observed) /\ UNCHANGED used
          /\ CASE ctx = "sync" /\ desired.managed ->
                    /\ latest' = read
                    /\ delta' = Delta(desired, read)
                    /\ IF delta' = {} THEN Goto("get") /\ ctx' = "late"
                                      ELSE Goto(UpdateCall(delta')) /\ UNCHANGED ctx
                    /\ UNCHANGED err
               [] ctx = "sync" /\ ~desired.managed ->
                    Fail("terminal", read) /\ UNCHANGED <<ctx, delta>>
               [] ctx = "late" ->
                    /\ latest' = LateInitialized(latest, read)
                    /\ err' = IF IncompleteLateInitialization(latest')
                              THEN "recoverable" ELSE "none"
                    /\ Goto("patch")
                    /\ UNCHANGED <<ctx, delta>>
               [] ctx = "delete" ->
                    latest' = read /\ Goto("delete") /\ UNCHANGED <<ctx, delta, err>>
       \/ /\ NotFound(observed) /\ UNCHANGED used
          /\ ReadError("recoverable") /\ UNCHANGED <<ctx, delta>>
       \/ /\ Spend("api")
          /\ ReadError("recoverable") /\ UNCHANGED <<ctx, delta>>
    /\ UNCHANGED <<crVars, awsVars, queue, desired, lost>>

-----------------------------------------------------------------------------
(* Patches of the CR.                                                      *)

(* Mutant of Manage: the CR is marked as managed in memory only.           *)
ManageInMemory ==
    /\ pc = "manage"
    /\ desired' = [desired EXCEPT !.managed = TRUE]
    /\ latest' = desired'
    /\ Goto("create")
    /\ UNCHANGED <<crVars, awsVars, queue, ctx, observed, delta, err, lost, used>>

(* The finalizer is put on the CR before the agent is created.             *)
Manage ==
    /\ pc = "manage"
    /\ \/ /\ crExists /\ UNCHANGED used
          /\ crFinalizer' = TRUE
          /\ desired' = [desired EXCEPT !.managed = TRUE]
          /\ latest' = desired'
          /\ Goto("create")
          /\ UNCHANGED err
       \/ /\ crExists => Spend("k8s")
          /\ ~crExists => UNCHANGED used
          /\ Fail("recoverable", latest)
          /\ UNCHANGED <<crFinalizer, desired>>
    /\ UNCHANGED <<crExists, crDeleting, crSpec, crId, crStatus, crSynced, awsVars,
                   queue, ctx, observed, delta, lost>>

(* A merge patch writes the fields of the spec that the manager changed,   *)
(* whatever the CR holds by now.                                           *)
Merge(new, old, onto) ==
    [conf   |-> IF new.conf # old.conf THEN new.conf ELSE onto.conf,
     prompt |-> IF new.prompt # old.prompt THEN new.prompt ELSE onto.prompt,
     tags   |-> IF new.tags # old.tags THEN new.tags ELSE onto.tags]

PatchSpec ==
    /\ pc = "patch"
    /\ \/ /\ crExists \/ latest.spec = desired.spec
          /\ UNCHANGED used
          /\ crSpec' = Merge(latest.spec, desired.spec, crSpec)
          /\ queue' = IF crSpec' # crSpec THEN "due" ELSE queue
          /\ desired' = [desired EXCEPT !.spec = latest.spec]
          /\ IF ctx = "sync" THEN ctx' = "late" /\ Goto("get")
                             ELSE UNCHANGED ctx /\ Goto("finish")
          /\ UNCHANGED <<latest, err>>
       \/ /\ latest.spec # desired.spec
          /\ crExists => Spend("k8s")
          /\ ~crExists => UNCHANGED used
          /\ Fail("recoverable", latest)
          /\ UNCHANGED <<crSpec, queue, ctx, desired>>
    /\ delta' = {}
    /\ UNCHANGED <<crExists, crDeleting, crFinalizer, crId, crStatus, crSynced,
                   awsVars, observed, lost>>

(* After a create that failed the finalizer may be taken off again.        *)
Release ==
    /\ pc = "release"
    /\ Goto("finish")
    /\ \/ /\ UNCHANGED used
          /\ IF crDeleting THEN CrGone
             ELSE /\ crFinalizer' = FALSE
                  /\ UNCHANGED <<crExists, crDeleting, crSpec, crId, crStatus, crSynced>>
       \/ Spend("k8s") /\ UNCHANGED crVars
    /\ UNCHANGED <<awsVars, queue, ctx, desired, latest, observed, delta, err, lost>>

(* The finalizer comes off: there is nothing left to clean up in AWS.      *)
Unmanage ==
    /\ pc = "unmanage"
    /\ \/ UNCHANGED used /\ CrGone /\ Idle /\ UNCHANGED queue
       \/ Spend("k8s") /\ UNCHANGED crVars /\ Idle /\ queue' = "due"
    /\ UNCHANGED <<awsVars, lost>>

-----------------------------------------------------------------------------
(* Calls that change the agent. Each succeeds, is refused, fails before it *)
(* took effect, or takes effect with its reply lost.                       *)

CreateAgent ==
    /\ pc = "create"
    /\ \/ /\ desired.spec.conf \notin Invalid
          /\ \E i \in Ids :
                /\ AwsCreate(i, desired.spec)
                /\ \/ /\ latest' = [desired EXCEPT !.id = i, !.status = "CREATING",
                                        !.spec = Stored(desired.spec)]
                      /\ Goto("patch") /\ UNCHANGED <<err, used, lost>>
                   \/ /\ Spend("reply") /\ lost' = lost \cup {i}
                      /\ err' = "recoverable" /\ latest' = desired
                      /\ \/ Goto("release")
                         \/ Goto("finish")
       \/ /\ \/ desired.spec.conf \in Invalid /\ err' = "terminal" /\ UNCHANGED used
             \/ Spend("api") /\ err' = "recoverable"
          /\ latest' = desired
          /\ \/ Goto("release")
             \/ Goto("finish")
          /\ UNCHANGED <<awsVars, lost>>
    /\ UNCHANGED <<crVars, queue, ctx, desired, observed, delta>>

(* Mutant of Refused: every error is taken for terminal.                   *)
RefusedForGood ==
    /\ \/ (Busy(latest.id) \/ NotFound(latest)) /\ UNCHANGED used
       \/ Spend("api")
    /\ Fail("terminal", latest)
    /\ UNCHANGED <<awsVars, delta>>

(* How a call that changes agent latest.id can fail with nothing done.     *)
Refused ==
    /\ \/ \E e \in BusyErrs : Busy(latest.id) /\ Fail(e, latest) /\ UNCHANGED used
       \/ NotFound(latest) /\ Fail("recoverable", latest) /\ UNCHANGED used
       \/ Spend("api") /\ Fail("recoverable", latest)
    /\ UNCHANGED <<awsVars, delta>>

ReplyLost == Spend("reply") /\ Fail("recoverable", latest) /\ UNCHANGED delta

(* Mutant of Continue: sdkUpdate returns after the first of its calls.     *)
ContinueNoFurther(d) ==
    /\ delta' = d
    /\ Goto("patch")
    /\ latest' = desired
    /\ UNCHANGED <<err, used>>

(* sdkUpdate goes on with what is left of the delta d; once nothing is     *)
(* left it returns desired.                                                *)
Continue(d) ==
    /\ delta' = d
    /\ Goto(UpdateCall(d))
    /\ latest' = IF d = {} THEN desired ELSE latest
    /\ UNCHANGED <<err, used>>

UpdateUnchanged == UNCHANGED <<crVars, queue, ctx, desired, observed, lost>>

PrepareAgent ==
    /\ pc = "prepare"
    /\ \/ AwsPrepare(latest.id) /\ Continue(delta \ {"AgentStatus"})
       \/ AwsPrepare(latest.id) /\ ReplyLost
       \/ Refused
    /\ UpdateUnchanged

(* SyncResourceTags: first the keys that are no longer wanted ...          *)
UntagResource ==
    /\ pc = "untag"
    /\ LET removed == latest.spec.tags \ desired.spec.tags IN
       \/ /\ removed = {} /\ Goto("tag")
          /\ UNCHANGED <<awsVars, latest, delta, err, used>>
       \/ /\ removed # {}
          /\ AwsSetTags(latest.id, awsSpec[latest.id].tags \ removed)
          /\ \/ Goto("tag") /\ UNCHANGED <<latest, delta, err, used>>
             \/ ReplyLost
       \/ /\ removed # {}
          /\ \/ NotFound(latest) /\ UNCHANGED used
             \/ Spend("api")
          /\ Fail("recoverable", latest)
          /\ UNCHANGED <<awsVars, delta>>
    /\ UpdateUnchanged

(* ... then the keys that are new.                                         *)
TagResource ==
    /\ pc = "tag"
    /\ LET added == desired.spec.tags \ latest.spec.tags IN
       \/ /\ added = {} /\ Continue(delta \ {"Tags"})
          /\ UNCHANGED awsVars
       \/ /\ added # {}
          /\ AwsSetTags(latest.id, awsSpec[latest.id].tags \cup added)
          /\ \/ Continue(delta \ {"Tags"})
             \/ ReplyLost
       \/ /\ added # {}
          /\ \/ NotFound(latest) /\ UNCHANGED used
             \/ Spend("api")
          /\ Fail("recoverable", latest)
          /\ UNCHANGED <<awsVars, delta>>
    /\ UpdateUnchanged

UpdateAgent ==
    /\ pc = "update"
    /\ \/ /\ desired.spec.conf \notin Invalid
          /\ AwsUpdate(latest.id, desired.spec)
          /\ \/ /\ latest' = [desired EXCEPT !.status = "UPDATING",
                                  !.spec = Stored(desired.spec)]
                /\ Goto("patch") /\ UNCHANGED <<delta, err, used>>
             \/ ReplyLost
       \/ /\ desired.spec.conf \in Invalid
          /\ Fail("terminal", latest) /\ UNCHANGED <<awsVars, delta, used>>
       \/ Refused
    /\ UpdateUnchanged

(* Mutant of DeleteAgent: the error of the call is dropped.                *)
DeleteAgentUnchecked ==
    /\ pc = "delete"
    /\ AwsDelete(latest.id) \/ UNCHANGED awsVars
    /\ Goto("unmanage")
    /\ UNCHANGED <<latest, delta, err, used>>
    /\ UpdateUnchanged

DeleteAgent ==
    /\ pc = "delete"
    /\ \/ /\ AwsDelete(latest.id)
          /\ \/ Goto("unmanage") /\ UNCHANGED <<latest, delta, err, used>>
             \/ ReplyLost
       \/ Refused
    /\ UpdateUnchanged

-----------------------------------------------------------------------------
(* The end of a reconciliation: the status is patched and the CR queued    *)
(* again: soon after an error or while not synced, after the resync period *)
(* once synced, not at all after a terminal error.                         *)

Unsaved == {latest.id} \ {Nil, crId}

Requeue ==
    IF queue = "due" THEN "due"
    ELSE CASE err = "recoverable" -> "due"
           [] err = "terminal" -> "empty"
           [] err = "none" -> IF IsSynced(latest) THEN "waiting" ELSE "due"

Finish ==
    /\ pc = "finish"
    /\ \/ /\ crExists
          /\ crId' = latest.id
          /\ crStatus' = latest.status
          /\ crSynced' = (err = "none" /\ IsSynced(latest))
          /\ UNCHANGED <<lost, used>>
       \/ /\ crExists => Spend("status")
          /\ ~crExists => UNCHANGED used
          /\ lost' = lost \cup Unsaved
          /\ UNCHANGED <<crId, crStatus, crSynced>>
    /\ queue' = Requeue
    /\ Idle
    /\ UNCHANGED <<crExists, crDeleting, crFinalizer, crSpec, awsVars>>

(* A restart loses what the worker held; the new process lists every CR.   *)
Crash ==
    /\ Spend("crash")
    /\ lost' = lost \cup Unsaved
    /\ queue' = IF crExists THEN "due" ELSE "empty"
    /\ Idle
    /\ UNCHANGED <<crVars, awsVars>>

Resync ==
    /\ queue = "waiting"
    /\ queue' = "due"
    /\ UNCHANGED <<crVars, awsVars, workVars, lost, used>>

-----------------------------------------------------------------------------
(* AWS.                                                                    *)

Settle ==
    /\ \E i \in Ids, to \in AgentStatuses \cup {"gone"} :
          /\ AwsSettle(i, to)
          /\ IF to = "FAILED" THEN Spend("failPrepare") ELSE UNCHANGED used
    /\ UNCHANGED <<crVars, queue, workVars, lost>>

(* Somebody edits the draft, or deletes the agent, past the controller.    *)
Drift ==
    /\ Spend("drift")
    /\ \E i \in Ids :
          \/ \E spec \in AgentSpec :
                /\ spec.conf \notin Invalid \cup {Nil} /\ spec.prompt # Nil /\ spec.tags = {}
                /\ AwsUpdate(i, spec)
          \/ \E t \in SUBSET TagKeys : AwsSetTags(i, t)
          \/ AwsDelete(i)
    /\ UNCHANGED <<crVars, queue, workVars, lost>>

-----------------------------------------------------------------------------
Worker ==
    \/ Start \/ GetAgent \/ ListTags \/ Manage \/ PatchSpec \/ Release \/ Unmanage
    \/ CreateAgent \/ PrepareAgent \/ UntagResource \/ TagResource \/ UpdateAgent
    \/ DeleteAgent \/ Finish

User == UserCreate \/ UserEdit \/ UserDelete

Next == Worker \/ User \/ Crash \/ Resync \/ Settle \/ Drift

Spec == Init /\ [][Next]_vars

(* The controller keeps running, the resync timer fires, and AWS brings    *)
(* every agent out of its transitional status, again and again while the   *)
(* CR waits to be retried: retries back off, so the waits outgrow the time *)
(* AWS needs. Nothing is assumed of the user, of drift or of faults.       *)
SettleWhileWaiting == pc = "idle" /\ Settle

Fairness ==
    /\ WF_vars(Worker) /\ WF_vars(Resync)
    /\ WF_vars(Settle) /\ SF_vars(SettleWhileWaiting)

FairSpec == Spec /\ Fairness

-----------------------------------------------------------------------------
(* Safety.                                                                 *)

CrTypeOK ==
    /\ crExists \in BOOLEAN /\ crDeleting \in BOOLEAN /\ crFinalizer \in BOOLEAN
    /\ crSpec \in AgentSpec /\ crId \in Ids \cup {Nil}
    /\ crStatus \in AgentStatuses \cup {Nil} /\ crSynced \in BOOLEAN

AwsTypeOK ==
    /\ awsStatus \in [Ids -> AgentStatuses \cup {"unused", "gone"}]
    /\ awsSpec \in [Ids -> AgentSpec]

WorkTypeOK ==
    /\ queue \in {"due", "waiting", "empty"}
    /\ pc \in {"idle", "get", "list", "manage", "create", "prepare", "untag", "tag",
               "update", "patch", "delete", "release", "unmanage", "finish"}
    /\ ctx \in {"sync", "late", "delete"}
    /\ delta \subseteq {"AgentStatus", "Prompt", "Conf", "Tags"}
    /\ err \in {"none", "recoverable", "terminal"}

ResourceTypeOK == desired \in Resource /\ latest \in Resource /\ observed \in Resource

HistoryTypeOK == lost \subseteq Ids /\ used \in [Kinds -> Nat]

(* Every variable has its type.                                            *)
TypeOK == CrTypeOK /\ AwsTypeOK /\ WorkTypeOK /\ ResourceTypeOK /\ HistoryTypeOK

(* The agents the controller is answerable for: alive, and not lost to it  *)
(* through a lost reply, a failed status patch or a crash.                 *)
Tracked == {i \in Ids : Live(i)} \ lost

(* While such an agent lives its CR exists and carries the finalizer       *)
(* (descriptor.go MarkManaged: the CR may not be deleted before ACK has    *)
(* cleaned up), whatever the user, AWS and the faults do in between.       *)
FinalizerHeld == Tracked # {} => crExists /\ crFinalizer

(* A CR never has two agents (sdk.go:581-585: the next reconciliation      *)
(* finds the resource instead of creating a second one).                   *)
AtMostOne == \A i, j \in Tracked : i = j

(* The identifier in the CR's status is replaced only when the agent it    *)
(* names no longer exists: sdkCreate runs only after sdkFind's NotFound.   *)
IdStable == [][crId # Nil /\ crId' \notin {crId, Nil} => ~Exists(crId)]_vars

(* The reconciler implements the lifecycle the controller promises.        *)
Lifecycle == INSTANCE AgentLifecycle WITH
    guarded <- crExists /\ crFinalizer,
    agents <- Tracked,
    past <- {i \in Ids : awsStatus[i] # "unused"}

(* Every step of the reconciler, with its lost replies and crashes, is a   *)
(* step of that lifecycle or leaves it as it is (descriptor.go MarkManaged *)
(* before sdkCreate, sdkDelete before MarkUnmanaged).                      *)
LifecycleSpec == Lifecycle!Spec

(* The virtual update for an unset prompt never happens (hooks.go:58: if   *)
(* PromptOverrideConfiguration is not set for the desired resource no      *)
(* delta is set).                                                          *)
UnsetPromptNoDelta == "Prompt" \in delta => desired.spec.prompt # Nil

(* The CR goes only after its agent has gone (descriptor.go:107-112: the   *)
(* CR may not be deleted until ACK is finished cleaning up).               *)
CrOutlivesAgent == [][crExists /\ ~crExists' /\ crId # Nil => ~Exists(crId)]_vars

Converged ==
    /\ crId # Nil
    /\ awsStatus[crId] = "PREPARED"
    /\ awsSpec[crId] = crSpec

(* A CR at rest that reports ResourceSynced=True describes an agent that   *)
(* is prepared and is what the user asked for (manager.go IsSynced).       *)
SyncedIsTrue ==
    pc = "idle" /\ queue # "due" /\ crExists /\ ~crDeleting /\ crSynced => Converged

(* What the history rules out for the next three properties.               *)
NoDrift == used["drift"] = 0
StatusKnown == \A k \in {"drift", "status", "reply", "crash"} : used[k] = 0

(* A reconciliation that ends without an error leaves the agent with what  *)
(* it reports, which is what the CR says unless the CR is due again: also  *)
(* after restarts, lost replies and failed patches (sdk.go:779-812,        *)
(* sdkUpdate works the delta off call by call and every call may be the    *)
(* last one).                                                              *)
SuccessIsTrue ==
    NoDrift /\ pc = "finish" /\ err = "none" =>
        /\ latest.id \in Ids /\ awsSpec[latest.id] = latest.spec
        /\ crExists /\ queue # "due" => crSpec = latest.spec

(* A patch of the spec, after a create or an update (sdk.go:374-505 and    *)
(* 837-968 copy every field of the reply) and after late initialization    *)
(* (manager.go:266), never touches the tags, and writes another field only *)
(* if the CR this reconciliation had read left it out; what it writes is   *)
(* what the agent has by then, unless somebody else has changed the agent. *)
(* So an edit made since the read survives, but for a field that was left  *)
(* out at the read: there the patch may put the agent's value over it.     *)
PatchFillsUnset ==
    [][pc = "patch" /\ pc' # "patch" =>
          /\ crSpec'.tags = crSpec.tags
          /\ crSpec'.conf # crSpec.conf =>
                /\ desired.spec.conf = Nil
                /\ NoDrift => crSpec'.conf = awsSpec[latest.id].conf
          /\ crSpec'.prompt # crSpec.prompt =>
                /\ desired.spec.prompt = Nil
                /\ NoDrift => crSpec'.prompt = awsSpec[latest.id].prompt]_vars

(* An agent that is what a synced CR says is left alone: a resync makes no *)
(* call that changes it (delta.go and hooks.go:50-86 find no difference    *)
(* between a spec and what AWS makes of it).                               *)
SyncedIsLeftAlone ==
    [][StatusKnown' /\ crSynced /\ crExists /\ ~crDeleting /\ queue # "due" /\ Converged =>
          awsStatus'[crId] = awsStatus[crId] /\ awsSpec'[crId] = awsSpec[crId]]_vars

-----------------------------------------------------------------------------
(* Why the safety properties hold: what the worker knows at each step.     *)

HoldsAgent ==       \* the CR at rest, or else the worker, names the tracked agent
    Tracked \subseteq {IF pc = "idle" THEN crId ELSE latest.id}

NothingToGuard ==   \* no agent when one is created or the finalizer comes off
    pc \in {"manage", "create", "release", "unmanage"} => Tracked = {}

Guarded ==          \* a reconciliation of a managed CR keeps the finalizer
    /\ pc \notin {"idle", "finish"} /\ desired.managed => crExists /\ crFinalizer
    /\ pc = "create" => desired.managed

SameAgent ==        \* until an agent is created all copies name the same one
    /\ pc = "list" => observed.id = latest.id
    /\ \/ pc \in {"manage", "create", "prepare", "untag", "tag", "update", "delete"}
       \/ pc \in {"get", "list"} /\ ctx # "late"
       => latest.id = desired.id

OldAgentGone ==     \* a second agent is created only after the first has gone
    /\ ~crExists => crId = Nil
    /\ pc # "idle" => crId \in {desired.id, Nil}
    /\ desired.id \in Ids => \/ latest.id = desired.id /\ pc \notin {"manage", "create"}
                            \/ ~Exists(desired.id)

Accountable ==
    HoldsAgent /\ NothingToGuard /\ Guarded /\ SameAgent /\ OldAgentGone

(* The inductive invariant.                                                *)
IInv == TypeOK /\ FinalizerHeld /\ Accountable

-----------------------------------------------------------------------------
(* Why a success is true, and a synced CR: what the worker knows of the    *)
(* agent's draft and of its status.                                        *)

Phases ==           \* what a call is for, and what is left of the delta before it
    /\ pc \in {"manage", "create", "prepare", "untag", "tag", "update", "release"} => ctx = "sync"
    /\ pc = "patch" => ctx # "delete"
    /\ pc \in {"delete", "unmanage"} => ctx = "delete"
    /\ pc \in {"prepare", "update"} => UpdateCall(delta) = pc
    /\ pc \in {"untag", "tag"} => UpdateCall(delta) = "untag"
    /\ pc = "release" => err # "none"
    /\ ctx = "sync" /\ pc \in {"get", "list", "manage", "create"} => latest = desired

CrReports ==        \* what the CR's status is worth without an agent
    /\ ~crExists => crStatus = Nil
    /\ crSynced => crStatus = "PREPARED"
    /\ ctx = "delete" => crExists /\ crDeleting

Unedited ==         \* an edit leaves the CR due
    pc # "idle" /\ queue # "due" /\ crExists => crSpec = desired.spec

(* spec is what the agent has, except that a prompt AWS did not report may *)
(* have been set by AWS since.                                             *)
UpToDefault(spec, i) ==
    /\ i \in Ids
    /\ spec.conf = awsSpec[i].conf
    /\ spec.prompt \in {Nil, awsSpec[i].prompt}

ReadTrue ==         \* between the two calls of a read
    pc = "list" => UpToDefault(observed.spec, observed.id)

DeltaTrue ==        \* what is not in the delta needs no call
    pc \in {"prepare", "untag", "tag", "update"} =>
        /\ latest.id \in Ids
        /\ "Conf" \notin delta => desired.spec.conf = awsSpec[latest.id].conf
        /\ "Prompt" \notin delta => desired.spec.prompt \in {Nil, awsSpec[latest.id].prompt}
        /\ awsSpec[latest.id].tags = IF "Tags" \notin delta THEN desired.spec.tags
                                     ELSE IF pc = "tag" THEN latest.spec.tags \cap desired.spec.tags
                                     ELSE latest.spec.tags

AnswerTrue ==       \* after the update, until late initialization is through
    pc = "patch" \/ (ctx = "late" /\ pc \in {"get", "list"}) =>
        /\ UpToDefault(latest.spec, latest.id)
        /\ latest.spec.tags = awsSpec[latest.id].tags

ResultTrue ==       \* after late initialization
    /\ ((pc = "patch" /\ ctx = "late") \/ pc = "finish") /\ err = "none" =>
          /\ latest.id \in Ids /\ latest.spec.prompt # Nil
          /\ latest.spec = awsSpec[latest.id]
    /\ pc = "finish" /\ err = "none" => desired.spec = latest.spec

DraftInv ==
    /\ Phases /\ CrReports /\ Unedited
    /\ NoDrift => ReadTrue /\ DeltaTrue /\ AnswerTrue /\ ResultTrue

Prepared(i) == i \in Ids /\ awsStatus[i] = "PREPARED"

CrStatusTrue ==     \* the status of the CR at rest, and of the copy the worker has
    /\ pc = "idle" /\ crExists /\ ~crDeleting /\ crStatus = "PREPARED" => Prepared(crId)
    /\ pc \in {"get", "list", "manage", "create", "prepare", "untag", "tag", "update"}
       /\ ctx = "sync" =>
          /\ desired.status = "PREPARED" =>
                Prepared(desired.id) /\ pc \notin {"manage", "create", "prepare"}
          /\ crExists /\ crSynced => desired.status = "PREPARED"
    /\ pc = "idle" /\ queue # "due" /\ crExists /\ crSynced =>
          crId \in Ids /\ crSpec.prompt # Nil /\ awsSpec[crId] = crSpec

ReadStatusTrue ==   \* the status a read found, and the one a call answered
    /\ pc = "list" /\ ctx = "sync" =>
          /\ observed.status = "PREPARED" => Prepared(observed.id)
          /\ desired.status = "PREPARED" =>
                observed.status = "PREPARED" /\ observed.spec.prompt = awsSpec[observed.id].prompt
    /\ \/ pc \in {"prepare", "untag", "tag", "update", "release", "patch"}
       \/ ctx = "late"
       \/ pc = "finish" /\ ctx # "delete"
       => (latest.status = "PREPARED" => Prepared(latest.id) /\ pc # "prepare")

NeededOnly ==       \* a prepared agent is only updated where it differs
    pc \in {"untag", "tag", "update"} /\ desired.status = "PREPARED" =>
        /\ "AgentStatus" \notin delta
        /\ "Conf" \in delta => desired.spec.conf # awsSpec[latest.id].conf
        /\ "Prompt" \in delta => desired.spec.prompt # awsSpec[latest.id].prompt

(* The inductive invariant, on top of IInv.                                *)
SyncInv ==
    DraftInv /\ (StatusKnown => CrStatusTrue /\ ReadStatusTrue /\ NeededOnly)

-----------------------------------------------------------------------------
(* Once edits and faults are over, the agent becomes what a valid CR says  *)
(* and stays so, however the faults left things behind.                    *)
Convergence ==
    <>[](crExists /\ ~crDeleting /\ crSpec.conf \notin Invalid => Converged)

(* A CR that is being deleted goes away.                                   *)
DeletionCompletes == crDeleting ~> ~crExists

(* Once the CR is gone, so are its agents, except the lost ones.           *)
AgentsGo ==
    <>[](~crExists => \A i \in Ids : Exists(i) => i \in lost)
=============================================================================
