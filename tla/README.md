# A TLA+ model of the ACK controller for Bedrock agents

The controller keeps one kind of Kubernetes object, the `Agent` custom resource
(CR), in step with an agent of Amazon Bedrock. This directory models what it
does, checks the models with TLC and proves theorems about them with TLAPS.

Run `tlc -config X.cfg M` for a run listed below and `tlapm M.tla` for a module
whose name ends in `Proofs`.

## 1. The system

| Part | Source | State | Operations |
|---|---|---|---|
| Agent resource manager | `pkg/resource/agent/{sdk,manager,hooks}.go` | none between calls; the CR it is handed, the agent in AWS | `ReadOne`, `Create`, `Update`, `Delete`, `LateInitialize`, `IsSynced`, `EnsureTags`, `FilterSystemTags` |
| Delta | `delta.go`, `hooks.go` | none | `newResourceDelta`, `compareAgentStatus`, `comparePropertyOverrideConfiguration` |
| Tags | `pkg/resource/tags/sync.go`, `agent/tags.go` | none; the agent's tags in AWS | `GetResourceTags`, `SyncResourceTags`, conversions, `syncAWSTags`, `ignoreSystemTags` |
| Descriptor | `descriptor.go` | the CR's finalizers and annotations | `IsManaged`, `MarkManaged`, `MarkUnmanaged`, `MarkAdopted` |
| Manager factory | `manager_factory.go` | `rmCache` and its `RWMutex` | `ManagerFor` |
| Conditions | `sdk.go` `updateConditions`, `manager.go` `onError`, `onSuccess` | the CR's conditions | classification of errors, Terminal and Recoverable |
| References | `references.go` | the Role objects read | `ResolveReferences`, `ClearResolvedReferences` |
| Adoption, identifiers | `resource.go`, `identifiers.go`, `descriptor.go` | the CR's status | `SetIdentifiers`, `PopulateResourceFromAnnotation` |
| Field conversion | `sdk.go` payload builders and reply copies | none | straight-line copies |
| API types | `apis/v1alpha1` | none | generated declarations and deep copies |
| Start-up, registry | `cmd/controller/main.go`, `pkg/resource/registry.go` | the list of factories | filled once, then read |

How they interact. A work queue of the ACK runtime hands one CR at a time to a
worker. The worker gets a manager from the factory, calls the manager in a fixed
order (read, decide by delta, create or update or delete, late initialize) and
patches the CR's spec, finalizer and status in between. The manager makes one
or more AWS calls in each of its methods. The user edits and deletes the CR,
AWS moves the agent from status to status, other people change the agent, calls
fail or lose their reply, and the controller restarts, between any two of
those. What is correct, part by part:

* manager and driver: an agent the controller knows of keeps a CR with a
  finalizer, there is at most one, its identifier is not replaced while it
  exists, `ResourceSynced=True` is true, everything converges;
* delta: no path in the delta that the update cannot remove;
* tags: the two calls make the tags equal, leave the tags of AWS alone, keep the
  user's spec as it is, survive a failure half-way and a restart with other flags;
* factory: no race on the map, a cached manager is used, calls return;
* conditions: they tell how the reconciliation that wrote them ended, and no error is lost;
* references: an ARN is used only from a synced Role and never stored in the spec;
* conversion: what the CR says is what the request says, or an error; what AWS makes
  of it comes back without displacing what the user wrote, and the comparison of
  the two comes to an end.

`PROJECT.json` lists under `hazards` where each of these can go wrong.

## 2. Plan

Done, in this order: (1) `AgentResource`, `Bedrock`, `AgentReconciler`,
`AgentLifecycle`, the heart of the system; (2) `TagSync`; (3) `ManagerFactory`;
(4) `AgentReferences`; (5) `AgentConditions`, `AgentFields` and their composition
`FieldReconciler`: conditions, conversion and comparison, which are checked over whole
reconciliations rather than as pure functions, because what matters of them is what
they do to each other; (6) the proofs for all of these;

(7) what `ResourceSynced` is worth: `SuccessIsTrue`, `SyncedIsTrue` and `SyncedIsLeftAlone`
with the invariant `SyncInv`, checked and proved.

Left: one model of several CRs that share the factory's managers (they share
nothing else). The rest of the code is listed in section 7 with the reasons.

## 3. Modules

| Module | Models | EXTENDS |
|---|---|---|
| `AgentResource` | the parts of a resource decisions depend on; delta, `IsSynced`, late initialization as pure operators | |
| `Bedrock` | the service: status and draft of every agent, asynchronous transitions | `AgentResource` |
| `AgentReconciler` | CR, work queue, worker, user, faults | `Bedrock` |
| `AgentLifecycle` | the abstract specification: guard, create one, leave, unguard | |
| `TagSync` | the tags in the CR, in the flags and in AWS, with their values | |
| `ManagerFactory` | the cache and its RWMutex, any number of threads | |
| `AgentReferences` | the role of an agent, given as an ARN or as a reference to a Role | |
| `AgentConditions` | the conditions Terminal, Recoverable and LateInitialized, and the error a call reports | |
| `AgentFields` | numbers and prompts in the CR, in requests and in replies; range checks, rounding, comparison | |
| `FieldReconciler` | fields and conditions over any number of reconciliations of a CR that is not deleted | `AgentFields`, `AgentConditions` |
| `MCReconciler`, `MCTagSync`, `MCManagerFactory`, `MCReferences`, `MCFields` | instances for TLC | |
| `ReconcilerTypeProofs`, `ReconcilerSafetyProofs`, `ReconcilerSyncProofs`, `TagSyncProofs`, `ManagerFactoryProofs`, `AgentReferencesProofs`, `FieldReconcilerProofs`, `FieldValuesProofs` | theorems | |

### The reconciler and the code

`crExists`, `crDeleting`, `crFinalizer`, `crSpec`, `crId`, `crStatus` and `crSynced`
are the object in the API server; `awsStatus` and `awsSpec` the agents; `desired`,
`latest`, `observed` and `delta` the Go values of those names in one reconciliation;
`pc` the call that comes next; `err` how the reconciliation ended; `queue`
where the CR is in the work queue. `lost` and `used` are history.

A spec is three values. `conf` stands for every field that `delta.go` compares
and the request builders copy without looking. It may be left out; AWS then fills in
its default (`DefaultConf`), and the reply of CreateAgent and UpdateAgent is copied over the whole
spec (`sdk.go:374-505`, `837-968`) and patched into the CR from there. `prompt` is
`PromptOverrideConfiguration`, the one field with its own comparison and with late
initialization; `tags` is a set of keys (their values are `TagSync`'s matter).

| Action | Code |
|---|---|
| `Start` | the runtime reads the CR; `IsBeingDeleted` and `IsManaged` choose the path |
| `GetAgent`, `ListTags` | `sdkFind`'s two calls, for the first read, the read before a deletion, and `LateInitialize`'s read; `ListTags` ends with the decision taken on the result |
| `Manage`, `Release`, `Unmanage` | patches of the finalizer (`MarkManaged`, `MarkUnmanaged`) |
| `CreateAgent` | `sdkCreate` |
| `PrepareAgent`, `UntagResource`, `TagResource`, `UpdateAgent` | `sdkUpdate` in the order it works off the delta; `Continue` is what happens between them, with the early return of `desired` |
| `DeleteAgent` | `sdkDelete` |
| `PatchSpec`, `Finish` | the runtime's patches of spec and status, and the requeue |
| `UserCreate`, `UserEdit`, `UserDelete`, `Crash`, `Resync`, `Settle`, `Drift` | everything else that happens |

Each remote call has its outcomes in one action: done, refused by AWS (busy, not
found, invalid), failed before it took effect, or done with the reply lost. The
resource a failure reports follows `onError`'s caller: `ReadOne`'s argument, or
the copy `LateInitialize` works on.

The ACK runtime, Kubernetes and Bedrock are not under `src/`. They are modelled
from what the manager's methods and comments expect of them and are marked external
in the map. Three of those expectations matter for the results:

* `BusyErrs`: what AWS answers when an agent is in a transitional status. A
  retryable error, or a ValidationException, which `terminalAWSError` makes
  terminal. Safety is checked with both. Liveness takes the first (see section 5).
* `DefaultsLate`: whether AWS reports the default prompt configuration at once
  or only when the agent leaves its transitional status. Safety takes the
  second, which is the harder; liveness the first, because with the second
  and the comparison at `hooks.go:65` there are behaviours that send an
  update for an unset prompt again and again: `reconciler_live` with `DefaultsLate = TRUE`
  violates `Convergence` so. It is not a listed run, because neither the code nor the
  documentation says when AWS reports the default; `prompt_delta` shows the comparison that
  would cause it, not the updates.
* One active controller: with leader election off (the default of the deployment)
  there is one replica, so there is one worker per CR.

### The tags and the code

A tag map is a function from keys to values, `NoTag`, `Nil` or `Empty`. Keys have an
origin: the user's, the controller's (`--resource-tags`), AWS's (`aws:`).
`Start` is `EnsureTags` on the CR's tags, `ReadOne` is `GetResourceTags` and
`mirrorAWSTags`, `UntagResource` and `TagResource` are `SyncResourceTags`, and
`PatchSpec` filters both sides with `FilterSystemTags` and patches the
difference. A key changed by somebody else after the read is in `drifted`. It
is assumed, and not enforced by the code, that neither the user nor the flags
use keys of the `aws:` namespace, which AWS refuses.

### The factory and the code

One action for each point of `ManagerFor` at which another goroutine can run:
`RLock`, `Lookup`, `RUnlock`, `Lock` (which announces a writer and, with Go's mutex,
keeps new readers out), `Acquire`, `NewResourceManager`, `Unlock`. `created` counts
managers; `cachedBefore` remembers whether the cache held the manager when
the call began.

### The references and the code

`roles` holds the Role object at each place a reference can lead to, the CR's own
namespace and another one; `desired` is the Go value that `ResolveReferences` changes in
place. `ResolveReferences` is one action: it validates, reads the Role once and
writes the ARN, and an error of the resolution goes before one of the
validation, as in `references.go:67-74`. `ReferencedState` is
`getReferencedResourceState_Role`, with its order of checks. `Sync` stands for the
delta on the role (`delta.go:64`) and the CreateAgent or UpdateAgent it leads to;
everything else about an agent is `AgentReconciler`'s. `RoleChange` puts any Role,
or none, at a place. `written` and `published` remember what the CR and the Roles
have said, since an agent may still have a role that the CR or the Role has
meanwhile given up.

The Roles belong to another controller, and the flag for references to other
namespaces is checked by the ACK runtime (`CrossNamespaceAllowed`); both are
external.

### The fields, the conditions and the code

`FieldReconciler` follows the same worker as `AgentReconciler`, with the resources' fields
and conditions in place of identifiers and agent statuses. `cr` and `crConds` are the CR's
spec and conditions, `crHasId` whether its status names the agent; `agent` is the
draft and whether it has been prepared since it changed; `desired`, `latest` and `delta` are the Go
values; `outcome` is the error of the reconciliation that wrote `crConds`, `failing` whether a
recoverable error has been reported and no success since, and
`given` collects the specs that users and others have written. These three are history.

| Action | Code |
|---|---|
| `Start` | the runtime reads the CR; whether it clears the conditions first is left open |
| `ReadOne` | `ReadOne` and `sdkFind`, `onError` or `onSuccess` on the result, and the delta decided on |
| `Create`, `Prepare`, `Update` | `Create` and `Update` of the manager: the request builder with its errors, the call, the copy of the reply, the conditions; `Prepare` is the first part of `sdkUpdate` with its early return of `desired` |
| `LateInitialize` | the second read; its result is `latest`, so the conditions the read made are dropped |
| `PatchSpec`, `Finish` | the runtime's patches of spec and status, and the requeue |
| `UserEdit`, `Drift`, `Restart`, `Resync` | everything else that happens |

One field stands for all that are treated alike: `ttl` for the numbers of the spec,
`memory.days` for those of a nested structure, a prompt's `temperature` for floating
point. `OutOfRange` is the tests before every narrowing, `ToInt32` the conversion as Go does it
(the low 32 bits), `Round32` the nearest float32. A mode that is missing is `Nil` in the CR
and the empty string in a request, and comes back as `Nil` (`SpecFromReply`); the comparison
dereferences it (`hooks.go:78`), which `ComparePanics` says: the worker is then gone without
a status patch (`Abandon`).

What is assumed of AWS (`Stored`): it fills in a default ttl, keeps one prompt of each
type in an order of its own, its default where none overrides it, and may
show the defaults of the prompts only later (`Replies`). It may refuse a request
for a value (`Rejected`) with a ValidationException.

## 4. Runs

| Run | Config | Question | Bounds |
|---|---|---|---|
| `reconciler_safety` | `ReconcilerSafety.cfg` | safety and refinement; has a success done what the CR says | 3 edits, every fault once, 3 disturbances mixed, 3 identifiers, 3 confs, one of them AWS's default and one invalid, or none, 1 prompt, 1 tag key; others change the agent only to what AWS accepts |
| `reconciler_synced` | `ReconcilerSynced.cfg` | is `ResourceSynced` true, and does a resync leave a synced agent alone | as above without crashes, lost replies, failed status patches and drift, 4 mixed |
| `reconciler_live` | `ReconcilerLive.cfg` | convergence, deletion, no agent left behind | 2 edits, every fault once, 3 mixed, no tags |
| `tag_sync` | `TagSync.cfg` | exactness, what is left alone, convergence | one key per origin, one value and the empty one, one edit, drift, fault and restart in any combination, any tags at first |
| `field_sync` | `FieldSync.cfg` | numbers, conditions, what a patch may change, what a success leaves, convergence of the fields | int32 is -4..3, float32 the even numbers; 23 specs a user may write, 2 drafts of others; one edit, drift, late default, restart and failure of each kind, 2 of them mixed |
| `manager_factory` | `ManagerFactory.cfg` | exclusion, cache use, calls return | 3 threads, 2 combinations, any number of calls |
| `references` | `References.cfg` | entitlement, clearing, what a success leaves, following the Role | 2 ARNs, 2 changes of Roles, one edit, failing call and restart, other namespaces not allowed |
| `synced_after_restart` | `SyncedAfterRestart.cfg` | finding 1 | one restart |
| `prompt_delta` | `PromptDelta.cfg` | finding 2 | no fault |
| `async_delete` | `AsyncDelete.cfg` | finding 3 | no fault |
| `duplicate_managers` | `DuplicateManagers.cfg` | finding 4 | 3 threads |
| `role_given` | `RoleGiven.cfg` | finding 5 | no disturbance |

Why the bounds are enough. Creation, one change and deletion take three edits; a
second agent needs a first that is lost or deleted from outside, so three
identifiers show a third that must not come. Faults are bounded by kind and by
how many kinds a behaviour mixes (`Limit`, `Budget`), never by where they strike.
The theorems do without these bounds. Identifiers are symmetric in the safety
run only, since symmetry is not sound for liveness. `CHECK_DEADLOCK FALSE` in the
reconciler's runs: it stops when there is no CR or when the error was terminal.
So do the two runs of the references, where a role that is taken away is a terminal
error. Tags and factory never stop and are checked for deadlock.

In `reconciler_safety` an agent counts as known (`Tracked`) when it lives and
its identifier has not been lost to the controller: by a lost reply of
CreateAgent, by a failed status patch or by a crash before it. Such orphans exist in
the code (`sdk.go:358`, hazards) and no property excludes them; the properties say
that nothing else makes an orphan.

`PatchFillsUnset` says what a patch of the spec may write. The patch is made of what the
reconciliation read and of the reply, so a field that was given when it was read is not
written, whatever the user has made of it since. A field that was left out at the read is
written, also over a value the user has given in between: that edit is lost (hazards, `manager.go:232`),
and no property excludes it, since the code does it. What is written there is the agent's value.

`SuccessIsTrue` speaks of an agent nobody else has changed (`NoDrift`); restarts, lost
replies and failed patches are allowed. A worker that ends without an error knows the agent
as it is, and the CR says the same unless it is due again (`queue`); that may be because
of an edit or because of the worker's own patch. The other two need `StatusKnown` as well: no
status was lost to a restart, a lost reply or a failed patch of the status. Finding 1 is what
happens without it.

In `field_sync` any user spec may come first and any other may follow in an edit, at every step. The
specs hold, for each kind of field, a value in range, one past each end, and values
that would wrap around to one in range (`MCFields`), a number AWS refuses, no value, and
prompts of every mode, in AWS's order and not, that rounding changes or not. One disturbance of
each kind and two mixed are enough for an edit or a failure in the middle of a
reconciliation that repairs another, which is where a condition is left over and where
an update could answer another. An update that went on for ever does so without any disturbance.
`PatchKeepsWhatWasRead` takes what was read in the form AWS gives it as the same: the
order of the prompts, the default prompts beside them and the rounding of a temperature do
end up in the CR (`sdk.go:731`). The same for `FieldsConverge` (`Substance`). It is about what was
read, as `PatchFillsUnset` is: a patch that reorders or rounds the prompts writes the old ones over
new ones the user has given meanwhile. After that the CR and the agent agree on the old value,
so that `FieldsConverge` does not see the lost edit either.

`VerdictIsTrue` allows what the code does with a Recoverable condition that an earlier
reconciliation left: `updateConditions` does not touch it when it sets Terminal
(`sdk.go:1310-1325`), so both may be True. `failing` remembers whether a reconciliation
ended recoverably with no success recorded since; only then may Recoverable stand beside Terminal. A spec whose prompts
lack a mode is outside `AgentRests` and `FieldsConverge`: every comparison of it
panics, also right after CreateAgent, so that each attempt makes another agent.

What the violations show:

1. After a restart between UpdateAgent and the status patch the CR's status is
   still `PREPARED`. The next reconciliation only prepares the agent, `sdkUpdate`
   returns `desired` with that old status (`sdk.go:811`), `IsSynced` answers true, and
   the CR says `ResourceSynced=True` while the agent is `PREPARING`.
   `reconciler_synced` shows that this needs a lost status, and `SuccessIsTrue` in
   `reconciler_safety` that only the status is wrong: the draft is what the CR says
   after any restart.
2. `hooks.go:58` promises no delta when the prompt is not set; `HasNilDifference`
   two lines on is true when only desired is nil.
3. `sdkDelete` drops the status in DeleteAgent's reply, so the CR goes while the
   agent is `DELETING`.
4. `ManagerFor` does not look again after `Lock`: two callers that miss make two
   managers. `FewManagers` bounds the damage by the number of threads.
5. The role is required (`generator.yaml:24-25`), but `agentResourceRoleRef: {}`, which the
   CRD allows, is a reference to `validateReferenceFields` and none to the code
   that resolves it (`references.go:84`, `99`): the agent is created without a role.

## 5. Fairness

`FairSpec` of the reconciler assumes weak fairness of the worker (the process
runs, and is restarted when it crashes), of the resync timer and of AWS (a
transitional status ends), and strong fairness of AWS finishing while the CR
waits to be retried: the runtime's retries back off exponentially to minutes, while
AWS takes seconds, so again and again a wait is long enough. Without that
assumption a worker could read `PREPARING`, be refused, and repeat this in lock
step with AWS. It is not assumed that a user does anything, nor that a fault or
drift does not happen; `Limit` makes them finite.

`FairSpec` of the tags assumes weak fairness of the worker: the CR is reconciled
again after each error and each resync period. `FairSpec` of the factory assumes that
the Go scheduler runs each thread that can run; callers may never call. `FairSpec` of
the references assumes weak fairness of the worker and of the resync timer, not of
the Roles: `RoleConverges` speaks of Roles that are usable in the end. `FairSpec` of the
fields assumes the same two: the worker runs, and the resync timer fires. `FieldsConverge`
leaves out a CR whose last error was terminal, since the runtime does not retry it.

## 6. What is proved

For every value of the constants that meets `ValueAssumption`, `BedrockAssumption`,
`LimitAssumption`, `TagAssumption`, `FactoryAssumption`, `ReferenceAssumption`,
`FieldAssumption` and `FieldReconcilerAssumption` (special values differ from
proper ones and the nil pointer from every status, limits are natural numbers, there are
finitely many threads, rounding twice is rounding once, other people's drafts are in
range since AWS has accepted them):

* `ReconcilerTypeProofs`: `TypeCorrect`.
* `ReconcilerSafetyProofs`: `Safe` (`[]IInv`), and from it `FinalizerIsHeld`,
  `OneAgent`, `IdIsStable` and `ImplementsLifecycle`.
* `ReconcilerSyncProofs`: `KnowledgeIsTrue` (`[]SyncInv`), and from it `SuccessesAreTrue`,
  `SyncedTruth` (`SyncedIsTrue` wherever `StatusKnown` holds), `SyncedTruthUndisturbed`
  (`SyncedIsTrue` for every instance whose limits rule those disturbances out, as the run's do)
  and `SyncedAgentsRest`; and, with the invariant `Fillable` that what is about to be patched
  differs from what was read only in fields left out there, `PatchesFillUnset`.
* `TagSyncProofs`: `TagTypes`, `TagSafe` (`[]TagInv`), `SyncExact`, `GoodTagsAreKept`,
  `AwsTagsAreKept`, `CrTagsAreKept`, and the lemmas on the pure functions
  `TwoCallsSuffice` and `FilterHidesMirror`.
* `ManagerFactoryProofs`: `FactoryTypes`, `FactorySafe` (`[]FactoryInv`), `MapIsExclusive`,
  `CacheIsUsed`, `ManagersCounted` (`[]CountInv`), `ManagersAreFew`.
* `FieldReconcilerProofs`: `FieldsSafe` (`[]FieldInv`), and from it `NumbersAreGiven`,
  `VerdictsAreTrue` and `ErrorsAreVisible`, with the lemma on the conversion `NarrowingIsExact`.
* `FieldValuesProofs`: `PatchesKeepWhatWasRead`, provided no user asks for two different overriding
  prompts of one type or for one of a type AWS does not know (`OnePerType`), of which AWS
  could keep only one; and `SuccessesAgree`, for any specs as long as nobody else changes the
  agent.
* `AgentReferencesProofs`: `RefSafe` (`[]RefInv`), `RolesAreEntitled`,
  `SuccessesHaveTheirRole`, `ResolutionIsUndone`, and the lemmas on the pure functions
  `ClearUndoesResolve` and `ResolveGives`.

The argument for the reconciler. `FinalizerHeld` alone is not inductive: whether
the finalizer may come off depends on what the worker believes. The strengthening,
`Accountable`, says what the worker knows: the tracked agent is the one `latest`
names while a reconciliation runs and the one the CR names at rest
(`HoldsAgent`); nothing is tracked when an agent is about to be created or
a finalizer about to come off (`NothingToGuard`); a managed CR keeps its finalizer as long as the
reconciliation of it runs (`Guarded`); until a creation all copies of the
identifier agree (`SameAgent`), which is why `*desired.ko.Status.AgentID`
(`sdk.go:793`) is the agent that was read; and a second agent is created only
when the CR's first has gone (`OldAgentGone`). `AtMostOne` follows from
`HoldsAgent`, `IdStable` from `OldAgentGone`, and the refinement from all of them:
`CreateAgent` is the lifecycle's `Create`, the deletion or loss of an agent is
`Leave`, every other step stutters or guards.

The argument for the synced CR. That a CR at rest tells the truth depends on what the
worker knew when it wrote the status, so `SyncInv` follows that knowledge through a
reconciliation, in two parts. `DraftInv` is about the draft and holds under every fault but a
change from outside: a read gives what the agent has, but for a default that AWS fills in
later (`ReadTrue`); what is not in the delta, or has been taken out of it, is equal, and between
the two tag calls the tags are what they should be by then (`DeltaTrue`); the answer the update
gives, and its completion by late initialization, are the draft (`AnswerTrue`, `ResultTrue`); and
a CR that has been edited since is due again (`Unedited`). `SuccessIsTrue` follows. The second
part is about the status and needs `StatusKnown`: a status `PREPARED` of the CR, and of
every copy of it, is the agent's (`CrStatusTrue`, `ReadStatusTrue`). It is inductive because only
the worker takes an agent out of that status, and every call by which it does so leaves another
status in `latest`: `sdkUpdate` returns `desired` with the old status after a preparation
(`sdk.go:811`), which is harmless exactly because the agent was prepared only if `desired` was not
`PREPARED`; a lost status breaks that link, and is finding 1. `SyncedIsLeftAlone` needs, besides,
that what the delta of a prepared agent does contain really differs (`NeededOnly`).

The argument for the tags. Before `untag` the agent's tags are what was read, before
`tag` they are that without the removed keys, before the patch they are the
desired ones, each except for keys that somebody else wrote (`Progress`). Desired
and latest agree on AWS's keys once they are mirrored (`AwsTagsMirrored`), so those are
neither added nor removed.

The argument for the factory. Readers and the writer exclude each other, and an entry
that a call has seen stays, since the map only ever gains entries. For the number of managers
(`CountInv`): every manager was made by a thread that had missed, and once one is cached
no thread misses any more, so managers and threads about to make one are together no more than
the threads.

The argument for the references. Between the read of a Role and the call, what the worker
holds need no longer be what the CR or the Role says, so `RoleEntitled` needs
`HeldEntitled`: an ARN about to be used is one the CR has been entitled to. It
holds because a usable Role has always been published (`PublishedIsKept`), because a
spec that passes validation has only one of the two fields, and because
entitlements are only ever gained. `RoleEntitled` speaks of every spec the CR has had;
`SuccessHasRole` of the one it has. It needs `HeldIsCurrent`: as long as the CR is not
queued again, what the worker holds was resolved from it (`ResolveGives`). A reference
without `from` is the exception, to which finding 5 belongs (`MayHave`).

The argument for the fields. `NothingInvented` needs that the copies the worker
holds are of given numbers too (`Sourced`), and that a request is only built from a
spec in range; then the narrowing is exact and rounding only gives roundings of given
numbers. The verdicts need `Pending`: before a call that can fail, the calls before it
have taken both conditions back, so that the Terminal condition `onError` finds is its own; a
Recoverable condition that was not taken back goes back to an error that `failing` remembers; and the
result of late initialization says in its own condition whether the read succeeded. For
`PatchesKeepWhatWasRead` the strengthening is `Kept`: what the worker is about to patch keeps the values of
what it is compared with (`KeptBy`), which for a creation or an update is the lemma `AnswerKeeps`: the
prompts of a reply are, apart from the default ones, the roundings of those asked for, one for each type.
For `SuccessesAgree` it is `AgreeInv`: the worker's copy is the CR's spec until the first patch, and
is near the agent's draft from the call that brought it up to date, that is, no different but for
prompts the reply did not show (`ReplyShows`). Late initialization fills in exactly those, and
since "no difference" is an equivalence (`SameAsSame`), a patch that writes only the fields that
changed, or is left out, gives a CR that agrees as well (`PatchMakes`). An edit during the
reconciliation is the exception for the CR (`Unedited`), drift for all of it. `AgreeInv` is not
an invariant of a listed run; with `Spec` and the constants of `FieldSync.cfg`, TLC finds it
to hold.

Only model-checked: every liveness property (`Convergence`, `DeletionCompletes`,
`AgentsGo`, `TagsConverge`, `CallsReturn`, `RoleConverges`, `AgentRests`, `FieldsConverge`; TLAPS
has no rule for fairness here). Every safety property of a passing run is proved.

## 7. Not modelled

* Adoption. `SetIdentifiers` and `PopulateResourceFromAnnotation` copy an identifier into the
  status, `MarkAdopted` sets an annotation. When they are called, and what is patched after, is
  decided by the ACK runtime, and nothing in the repository says more about it.
* Secrets: no field of an agent is one, though `updateConditions` knows their errors.
* A string field differs from a number only in that it is not converted; `ttl` stands for both
  in the comparison. The tags among the fields are `TagSync`'s, the role is `AgentReferences`'.
* Two comparisons: `OverrideLambda`, a string compared before the prompts (`hooks.go:68-74`), and the
  list `EnabledMemoryTypes` (`delta.go:145-151`), for which nil and empty are equal.
* A write-back of the resolved role: whether the runtime clears it before a patch is not said
  in the repository. `ResolutionUndone` checks that the code can clear it, as a function.
* The calls of the manager with a resource that has no CR object: they panic by intent.
* Logging, metrics, tracing, messages of conditions, start-up, the registry, version
  information, manifests and tests have no state the properties depend on. Generated deep
  copies are taken to copy: resources are values in the model.
