------------------------------ MODULE TagSync ------------------------------
(***************************************************************************)
(* The tags of one agent, key by key and with their values: how the tags a *)
(* user asks for, the tags the controller is started with and the tags AWS *)
(* puts on the agent are kept apart and brought into line                  *)
(* (pkg/resource/tags/sync.go, pkg/resource/agent/tags.go and manager.go). *)
(* AgentReconciler has the reconciliation around it and only tag keys.     *)
(*                                                                         *)
(* A tag map is a function on all keys, NoTag where the Go map has no      *)
(* entry. Nil is a Go nil pointer in the CR's map[string]*string.          *)
(***************************************************************************)
EXTENDS Naturals, FiniteSets

CONSTANTS
    UserKeys,       \* keys users pick
    SystemKeys,     \* keys of the --resource-tags flag
    AwsKeys,        \* keys that start with "aws:"
    Values, Empty,  \* values of tags, and the empty string
    NoTag, Nil,
    FlagSettings,   \* the tags the flag may expand to, in one release or another
    Limit           \* how often each kind of disturbance may happen

Keys == UserKeys \cup SystemKeys \cup AwsKeys

Tags == [Keys -> Values \cup {Empty, NoTag}]

(* What users write; no keys of AWS's.                                     *)
CrTags == {t \in [Keys -> Values \cup {Empty, NoTag, Nil}] :
              \A k \in AwsKeys : t[k] = NoTag}

Kinds == {"edit", "drift", "fault", "restart"}

ASSUME TagAssumption ==
    /\ AwsKeys \cap (UserKeys \cup SystemKeys) = {}
    /\ Nil \notin Values \cup {Empty, NoTag}
    /\ NoTag \notin Values \cup {Empty}
    /\ FlagSettings \subseteq Tags
    /\ \A flags \in FlagSettings, k \in UserKeys \cup AwsKeys : flags[k] = NoTag
    /\ Limit \in [Kinds -> Nat]

VARIABLES
    crTags,     \* Spec.Tags of the CR
    awsTags,    \* the agent's tags in AWS
    flags,      \* what --resource-tags expands to in the running controller
    pc,         \* the worker's next call
    desired,    \* Spec.Tags of the desired resource
    latest,     \* Spec.Tags of the latest observed resource
    drifted,    \* history: keys somebody else wrote since the worker's read
    used        \* how many disturbances of each kind have happened

vars == <<crTags, awsTags, flags, pc, desired, latest, drifted, used>>

-----------------------------------------------------------------------------
(* The pure functions.                                                     *)

NoTags == [k \in Keys |-> NoTag]

(* Mutant of ToACKTags: nil values are passed on.                          *)
ToACKTagsNil(t) == [k \in Keys |-> t[k]]

ToACKTags(t) == [k \in Keys |-> IF t[k] = Nil THEN Empty ELSE t[k]]

(* acktags.Merge: the first map wins.                                      *)
MergeTags(a, b) == [k \in Keys |-> IF a[k] # NoTag THEN a[k] ELSE b[k]]

(* Mutant of EnsureTags: the controller's tags win over the user's.        *)
EnsureTagsOverriding(t, defaults) == MergeTags(defaults, ToACKTags(t))

EnsureTags(t, defaults) == MergeTags(ToACKTags(t), defaults)

(* Mutant of MirrorAWSTags: nothing is mirrored.                           *)
MirrorNothing(a, b) == a

MirrorAWSTags(a, b) ==
    [k \in Keys |-> IF k \in AwsKeys /\ b[k] # NoTag THEN b[k] ELSE a[k]]

FilterSystemTags(t, defaults) ==
    [k \in Keys |-> IF k \in AwsKeys \/ defaults[k] # NoTag THEN NoTag ELSE t[k]]

(* ackcompare.GetTagsDifference: a key whose value changes is added, not   *)
(* removed as well.                                                        *)
Added(from, to) == {k \in Keys : to[k] # NoTag /\ to[k] # from[k]}

Removed(from, to) == {k \in Keys : from[k] # NoTag /\ to[k] = NoTag}

Untagged(t, keys) == [k \in Keys |-> IF k \in keys THEN NoTag ELSE t[k]]
Tagged(t, keys, source) == [k \in Keys |-> IF k \in keys THEN source[k] ELSE t[k]]

-----------------------------------------------------------------------------
Spend(kind) ==
    /\ used[kind] < Limit[kind]
    /\ used' = [used EXCEPT ![kind] = @ + 1]

(* A controller that starts with an agent as it finds it.                  *)
Init ==
    /\ crTags \in CrTags
    /\ flags \in FlagSettings
    /\ awsTags \in Tags
    /\ pc = "idle"
    /\ desired = NoTags /\ latest = NoTags /\ drifted = {}
    /\ used = [k \in Kinds |-> 0]

UserEdit ==
    /\ Spend("edit")
    /\ crTags' \in CrTags
    /\ UNCHANGED <<awsTags, flags, pc, desired, latest, drifted>>

(* Somebody else tags or untags the agent; AWS itself does with its keys.  *)
Drift ==
    /\ Spend("drift")
    /\ \E k \in Keys, v \in Values \cup {Empty, NoTag} :
          /\ awsTags' = [awsTags EXCEPT ![k] = v]
          /\ drifted' = drifted \cup {k}
    /\ UNCHANGED <<crTags, flags, pc, desired, latest>>

Idle ==
    /\ pc' = "idle"
    /\ desired' = NoTags /\ latest' = NoTags /\ drifted' = {}

(* The controller restarts, as another release or with other flags.        *)
Restart ==
    /\ Spend("restart")
    /\ flags' \in FlagSettings
    /\ Idle
    /\ UNCHANGED <<crTags, awsTags>>

Start ==
    /\ pc = "idle"
    /\ desired' = EnsureTags(crTags, flags)
    /\ pc' = "read"
    /\ UNCHANGED <<crTags, awsTags, flags, latest, drifted, used>>

(* The call fails, or its reply is lost; the worker will start again.      *)
GiveUp == Spend("fault") /\ Idle

ReadOne ==
    /\ pc = "read"
    /\ \/ /\ latest' = awsTags
          /\ desired' = MirrorAWSTags(desired, awsTags)
          /\ pc' = IF desired' # latest' THEN "untag" ELSE "patch"
          /\ drifted' = {}
          /\ UNCHANGED used
       \/ GiveUp
    /\ UNCHANGED <<crTags, awsTags, flags>>

(* Mutants of UntagResource: every old key is removed first, or an error   *)
(* of the call is dropped.                                                 *)
UntagResourceAll ==
    /\ pc = "untag"
    /\ awsTags' = Untagged(awsTags, {k \in Keys : latest[k] # NoTag})
    /\ pc' = "tag"
    /\ UNCHANGED <<crTags, flags, desired, latest, drifted, used>>
UntagResourceUnchecked ==
    /\ pc = "untag"
    /\ awsTags' \in {awsTags, Untagged(awsTags, Removed(latest, desired))}
    /\ pc' = "tag"
    /\ UNCHANGED <<crTags, flags, desired, latest, drifted, used>>

UntagResource ==
    /\ pc = "untag"
    /\ LET removed == Removed(latest, desired) IN
       \/ /\ awsTags' = Untagged(awsTags, removed)
          /\ \/ pc' = "tag" /\ UNCHANGED <<desired, latest, drifted, used>>
             \/ removed # {} /\ GiveUp
       \/ removed # {} /\ GiveUp /\ UNCHANGED awsTags
    /\ UNCHANGED <<crTags, flags>>

(* Mutant of TagResource: the update returns what had been read.           *)
TagResourceStale ==
    /\ pc = "tag"
    /\ awsTags' = Tagged(awsTags, Added(latest, desired), desired)
    /\ pc' = "patch"
    /\ UNCHANGED <<crTags, flags, desired, latest, drifted, used>>

(* sdkUpdate returns the desired tags.                                     *)
TagResource ==
    /\ pc = "tag"
    /\ LET added == Added(latest, desired) IN
       \/ /\ awsTags' = Tagged(awsTags, added, desired)
          /\ \/ /\ pc' = "patch" /\ latest' = desired
                /\ UNCHANGED <<desired, drifted, used>>
             \/ added # {} /\ GiveUp
       \/ added # {} /\ GiveUp /\ UNCHANGED awsTags
    /\ UNCHANGED <<crTags, flags>>

(* The merge patch of the CR's spec: what differs once the tags that are   *)
(* not the user's have been filtered out of both.                          *)
PatchSpec ==
    /\ pc = "patch"
    /\ LET new == FilterSystemTags(latest, flags)
           old == FilterSystemTags(desired, flags) IN
       crTags' = [k \in Keys |-> IF new[k] # old[k] THEN new[k] ELSE crTags[k]]
    /\ Idle
    /\ UNCHANGED <<awsTags, flags, used>>

Worker == Start \/ ReadOne \/ UntagResource \/ TagResource \/ PatchSpec

Next == Worker \/ UserEdit \/ Drift \/ Restart

Spec == Init /\ [][Next]_vars

(* The CR is reconciled again after every error, edit, restart and resync  *)
(* period.                                                                 *)
FairSpec == Spec /\ WF_vars(Worker)

-----------------------------------------------------------------------------
(* Every variable has its type.                                            *)
TypeOK ==
    /\ crTags \in CrTags
    /\ awsTags \in Tags /\ desired \in Tags /\ latest \in Tags
    /\ flags \in FlagSettings
    /\ pc \in {"idle", "read", "untag", "tag", "patch"}
    /\ drifted \subseteq Keys
    /\ used \in [Kinds -> Nat]

(* The worker moves pc with every step, nobody else does.                  *)
WorkerStep == pc' # pc

(* The worker never adds, changes or removes a tag of AWS's own, not even  *)
(* one that appears or goes away while it works (tags.go syncAWSTags).     *)
AwsTagsKept ==
    [][WorkerStep => \A k \in AwsKeys : awsTags'[k] = awsTags[k]]_vars

(* A tag that is as desired stays on the agent through the whole update,   *)
(* also when it fails half-way (sync_test.go: a value change only calls    *)
(* TagResource).                                                           *)
GoodTagsStay ==
    [][WorkerStep => \A k \in Keys :
          latest[k] = desired[k] => awsTags'[k] = awsTags[k]]_vars

(* When the update is done every tag is as desired, but for those somebody *)
(* else wrote after the worker had read them.                              *)
SyncIsExact ==
    pc = "patch" => \A k \in Keys \ drifted : awsTags[k] = desired[k]

(* The tags of AWS and of the controller never get into the CR, and the    *)
(* user's tags stay as the user wrote them (manager.go FilterSystemTags).  *)
CrTagsKept == [][WorkerStep => crTags' = crTags]_vars

(* Once edits, drift, faults and restarts are over, the agent has the      *)
(* user's tags and, for the other keys, the controller's (manager.go       *)
(* EnsureTags: without overriding them).                                   *)
TagsConverge ==
    <>[](\A k \in UserKeys \cup SystemKeys :
            awsTags[k] = CASE crTags[k] = Nil -> Empty
                           [] crTags[k] = NoTag -> flags[k]
                           [] OTHER -> crTags[k])

-----------------------------------------------------------------------------
(* What the worker knows while it works.                                   *)

(* Neither the user nor the flag has a key of AWS's, and the worker's two  *)
(* copies agree on them after the read.                                    *)
AwsTagsMirrored ==
    \A k \in AwsKeys :
        /\ pc = "read" => desired[k] = NoTag
        /\ pc \in {"untag", "tag"} => desired[k] = latest[k]

(* How far the agent's tags are from the desired ones before each call.    *)
Progress ==
    /\ pc = "untag" => \A k \in Keys \ drifted : awsTags[k] = latest[k]
    /\ pc = "tag" => \A k \in Keys \ drifted :
                        awsTags[k] = IF desired[k] = NoTag THEN NoTag ELSE latest[k]
    /\ pc = "patch" => latest = desired

(* The inductive invariant.                                                *)
TagInv == TypeOK /\ AwsTagsMirrored /\ Progress /\ SyncIsExact
=============================================================================
