--------------------------- MODULE TagSyncProofs ---------------------------
(***************************************************************************)
(* Proofs about TagSync for any sets of keys and values, any settings of   *)
(* the controller's flag and any bounds.                                   *)
(***************************************************************************)
EXTENDS TagSync, TLAPS

-----------------------------------------------------------------------------
(* The pure functions.                                                     *)

(* Every function on tag maps yields a tag map.                            *)
LEMMA TagMaps ==
    /\ NoTags \in Tags
    /\ \A t \in CrTags, f \in FlagSettings : EnsureTags(t, f) \in Tags
    /\ \A a, b \in Tags : MirrorAWSTags(a, b) \in Tags
    /\ \A t \in Tags, keys \in SUBSET Keys, source \in Tags :
          Untagged(t, keys) \in Tags /\ Tagged(t, keys, source) \in Tags
<1>1. NoTags \in Tags
  BY DEF NoTags, Tags
<1>2. ASSUME NEW t \in CrTags, NEW f \in FlagSettings
      PROVE  EnsureTags(t, f) \in Tags
  <2>1. f \in Tags
    BY TagAssumption
  <2>2. ToACKTags(t) \in Tags
    BY DEF ToACKTags, Tags, CrTags
  <2> QED
    BY <2>1, <2>2 DEF EnsureTags, MergeTags, Tags
<1>3. \A a, b \in Tags : MirrorAWSTags(a, b) \in Tags
  BY DEF MirrorAWSTags, Tags
<1>4. \A t \in Tags, keys \in SUBSET Keys, source \in Tags :
         Untagged(t, keys) \in Tags /\ Tagged(t, keys, source) \in Tags
  BY DEF Untagged, Tagged, Tags
<1> QED
  BY <1>1, <1>2, <1>3, <1>4

(* Removing what is not wanted and then adding what is missing turns any   *)
(* tags into the wanted ones: SyncResourceTags needs no third call.        *)
THEOREM TwoCallsSuffice ==
    ASSUME NEW from \in Tags, NEW to \in Tags
    PROVE  Tagged(Untagged(from, Removed(from, to)), Added(from, to), to) = to
<1>1. \A k \in Keys :
         Tagged(Untagged(from, Removed(from, to)), Added(from, to), to)[k] = to[k]
  BY DEF Tagged, Untagged, Added, Removed, Tags
<1> QED
  BY <1>1 DEF Tagged, Tags

(* Mirroring the tags of AWS into the desired resource does not show in    *)
(* what is patched into the CR (mirrorAWSTags: the logic of the controller *)
(* will ensure these tags aren't patched to the resource in the cluster).  *)
THEOREM FilterHidesMirror ==
    ASSUME NEW a \in Tags, NEW b \in Tags, NEW f \in FlagSettings
    PROVE  FilterSystemTags(MirrorAWSTags(a, b), f) = FilterSystemTags(a, f)
  BY DEF FilterSystemTags, MirrorAWSTags

(* The controller's tags never replace a tag of the user's, and never come *)
(* with a key of AWS's.                                                    *)
LEMMA EnsureKeepsUsers ==
    ASSUME NEW t \in CrTags, NEW f \in FlagSettings
    PROVE  /\ \A k \in Keys : t[k] \notin {NoTag, Nil} => EnsureTags(t, f)[k] = t[k]
           /\ \A k \in AwsKeys : EnsureTags(t, f)[k] = NoTag
<1>1. \A k \in Keys : t[k] \notin {NoTag, Nil} => EnsureTags(t, f)[k] = t[k]
  BY DEF EnsureTags, MergeTags, ToACKTags
<1>2. \A k \in AwsKeys : f[k] = NoTag /\ t[k] = NoTag /\ k \in Keys
  BY TagAssumption DEF CrTags, Keys
<1>3. \A k \in AwsKeys : EnsureTags(t, f)[k] = NoTag
  BY <1>2, TagAssumption DEF EnsureTags, MergeTags, ToACKTags
<1> QED
  BY <1>1, <1>3

-----------------------------------------------------------------------------
(* The invariant is inductive.                                             *)

(* It holds initially.                                                     *)
LEMMA TagInit == Init => TagInv
<1> SUFFICES ASSUME Init PROVE TagInv
  OBVIOUS
<1>1. TypeOK
  BY TagMaps DEF Init, TypeOK
<1>2. AwsTagsMirrored /\ Progress /\ SyncIsExact
  BY DEF Init, AwsTagsMirrored, Progress, SyncIsExact
<1> QED
  BY <1>1, <1>2 DEF TagInv

(* The CR's tags and the worker's are left alone when both copies agree.   *)
LEMMA PatchKeeps ==
    ASSUME TagInv, PatchSpec
    PROVE  crTags' = crTags
<1>1. latest = desired
  BY DEF TagInv, Progress, PatchSpec
<1>2. crTags' = [k \in Keys |-> crTags[k]]
  BY <1>1 DEF PatchSpec
<1> QED
  BY <1>2 DEF TagInv, TypeOK, CrTags

(* Every step keeps the types.                                             *)
LEMMA TagTypeNext == TagInv /\ [Next]_vars => TypeOK'
<1> SUFFICES ASSUME TagInv, [Next]_vars PROVE TypeOK'
  OBVIOUS
<1> USE DEF TagInv, TypeOK
<1>1. ASSUME NEW kind \in Kinds, Spend(kind) PROVE used' \in [Kinds -> Nat]
  BY <1>1 DEF Spend
<1>2. CASE UserEdit
  BY <1>2, <1>1 DEF UserEdit, Kinds
<1>3. CASE Drift
  <2>1. awsTags' \in Tags
    BY <1>3 DEF Drift, Tags
  <2>2. drifted' \subseteq Keys
    BY <1>3 DEF Drift
  <2> QED
    BY <1>3, <1>1, <2>1, <2>2 DEF Drift, Kinds
<1>4. CASE Restart
  BY <1>4, <1>1, TagMaps DEF Restart, Idle, Kinds
<1>5. CASE Start
  BY <1>5, TagMaps DEF Start
<1>6. CASE ReadOne
  BY <1>6, <1>1, TagMaps DEF ReadOne, GiveUp, Idle, Kinds
<1>7. CASE UntagResource
  <2>1. Removed(latest, desired) \in SUBSET Keys
    BY DEF Removed
  <2>2. awsTags' \in Tags
    BY <1>7, <2>1, TagMaps DEF UntagResource
  <2> QED
    BY <1>7, <1>1, <2>2, TagMaps DEF UntagResource, GiveUp, Idle, Kinds
<1>8. CASE TagResource
  <2>1. Added(latest, desired) \in SUBSET Keys
    BY DEF Added
  <2>2. awsTags' \in Tags
    BY <1>8, <2>1, TagMaps DEF TagResource
  <2> QED
    BY <1>8, <1>1, <2>2, TagMaps DEF TagResource, GiveUp, Idle, Kinds
<1>9. CASE PatchSpec
  BY <1>9, PatchKeeps, TagMaps DEF PatchSpec, Idle
<1>10. CASE UNCHANGED vars
  BY <1>10 DEF vars
<1> QED
  BY <1>2, <1>3, <1>4, <1>5, <1>6, <1>7, <1>8, <1>9, <1>10 DEF Next, Worker

(* Every step keeps the rest of the invariant.                             *)
LEMMA TagNext == TagInv /\ [Next]_vars => TagInv'
<1> SUFFICES ASSUME TagInv, [Next]_vars PROVE TagInv'
  OBVIOUS
<1>0. TypeOK'
  BY TagTypeNext
<1>1. SUFFICES AwsTagsMirrored' /\ Progress' /\ SyncIsExact'
  BY <1>0 DEF TagInv
<1> USE DEF TagInv, AwsTagsMirrored, Progress, SyncIsExact
<1>2. CASE UserEdit
  BY <1>2 DEF UserEdit
<1>3. CASE Drift
  BY <1>3 DEF Drift, TypeOK, Tags
<1>4. CASE Restart
  BY <1>4 DEF Restart, Idle
<1>5. CASE Start
  BY <1>5, EnsureKeepsUsers DEF Start, TypeOK
<1>6. CASE ReadOne
  <2>1. CASE pc' = "idle"
    BY <2>1
  <2>2. CASE pc' # "idle"
    <3>1. /\ pc = "read" /\ latest' = awsTags /\ awsTags' = awsTags /\ drifted' = {}
          /\ desired' = MirrorAWSTags(desired, awsTags)
          /\ pc' \in {"untag", "patch"} /\ (pc' = "patch" => desired' = latest')
      BY <1>6, <2>2 DEF ReadOne, GiveUp, Idle
    <3>2. AwsTagsMirrored'
      <4> SUFFICES ASSUME NEW k \in AwsKeys PROVE desired'[k] = latest'[k]
        BY <3>1
      <4>1. k \in Keys /\ desired[k] = NoTag
        BY <3>1 DEF Keys
      <4> QED
        BY <3>1, <4>1 DEF MirrorAWSTags
    <3>3. Progress' /\ SyncIsExact'
      BY <3>1
    <3> QED
      BY <3>2, <3>3
  <2> QED
    BY <2>1, <2>2
<1>7. CASE UntagResource
  <2>1. CASE pc' = "idle"
    BY <2>1
  <2>2. CASE pc' # "idle"
    <3>1. /\ pc = "untag" /\ pc' = "tag" /\ UNCHANGED <<desired, latest, drifted>>
          /\ awsTags' = Untagged(awsTags, Removed(latest, desired))
      BY <1>7, <2>2 DEF UntagResource, GiveUp, Idle
    <3> QED
      BY <3>1 DEF Untagged, Removed
  <2> QED
    BY <2>1, <2>2
<1>8. CASE TagResource
  <2>1. CASE pc' = "idle"
    BY <2>1
  <2>2. CASE pc' # "idle"
    <3>1. /\ pc = "tag" /\ pc' = "patch" /\ UNCHANGED <<desired, drifted>>
          /\ latest' = desired
          /\ awsTags' = Tagged(awsTags, Added(latest, desired), desired)
      BY <1>8, <2>2 DEF TagResource, GiveUp, Idle
    <3> QED
      BY <3>1 DEF Tagged, Added
  <2> QED
    BY <2>1, <2>2
<1>9. CASE PatchSpec
  BY <1>9 DEF PatchSpec, Idle
<1>10. CASE UNCHANGED vars
  BY <1>10 DEF vars
<1> QED
  BY <1>2, <1>3, <1>4, <1>5, <1>6, <1>7, <1>8, <1>9, <1>10 DEF Next, Worker

-----------------------------------------------------------------------------
(* What follows.                                                           *)

(* Every reachable state satisfies the inductive invariant.                *)
THEOREM TagSafe == Spec => []TagInv
<1>1. TagInv /\ [Next]_vars => TagInv'
  BY TagNext
<1> QED
  BY TagInit, <1>1, PTL DEF Spec

(* Every variable has its type.                                            *)
THEOREM TagTypes == Spec => []TypeOK
<1>1. TagInv => TypeOK
  BY DEF TagInv
<1> QED
  BY TagSafe, <1>1, PTL

(* A finished update leaves every tag as desired that nobody else wrote.   *)
THEOREM SyncExact == Spec => []SyncIsExact
<1>1. TagInv => SyncIsExact
  BY DEF TagInv
<1> QED
  BY TagSafe, <1>1, PTL

(* A step of the worker leaves a tag alone on which its copies agree.      *)
LEMMA AgreedTags ==
    ASSUME TagInv, [Next]_vars, WorkerStep, NEW k \in Keys,
           latest[k] = desired[k] \/ pc \notin {"untag", "tag"}
    PROVE  awsTags'[k] = awsTags[k]
<1> USE DEF WorkerStep
<1>1. CASE UntagResource
  BY <1>1 DEF UntagResource, Untagged, Removed
<1>2. CASE TagResource
  BY <1>2 DEF TagResource, Tagged, Added
<1>3. CASE ~UntagResource /\ ~TagResource
  BY <1>3 DEF Next, Worker, vars, Start, ReadOne, PatchSpec, UserEdit, Drift, Restart
<1> QED
  BY <1>1, <1>2, <1>3

(* A tag that is as desired stays on the agent through every update.       *)
THEOREM GoodTagsAreKept == Spec => GoodTagsStay
<1>1. TagInv /\ [Next]_vars =>
        (WorkerStep => \A k \in Keys : latest[k] = desired[k] => awsTags'[k] = awsTags[k])
  BY AgreedTags
<1> QED
  BY TagSafe, <1>1, PTL DEF Spec, GoodTagsStay

(* The controller never touches a tag of AWS's own.                        *)
THEOREM AwsTagsAreKept == Spec => AwsTagsKept
<1>1. TagInv /\ [Next]_vars =>
        (WorkerStep => \A k \in AwsKeys : awsTags'[k] = awsTags[k])
  BY AgreedTags DEF TagInv, AwsTagsMirrored, Keys
<1> QED
  BY TagSafe, <1>1, PTL DEF Spec, AwsTagsKept

(* Reconciliation never changes the tags in the user's CR.                 *)
THEOREM CrTagsAreKept == Spec => CrTagsKept
<1>1. TagInv /\ [Next]_vars => (WorkerStep => crTags' = crTags)
  BY PatchKeeps DEF Next, Worker, vars, WorkerStep, Start, ReadOne, UntagResource,
     TagResource, UserEdit, Drift, Restart
<1> QED
  BY TagSafe, <1>1, PTL DEF Spec, CrTagsKept
=============================================================================
