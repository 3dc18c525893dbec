---------------------- MODULE ReconcilerSafetyProofs -----------------------
(***************************************************************************)
(* The safety of AgentReconciler, from one inductive invariant: the worker *)
(* always holds the identifier of the one agent it is answerable for, and  *)
(* where it creates an agent or takes the finalizer off there is none.     *)
(***************************************************************************)
EXTENDS ReconcilerTypeProofs

-----------------------------------------------------------------------------
(* What happens to the agents.                                             *)

(* Every identifier AWS has given out.                                     *)
Past == {i \in Ids : awsStatus[i] # "unused"}

(* No agent comes to life, and none is found again.                        *)
Shrinks ==
    /\ Tracked' \subseteq Tracked
    /\ \A i \in Ids : Exists(i)' => Exists(i)
    /\ Past' = Past

(* A tracked agent exists.                                                 *)
LEMMA TrackedExist == Tracked \subseteq {i \in Ids : Exists(i)}
  BY DEF Tracked, Live

(* Leaving the agents alone brings none to life.                           *)
LEMMA KeptShrink ==
    ASSUME UNCHANGED awsVars, lost \subseteq lost'
    PROVE  Shrinks
  BY DEF Shrinks, Past, Tracked, Live, Exists, awsVars

(* Nor does anything AWS does to an agent that is there.                   *)
LEMMA AwsOpsShrink ==
    ASSUME AwsTypeOK, NEW i, NEW s, NEW t, NEW to, lost \subseteq lost',
           \/ AwsPrepare(i) \/ AwsUpdate(i, s) \/ AwsDelete(i)
           \/ AwsSetTags(i, t) \/ AwsSettle(i, to)
    PROVE  Shrinks
<1>1. CASE AwsPrepare(i)
  BY <1>1 DEF AwsTypeOK, AwsPrepare, CanMutate, Shrinks, Past, Tracked, Live, Exists,
     AgentStatuses
<1>2. CASE AwsUpdate(i, s)
  BY <1>2 DEF AwsTypeOK, AwsUpdate, CanMutate, Shrinks, Past, Tracked, Live, Exists,
     AgentStatuses
<1>3. CASE AwsDelete(i)
  BY <1>3 DEF AwsTypeOK, AwsDelete, CanMutate, Shrinks, Past, Tracked, Live, Exists,
     AgentStatuses
<1>4. CASE AwsSetTags(i, t)
  BY <1>4 DEF AwsTypeOK, AwsSetTags, Shrinks, Past, Tracked, Live, Exists
<1>5. CASE AwsSettle(i, to)
  BY <1>5 DEF AwsTypeOK, AwsSettle, SettlesTo, Shrinks, Past, Tracked, Live, Exists,
     AgentStatuses
<1> QED
  BY <1>1, <1>2, <1>3, <1>4, <1>5

(* An agent that is being deleted is no longer tracked.                    *)
LEMMA DeleteUntracks ==
    ASSUME AwsTypeOK, AwsDelete(latest.id), HoldsAgent, pc # "idle", UNCHANGED lost
    PROVE  Tracked' = {}
<1>1. Tracked' \subseteq {latest.id}
  BY AwsOpsShrink DEF Shrinks, HoldsAgent
<1>2. latest.id \notin Tracked'
  BY DEF AwsTypeOK, AwsDelete, Tracked, Live
<1> QED
  BY <1>1, <1>2

(* An agent whose identifier the CR did not get is no longer tracked.      *)
LEMMA UnsavedUntracked ==
    ASSUME HoldsAgent, pc # "idle", TypeOK, UNCHANGED awsVars,
           lost' = lost \cup Unsaved
    PROVE  Tracked' \subseteq {crId}
<1>1. Tracked \subseteq {latest.id} /\ Nil \notin Tracked
  BY ValueAssumption DEF HoldsAgent, Tracked
<1>2. Tracked' = Tracked \ Unsaved
  BY DEF Tracked, Live, Exists, awsVars
<1> QED
  BY <1>1, <1>2 DEF Unsaved

(* A created agent is tracked, unless the reply is lost.                   *)
LEMMA CreateTracks ==
    ASSUME AwsTypeOK, NEW i \in Ids, NEW s, AwsCreate(i, s), Tracked = {}
    PROVE  /\ lost' = lost => Tracked' \subseteq {i}
           /\ lost' = lost \cup {i} => Tracked' = {}
           /\ \A j \in Ids : Exists(j)' => j = i \/ Exists(j)
           /\ i \notin Past /\ Past' = Past \cup {i}
<1>1. Past' = Past \cup {i} /\ i \notin Past
  BY DEF AwsTypeOK, AwsCreate, Past
<1> QED
  BY <1>1 DEF AwsTypeOK, AwsCreate, Tracked, Live, Exists

(* Every step but the creation of an agent.                                *)
NoCreation ==
    \/ Start \/ GetAgent \/ ListTags \/ Manage \/ PatchSpec \/ Release \/ Unmanage
    \/ PrepareAgent \/ UntagResource \/ TagResource \/ UpdateAgent \/ DeleteAgent
    \/ Finish \/ User \/ Crash \/ Resync \/ Settle \/ Drift \/ UNCHANGED vars

(* Only the creation of an agent adds one.                                 *)
LEMMA OthersShrink ==
    ASSUME TypeOK, NoCreation
    PROVE  Shrinks
<1>1. CASE Start \/ GetAgent \/ ListTags \/ Manage \/ PatchSpec \/ Release \/ Unmanage
  BY <1>1, KeptShrink DEF Start, GetAgent, ListTags, Manage, PatchSpec, Release, Unmanage
<1>2. CASE PrepareAgent \/ UpdateAgent \/ DeleteAgent
  BY <1>2, KeptShrink, AwsOpsShrink DEF TypeOK, PrepareAgent, UpdateAgent, DeleteAgent,
     Refused, UpdateUnchanged
<1>3. CASE UntagResource \/ TagResource
  BY <1>3, KeptShrink, AwsOpsShrink DEF TypeOK, UntagResource, TagResource,
     UpdateUnchanged
<1>4. CASE Finish \/ Crash \/ Resync \/ User \/ UNCHANGED vars
  BY <1>4, KeptShrink DEF Finish, Crash, Resync, User, UserCreate, UserEdit, UserDelete,
     vars
<1>5. CASE Settle \/ Drift
  BY <1>5, AwsOpsShrink DEF TypeOK, Settle, Drift
<1> QED
  BY <1>1, <1>2, <1>3, <1>4, <1>5 DEF NoCreation

-----------------------------------------------------------------------------
(* The invariant is inductive.                                             *)

(* It holds initially.                                                     *)
LEMMA SafeInit == Init => IInv
<1> SUFFICES ASSUME Init PROVE IInv
  OBVIOUS
<1>1. Tracked = {}
  BY DEF Init, Tracked, Live, Exists, AgentStatuses
<1>2. FinalizerHeld
  BY <1>1 DEF FinalizerHeld
<1>3. HoldsAgent /\ NothingToGuard
  BY <1>1 DEF HoldsAgent, NothingToGuard
<1>4. Guarded /\ SameAgent
  BY DEF Init, Guarded, SameAgent
<1>5. OldAgentGone
  BY BlankType, ValueAssumption DEF Init, OldAgentGone
<1> QED
  BY TypeInit, <1>2, <1>3, <1>4, <1>5 DEF IInv, Accountable

(* It is kept by a step that lets agents only go and touches neither the   *)
(* worker nor what it relies on in the CR.                                 *)
LEMMA QuietStep ==
    ASSUME IInv, Shrinks, UNCHANGED <<crExists, crFinalizer, crId, workVars>>
    PROVE  FinalizerHeld' /\ Accountable'
<1> USE DEF IInv, Accountable, Shrinks, workVars
<1>1. FinalizerHeld'
  BY DEF FinalizerHeld
<1>2. HoldsAgent'
  BY DEF HoldsAgent
<1>3. NothingToGuard'
  BY DEF NothingToGuard
<1>4. Guarded'
  BY DEF Guarded
<1>5. SameAgent'
  BY DEF SameAgent
<1>6. OldAgentGone'
  BY DEF OldAgentGone
<1> QED
  BY <1>1, <1>2, <1>3, <1>4, <1>5, <1>6

(* It is kept by every step.                                               *)
LEMMA SafeNext == IInv /\ [Next]_vars => IInv'
<1> SUFFICES ASSUME IInv, [Next]_vars PROVE IInv'
  OBVIOUS
<1> TypeOK /\ TypeOK'
  BY TypeNext DEF IInv
<1> USE DEF IInv, Accountable
<1>1. CASE Start
  <2>1. Shrinks
    BY <1>1, OthersShrink DEF NoCreation
  <2>2. FinalizerHeld'
    BY <1>1, <2>1 DEF Start, Goto, crVars, workVars, Shrinks, FinalizerHeld
  <2>3. HoldsAgent'
    BY <1>1, <2>1 DEF Start, Goto, crVars, workVars, Shrinks, HoldsAgent
  <2>4. NothingToGuard'
    BY <1>1, <2>1 DEF Start, Goto, crVars, workVars, Shrinks, NothingToGuard
  <2>5. Guarded'
    BY <1>1, <2>1 DEF Start, Goto, crVars, workVars, Shrinks, Guarded
  <2>6. SameAgent'
    BY <1>1, <2>1 DEF Start, Goto, crVars, workVars, Shrinks, SameAgent
  <2>7. OldAgentGone'
    BY <1>1, <2>1 DEF Start, Goto, crVars, workVars, Shrinks, OldAgentGone
  <2> QED
    BY <2>2, <2>3, <2>4, <2>5, <2>6, <2>7
<1>2. CASE GetAgent
  <2>1. Shrinks
    BY <1>2, OthersShrink DEF NoCreation
  <2>2. /\ pc = "get" /\ pc' \in {"list", "manage", "create", "unmanage", "finish"}
        /\ UNCHANGED <<crExists, crFinalizer, crId, ctx, desired>>
        /\ latest' = latest \/ (ctx # "late" /\ latest' = desired)
        /\ pc' = "create" => desired.managed
    BY <1>2 DEF GetAgent, Goto, Fail, ReadError, crVars, TypeOK, WorkTypeOK,
       ResourceTypeOK, Resource
  <2>3. latest'.id = latest.id
    BY <2>2 DEF SameAgent
  <2>4. pc' = "list" => observed'.id = latest.id
    <3>1. [latest EXCEPT !.spec.conf = awsSpec[latest.id].conf,
                         !.spec.prompt = awsSpec[latest.id].prompt,
                         !.status = awsStatus[latest.id]].id = latest.id
      BY DEF TypeOK, ResourceTypeOK, Resource
    <3> QED
      BY <1>2, <3>1 DEF GetAgent, Goto, Fail, ReadError, TypeOK, WorkTypeOK
  <2>5. pc' \in {"manage", "create", "unmanage"} => NotFound(latest) /\ ctx # "late"
    BY <1>2 DEF GetAgent, Goto, Fail, ReadError
  <2>6. FinalizerHeld'
    BY <2>1, <2>2, <2>3, <2>4, <2>5 DEF FinalizerHeld, Shrinks
  <2>7. HoldsAgent'
    BY <2>1, <2>2, <2>3, <2>4, <2>5 DEF HoldsAgent, Shrinks
  <2>8. NothingToGuard'
    BY <2>1, <2>2, <2>3, <2>4, <2>5, TrackedExist DEF NothingToGuard, Shrinks,
       HoldsAgent, NotFound
  <2>9. Guarded'
    BY <2>1, <2>2, <2>3, <2>4, <2>5 DEF Guarded
  <2>10. SameAgent'
    BY <2>1, <2>2, <2>3, <2>4, <2>5 DEF SameAgent
  <2>11. OldAgentGone'
    BY <2>1, <2>2, <2>3, <2>4, <2>5 DEF OldAgentGone, Shrinks, SameAgent, NotFound
  <2> QED
    BY <2>6, <2>7, <2>8, <2>9, <2>10, <2>11
<1>3. CASE ListTags
  <2>1. Shrinks
    BY <1>3, OthersShrink DEF NoCreation
  <2>2. /\ pc = "list" /\ UNCHANGED <<crExists, crFinalizer, crId, desired>>
        /\ pc' \in {"get", "prepare", "untag", "update", "patch", "delete", "finish"}
        /\ pc' = "get" => ctx' = "late"
        /\ pc' \in {"prepare", "untag", "update", "delete"} => ctx # "late"
    BY <1>3 DEF ListTags, Goto, Fail, ReadError, crVars, UpdateCall, TypeOK, WorkTypeOK
  <2>3. latest'.id = latest.id
    <3>1. [observed EXCEPT !.spec.tags = awsSpec[observed.id].tags].id = latest.id
      BY <2>2 DEF SameAgent, TypeOK, ResourceTypeOK, Resource
    <3>2. \A o : LateInitialized(latest, o).id = latest.id
      BY DEF LateInitialized, TypeOK, ResourceTypeOK, Resource
    <3>3. ctx # "late" => desired.id = latest.id
      BY <2>2 DEF SameAgent
    <3>4. CASE NotFound(observed)
      BY <1>3, <3>3, <3>4 DEF ListTags, Fail, ReadError
    <3>5. CASE ~NotFound(observed) /\ ctx = "late"
      BY <1>3, <3>2, <3>5 DEF ListTags, Fail, ReadError
    <3>6. CASE ~NotFound(observed) /\ ctx # "late"
      BY <1>3, <3>1, <3>3, <3>6 DEF ListTags, Fail, ReadError, TypeOK, WorkTypeOK
    <3> QED
      BY <3>4, <3>5, <3>6
  <2>4. FinalizerHeld'
    BY <2>1, <2>2, <2>3 DEF FinalizerHeld, Shrinks
  <2>5. HoldsAgent'
    BY <2>1, <2>2, <2>3 DEF HoldsAgent, Shrinks
  <2>6. NothingToGuard'
    BY <2>1, <2>2, <2>3 DEF NothingToGuard, Shrinks
  <2>7. Guarded'
    BY <2>1, <2>2, <2>3 DEF Guarded
  <2>8. SameAgent'
    BY <2>1, <2>2, <2>3 DEF SameAgent
  <2>9. OldAgentGone'
    BY <2>1, <2>2, <2>3 DEF OldAgentGone, Shrinks
  <2> QED
    BY <2>4, <2>5, <2>6, <2>7, <2>8, <2>9
<1>4. CASE Manage
  <2>1. Shrinks
    BY <1>4, OthersShrink DEF NoCreation
  <2>2. /\ pc = "manage" /\ pc' \in {"create", "finish"}
        /\ UNCHANGED <<crExists, crId>>
        /\ pc' = "create" => crExists /\ crFinalizer' /\ desired'.managed
        /\ UNCHANGED crFinalizer \/ crFinalizer'
        /\ latest' \in {latest, desired'}
        /\ desired' \in {desired, [desired EXCEPT !.managed = TRUE]}
    BY <1>4 DEF Manage, Goto, Fail, crVars, TypeOK, ResourceTypeOK, Resource
  <2>3. desired'.id = desired.id /\ latest'.id = desired.id
    BY <2>2 DEF SameAgent, TypeOK, ResourceTypeOK, Resource
  <2>4. FinalizerHeld'
    BY <2>1, <2>2, <2>3 DEF FinalizerHeld, Shrinks
  <2>5. HoldsAgent'
    BY <2>1, <2>2, <2>3 DEF HoldsAgent, Shrinks, SameAgent
  <2>6. NothingToGuard'
    BY <2>1, <2>2, <2>3 DEF NothingToGuard, Shrinks
  <2>7. Guarded'
    BY <2>1, <2>2, <2>3 DEF Guarded, Shrinks
  <2>8. SameAgent'
    BY <2>1, <2>2, <2>3 DEF SameAgent, Shrinks
  <2>9. OldAgentGone'
    BY <2>1, <2>2, <2>3 DEF OldAgentGone, Shrinks
  <2> QED
    BY <2>4, <2>5, <2>6, <2>7, <2>8, <2>9
<1>5. CASE PatchSpec
  <2>1. Shrinks
    BY <1>5, OthersShrink DEF NoCreation
  <2>2. /\ pc = "patch" /\ pc' \in {"get", "finish"}
        /\ UNCHANGED <<crExists, crFinalizer, crId, latest>>
        /\ pc' = "get" => ctx' = "late"
        /\ desired' \in {desired, [desired EXCEPT !.spec = latest.spec]}
    BY <1>5 DEF PatchSpec, Goto, Fail
  <2>3. desired'.id = desired.id /\ desired'.managed = desired.managed
    BY <2>2 DEF TypeOK, ResourceTypeOK, Resource
  <2>4. FinalizerHeld'
    BY <2>1, <2>2, <2>3 DEF FinalizerHeld, Shrinks
  <2>5. HoldsAgent'
    BY <2>1, <2>2, <2>3 DEF HoldsAgent, Shrinks
  <2>6. NothingToGuard'
    BY <2>1, <2>2, <2>3 DEF NothingToGuard, Shrinks
  <2>7. Guarded'
    BY <2>1, <2>2, <2>3 DEF Guarded, Shrinks
  <2>8. SameAgent'
    BY <2>1, <2>2, <2>3 DEF SameAgent, Shrinks
  <2>9. OldAgentGone'
    BY <2>1, <2>2, <2>3 DEF OldAgentGone, Shrinks
  <2> QED
    BY <2>4, <2>5, <2>6, <2>7, <2>8, <2>9
<1>6. CASE Release
  <2>1. Shrinks
    BY <1>6, OthersShrink DEF NoCreation
  <2>2. FinalizerHeld'
    BY <1>6, <2>1 DEF Release, Goto, CrGone, Shrinks, FinalizerHeld, NothingToGuard
  <2>3. HoldsAgent'
    BY <1>6, <2>1 DEF Release, Goto, CrGone, crVars, workVars, Shrinks, HoldsAgent
  <2>4. NothingToGuard'
    BY <1>6, <2>1 DEF Release, Goto, CrGone, crVars, workVars, Shrinks, NothingToGuard
  <2>5. Guarded'
    BY <1>6, <2>1 DEF Release, Goto, CrGone, crVars, workVars, Shrinks, Guarded
  <2>6. SameAgent'
    BY <1>6, <2>1 DEF Release, Goto, CrGone, crVars, workVars, Shrinks, SameAgent
  <2>7. OldAgentGone'
    BY <1>6, <2>1 DEF Release, Goto, CrGone, crVars, workVars, Shrinks, OldAgentGone
  <2> QED
    BY <2>2, <2>3, <2>4, <2>5, <2>6, <2>7
<1>7. CASE Unmanage
  <2>1. Shrinks
    BY <1>7, OthersShrink DEF NoCreation
  <2>2. FinalizerHeld'
    BY <1>7, <2>1 DEF Unmanage, Goto, CrGone, Idle, Shrinks, FinalizerHeld, NothingToGuard
  <2>3. HoldsAgent'
    BY <1>7, <2>1 DEF Unmanage, Goto, CrGone, Idle, Shrinks, HoldsAgent, NothingToGuard
  <2>4. NothingToGuard'
    BY <1>7, <2>1 DEF Unmanage, Goto, CrGone, Idle, crVars, workVars, Shrinks,
       NothingToGuard
  <2>5. Guarded'
    BY <1>7, <2>1 DEF Unmanage, Goto, CrGone, Idle, crVars, workVars, Shrinks, Guarded
  <2>6. SameAgent'
    BY <1>7, <2>1 DEF Unmanage, Goto, CrGone, Idle, crVars, workVars, Shrinks, SameAgent
  <2>7. OldAgentGone'
    BY <1>7, <2>1 DEF Unmanage, Goto, CrGone, Idle, crVars, workVars, Shrinks,
       OldAgentGone
  <2> QED
    BY <2>2, <2>3, <2>4, <2>5, <2>6, <2>7
<1>8. CASE CreateAgent
  <2>1. Tracked = {} /\ crExists /\ crFinalizer
    BY <1>8 DEF CreateAgent, NothingToGuard, Guarded
  <2>2. /\ pc = "create" /\ pc' \in {"patch", "release", "finish"}
        /\ UNCHANGED <<crExists, crFinalizer, crId, desired>>
    BY <1>8 DEF CreateAgent, Goto, crVars
  <2>3. \/ Shrinks /\ latest' = desired
        \/ \E i \in Ids : /\ AwsCreate(i, desired.spec) /\ lost' = lost \cup {i}
                          /\ latest' = desired /\ pc' # "patch"
        \/ \E i \in Ids : /\ AwsCreate(i, desired.spec) /\ lost' = lost
                          /\ latest'.id = i /\ pc' = "patch"
    <3>1. \A i \in Ids : [desired EXCEPT !.id = i, !.status = "CREATING",
              !.spec = Stored(desired.spec)].id = i
      BY DEF TypeOK, ResourceTypeOK, Resource
    <3> QED
      BY <1>8, <3>1, KeptShrink DEF CreateAgent, Goto
  <2>4. \/ Tracked' = {}
        \/ pc' = "patch" /\ Tracked' \subseteq {latest'.id}
    BY <2>1, <2>3, CreateTracks DEF TypeOK, Shrinks
  <2>5. desired.id \in Ids => \/ latest'.id = desired.id
                              \/ ~Exists(desired.id)'
    BY <2>2, <2>3, <2>1, CreateTracks DEF TypeOK, Shrinks, OldAgentGone
  <2>6. FinalizerHeld'
    BY <2>1, <2>2, <2>4 DEF FinalizerHeld
  <2>7. HoldsAgent'
    BY <2>1, <2>2, <2>4 DEF HoldsAgent
  <2>8. NothingToGuard'
    BY <2>1, <2>2, <2>4 DEF NothingToGuard
  <2>9. Guarded'
    BY <2>1, <2>2, <2>4 DEF Guarded
  <2>10. SameAgent'
    BY <2>1, <2>2, <2>4 DEF SameAgent
  <2>11. OldAgentGone'
    BY <2>1, <2>2, <2>4, <2>5 DEF OldAgentGone
  <2> QED
    BY <2>6, <2>7, <2>8, <2>9, <2>10, <2>11
<1>9. CASE PrepareAgent
  <2>1. Shrinks
    BY <1>9, OthersShrink DEF NoCreation
  <2>2. /\ pc = "prepare" /\ pc' \in {"untag", "update", "patch", "finish"}
        /\ UNCHANGED <<crExists, crFinalizer, crId, desired>>
        /\ latest' \in {latest, desired}
    BY <1>9 DEF PrepareAgent, UpdateUnchanged, Goto, Fail, Continue, ReplyLost, Refused,
       crVars, UpdateCall
  <2>3. latest'.id = latest.id /\ latest.id = desired.id
    BY <2>2 DEF SameAgent
  <2>4. FinalizerHeld'
    BY <2>1, <2>2, <2>3 DEF FinalizerHeld, Shrinks
  <2>5. HoldsAgent'
    BY <2>1, <2>2, <2>3 DEF HoldsAgent, Shrinks
  <2>6. NothingToGuard'
    BY <2>1, <2>2, <2>3 DEF NothingToGuard, Shrinks
  <2>7. Guarded'
    BY <2>1, <2>2, <2>3 DEF Guarded, Shrinks
  <2>8. SameAgent'
    BY <2>1, <2>2, <2>3 DEF SameAgent, Shrinks
  <2>9. OldAgentGone'
    BY <2>1, <2>2, <2>3 DEF OldAgentGone, Shrinks
  <2> QED
    BY <2>4, <2>5, <2>6, <2>7, <2>8, <2>9
<1>10. CASE UntagResource
  <2>1. Shrinks
    BY <1>10, OthersShrink DEF NoCreation
  <2>2. FinalizerHeld'
    BY <1>10, <2>1 DEF UntagResource, UpdateUnchanged, Goto, Fail, ReplyLost, crVars,
       workVars, Shrinks, FinalizerHeld
  <2>3. HoldsAgent'
    BY <1>10, <2>1 DEF UntagResource, UpdateUnchanged, Goto, Fail, ReplyLost, crVars,
       workVars, Shrinks, HoldsAgent
  <2>4. NothingToGuard'
    BY <1>10, <2>1 DEF UntagResource, UpdateUnchanged, Goto, Fail, ReplyLost, crVars,
       workVars, Shrinks, NothingToGuard
  <2>5. Guarded'
    BY <1>10, <2>1 DEF UntagResource, UpdateUnchanged, Goto, Fail, ReplyLost, crVars,
       workVars, Shrinks, Guarded
  <2>6. SameAgent'
    BY <1>10, <2>1 DEF UntagResource, UpdateUnchanged, Goto, Fail, ReplyLost, crVars,
       workVars, Shrinks, SameAgent
  <2>7. OldAgentGone'
    BY <1>10, <2>1 DEF UntagResource, UpdateUnchanged, Goto, Fail, ReplyLost, crVars,
       workVars, Shrinks, OldAgentGone
  <2> QED
    BY <2>2, <2>3, <2>4, <2>5, <2>6, <2>7
<1>11. CASE TagResource
  <2>1. Shrinks
    BY <1>11, OthersShrink DEF NoCreation
  <2>2. /\ pc = "tag" /\ pc' \in {"prepare", "untag", "update", "patch", "finish"}
        /\ UNCHANGED <<crExists, crFinalizer, crId, desired>>
        /\ latest' \in {latest, desired}
    BY <1>11 DEF TagResource, UpdateUnchanged, Goto, Fail, Continue, ReplyLost, crVars,
       UpdateCall
  <2>3. latest'.id = latest.id /\ latest.id = desired.id
    BY <2>2 DEF SameAgent
  <2>4. FinalizerHeld'
    BY <2>1, <2>2, <2>3 DEF FinalizerHeld, Shrinks
  <2>5. HoldsAgent'
    BY <2>1, <2>2, <2>3 DEF HoldsAgent, Shrinks
  <2>6. NothingToGuard'
    BY <2>1, <2>2, <2>3 DEF NothingToGuard, Shrinks
  <2>7. Guarded'
    BY <2>1, <2>2, <2>3 DEF Guarded, Shrinks
  <2>8. SameAgent'
    BY <2>1, <2>2, <2>3 DEF SameAgent, Shrinks
  <2>9. OldAgentGone'
    BY <2>1, <2>2, <2>3 DEF OldAgentGone, Shrinks
  <2> QED
    BY <2>4, <2>5, <2>6, <2>7, <2>8, <2>9
<1>12. CASE UpdateAgent
  <2>1. Shrinks
    BY <1>12, OthersShrink DEF NoCreation
  <2>2. /\ pc = "update" /\ pc' \in {"patch", "finish"}
        /\ UNCHANGED <<crExists, crFinalizer, crId, desired>>
    BY <1>12 DEF UpdateAgent, UpdateUnchanged, Goto, Fail, ReplyLost, Refused, crVars
  <2>3. latest'.id = latest.id /\ latest.id = desired.id
    <3>1. [desired EXCEPT !.status = "UPDATING",
              !.spec = Stored(desired.spec)].id = desired.id
      BY DEF TypeOK, ResourceTypeOK, Resource
    <3>2. latest.id = desired.id
      BY <2>2 DEF SameAgent
    <3> QED
      BY <1>12, <3>1, <3>2 DEF UpdateAgent, UpdateUnchanged, Goto, Fail, ReplyLost,
         Refused
  <2>4. FinalizerHeld'
    BY <2>1, <2>2, <2>3 DEF FinalizerHeld, Shrinks
  <2>5. HoldsAgent'
    BY <2>1, <2>2, <2>3 DEF HoldsAgent, Shrinks
  <2>6. NothingToGuard'
    BY <2>1, <2>2, <2>3 DEF NothingToGuard, Shrinks
  <2>7. Guarded'
    BY <2>1, <2>2, <2>3 DEF Guarded, Shrinks
  <2>8. SameAgent'
    BY <2>1, <2>2, <2>3 DEF SameAgent, Shrinks
  <2>9. OldAgentGone'
    BY <2>1, <2>2, <2>3 DEF OldAgentGone, Shrinks
  <2> QED
    BY <2>4, <2>5, <2>6, <2>7, <2>8, <2>9
<1>13. CASE DeleteAgent
  <2>1. Shrinks
    BY <1>13, OthersShrink DEF NoCreation
  <2>2. FinalizerHeld'
    BY <1>13, <2>1 DEF DeleteAgent, UpdateUnchanged, Goto, Fail, ReplyLost, Refused,
       crVars, workVars, Shrinks, FinalizerHeld
  <2>3. HoldsAgent'
    BY <1>13, <2>1 DEF DeleteAgent, UpdateUnchanged, Goto, Fail, ReplyLost, Refused,
       crVars, workVars, Shrinks, HoldsAgent
  <2>4. NothingToGuard'
    BY <1>13, DeleteUntracks DEF DeleteAgent, UpdateUnchanged, Goto, Fail, ReplyLost,
       Refused,
       NothingToGuard, TypeOK
  <2>5. Guarded'
    BY <1>13, <2>1 DEF DeleteAgent, UpdateUnchanged, Goto, Fail, ReplyLost, Refused,
       crVars, workVars, Shrinks, Guarded
  <2>6. SameAgent'
    BY <1>13, <2>1 DEF DeleteAgent, UpdateUnchanged, Goto, Fail, ReplyLost, Refused,
       crVars, workVars, Shrinks, SameAgent
  <2>7. OldAgentGone'
    BY <1>13, <2>1 DEF DeleteAgent, UpdateUnchanged, Goto, Fail, ReplyLost, Refused,
       crVars, workVars, Shrinks, OldAgentGone
  <2> QED
    BY <2>2, <2>3, <2>4, <2>5, <2>6, <2>7
<1>14. CASE Finish
  <2>1. Shrinks
    BY <1>14, OthersShrink DEF NoCreation
  <2>2. FinalizerHeld'
    BY <1>14, <2>1 DEF Finish, Goto, Idle, crVars, workVars, Shrinks, FinalizerHeld
  <2>3. HoldsAgent'
    BY <1>14, <2>1, UnsavedUntracked DEF Finish, Goto, Idle, Shrinks, HoldsAgent
  <2>4. NothingToGuard'
    BY <1>14, <2>1 DEF Finish, Goto, Idle, crVars, workVars, Shrinks, NothingToGuard
  <2>5. Guarded'
    BY <1>14, <2>1 DEF Finish, Goto, Idle, crVars, workVars, Shrinks, Guarded
  <2>6. SameAgent'
    BY <1>14, <2>1 DEF Finish, Goto, Idle, crVars, workVars, Shrinks, SameAgent
  <2>7. OldAgentGone'
    BY <1>14, <2>1 DEF Finish, Goto, Idle, crVars, workVars, Shrinks, OldAgentGone
  <2> QED
    BY <2>2, <2>3, <2>4, <2>5, <2>6, <2>7
<1>15. CASE UserCreate
  <2>1. Shrinks
    BY <1>15, OthersShrink DEF NoCreation, User
  <2>2. FinalizerHeld'
    BY <1>15, <2>1 DEF UserCreate, crVars, workVars, Shrinks, FinalizerHeld
  <2>3. HoldsAgent'
    BY <1>15, <2>1 DEF UserCreate, crVars, workVars, Shrinks, HoldsAgent
  <2>4. NothingToGuard'
    BY <1>15, <2>1 DEF UserCreate, crVars, workVars, Shrinks, NothingToGuard
  <2>5. Guarded'
    BY <1>15, <2>1 DEF UserCreate, crVars, workVars, Shrinks, Guarded
  <2>6. SameAgent'
    BY <1>15, <2>1 DEF UserCreate, crVars, workVars, Shrinks, SameAgent
  <2>7. OldAgentGone'
    BY <1>15, <2>1 DEF UserCreate, crVars, workVars, Shrinks, OldAgentGone
  <2> QED
    BY <2>2, <2>3, <2>4, <2>5, <2>6, <2>7
<1>16. CASE UserEdit
  <2>1. Shrinks
    BY <1>16, OthersShrink DEF NoCreation, User
  <2> QED
    BY <1>16, <2>1, QuietStep DEF UserEdit, crVars, workVars
<1>17. CASE UserDelete
  <2>1. Shrinks
    BY <1>17, OthersShrink DEF NoCreation, User
  <2>2. UNCHANGED workVars
    BY <1>17 DEF UserDelete
  <2>3. CASE crFinalizer
    BY <1>17, <2>1, <2>2, <2>3, QuietStep DEF UserDelete
  <2>4. CASE ~crFinalizer
    <3>1. Tracked' = {}
      BY <2>1, <2>4 DEF Shrinks, FinalizerHeld
    <3>2. crExists' = FALSE /\ crId' = Nil
      BY <1>17, <2>4 DEF UserDelete, CrGone
    <3>3. FinalizerHeld' /\ HoldsAgent' /\ NothingToGuard'
      BY <3>1 DEF FinalizerHeld, HoldsAgent, NothingToGuard
    <3>4. Guarded'
      BY <2>2, <2>4 DEF workVars, Guarded
    <3>5. SameAgent'
      BY <2>2 DEF workVars, SameAgent
    <3>6. OldAgentGone'
      BY <2>1, <2>2, <3>2 DEF workVars, OldAgentGone, Shrinks
    <3> QED
      BY <3>3, <3>4, <3>5, <3>6
  <2> QED
    BY <2>3, <2>4
<1>18. CASE Crash
  <2>1. Shrinks
    BY <1>18, OthersShrink DEF NoCreation
  <2>2. FinalizerHeld'
    BY <1>18, <2>1 DEF Crash, Goto, Idle, crVars, workVars, Shrinks, FinalizerHeld
  <2>3. HoldsAgent'
    BY <1>18, <2>1, UnsavedUntracked DEF Crash, Goto, Idle, crVars, Shrinks, HoldsAgent
  <2>4. NothingToGuard'
    BY <1>18, <2>1 DEF Crash, Goto, Idle, crVars, workVars, Shrinks, NothingToGuard
  <2>5. Guarded'
    BY <1>18, <2>1 DEF Crash, Goto, Idle, crVars, workVars, Shrinks, Guarded
  <2>6. SameAgent'
    BY <1>18, <2>1 DEF Crash, Goto, Idle, crVars, workVars, Shrinks, SameAgent
  <2>7. OldAgentGone'
    BY <1>18, <2>1 DEF Crash, Goto, Idle, crVars, workVars, Shrinks, OldAgentGone
  <2> QED
    BY <2>2, <2>3, <2>4, <2>5, <2>6, <2>7
<1>19. CASE Resync
  <2>1. Shrinks
    BY <1>19, OthersShrink DEF NoCreation
  <2> QED
    BY <1>19, <2>1, QuietStep DEF Resync, crVars, workVars
<1>20. CASE Settle
  <2>1. Shrinks
    BY <1>20, OthersShrink DEF NoCreation
  <2> QED
    BY <1>20, <2>1, QuietStep DEF Settle, crVars, workVars
<1>21. CASE Drift
  <2>1. Shrinks
    BY <1>21, OthersShrink DEF NoCreation
  <2> QED
    BY <1>21, <2>1, QuietStep DEF Drift, crVars, workVars
<1>22. CASE UNCHANGED vars
  <2>1. Shrinks
    BY <1>22, OthersShrink DEF NoCreation
  <2> QED
    BY <1>22, <2>1, QuietStep DEF vars, crVars, workVars
<1> QED
  BY <1>1, <1>2, <1>3, <1>4, <1>5, <1>6, <1>7, <1>8, <1>9, <1>10, <1>11, <1>12, <1>13,
     <1>14, <1>15, <1>16, <1>17, <1>18, <1>19, <1>20, <1>21, <1>22 DEF Next, Worker, User

-----------------------------------------------------------------------------
(* What follows.                                                           *)

(* Every reachable state satisfies the inductive invariant.                *)
THEOREM Safe == Spec => []IInv
<1>1. IInv /\ [Next]_vars => IInv'
  BY SafeNext
<1> QED
  BY SafeInit, <1>1, PTL DEF Spec

(* As long as an agent is alive that the controller has not lost, its CR   *)
(* exists and carries the finalizer (descriptor.go MarkManaged).           *)
THEOREM FinalizerIsHeld == Spec => []FinalizerHeld
<1>1. IInv => FinalizerHeld
  BY DEF IInv
<1> QED
  BY Safe, <1>1, PTL

(* A CR never has two agents the controller has not lost.                  *)
THEOREM OneAgent == Spec => []AtMostOne
<1>1. IInv => AtMostOne
  BY DEF IInv, Accountable, HoldsAgent, AtMostOne
<1> QED
  BY Safe, <1>1, PTL

(* The CR's identifier is replaced only when the agent it names no longer  *)
(* exists.                                                                 *)
THEOREM IdIsStable == Spec => IdStable
<1>1. ASSUME IInv, [Next]_vars
      PROVE  crId # Nil /\ crId' \notin {crId, Nil} => ~Exists(crId)
  <2> SUFFICES ASSUME crId # Nil, crId' \notin {crId, Nil}
               PROVE  ~Exists(crId)
    OBVIOUS
  <2>1. Finish
    BY <1>1 DEF Next, Worker, User, vars, crVars, Start, GetAgent, ListTags, Manage,
       PatchSpec, Release, Unmanage, CrGone, CreateAgent, UpdateUnchanged, PrepareAgent,
       UntagResource, TagResource, UpdateAgent, DeleteAgent, UserCreate, UserEdit,
       UserDelete, Crash, Resync, Settle, Drift
  <2>2. pc # "idle" /\ crId' = latest.id
    BY <2>1 DEF Finish
  <2>3. crId = desired.id /\ desired.id \in Ids
    BY <1>1, <2>2 DEF IInv, Accountable, OldAgentGone, TypeOK, CrTypeOK
  <2> QED
    BY <1>1, <2>2, <2>3 DEF IInv, Accountable, OldAgentGone
<1> QED
  BY Safe, <1>1, PTL DEF Spec, IdStable

-----------------------------------------------------------------------------
(* The reconciler implements the lifecycle.                                *)

(* A step that brings no agent to life leaves all agents in place when it  *)
(* moves the guard, so it is Guard, Unguard, Leave or a stutter.           *)
LEMMA LifecycleStep ==
    ASSUME IInv, IInv', Shrinks,
           \/ UNCHANGED <<crExists, crFinalizer>>
           \/ UNCHANGED <<awsVars, lost>>
    PROVE  [Lifecycle!Next]_(Lifecycle!vars)
<1> USE DEF Past, Lifecycle!Next, Lifecycle!vars
<1>1. (crExists /\ crFinalizer) \in BOOLEAN /\ (crExists /\ crFinalizer)' \in BOOLEAN
  OBVIOUS
<1>2. Past' = Past
  BY DEF Shrinks
<1>3. CASE UNCHANGED <<crExists, crFinalizer>>
  <2>1. Tracked' \in {Tracked, {}}
    BY DEF Shrinks, IInv, Accountable, HoldsAgent
  <2> QED
    BY <1>2, <1>3, <2>1 DEF Lifecycle!Leave
<1>4. CASE UNCHANGED <<awsVars, lost>>
  <2>1. Tracked' = Tracked
    BY <1>4 DEF Tracked, Live, Exists, awsVars
  <2>2. (crExists /\ crFinalizer)' \/ Tracked = {}
    BY <2>1 DEF IInv, FinalizerHeld
  <2> QED
    BY <1>1, <1>2, <2>1, <2>2 DEF Lifecycle!Guard, Lifecycle!Unguard
<1> QED
  BY <1>3, <1>4

(* The creation of an agent is Create, or a stutter when it fails.         *)
LEMMA LifecycleCreate ==
    ASSUME IInv, IInv', CreateAgent
    PROVE  [Lifecycle!Next]_(Lifecycle!vars)
<1>1. Tracked = {} /\ crExists /\ crFinalizer /\ UNCHANGED <<crExists, crFinalizer>>
  BY DEF IInv, Accountable, CreateAgent, NothingToGuard, Guarded, crVars
<1>2. CASE UNCHANGED <<awsVars, lost>>
  BY <1>2, KeptShrink, LifecycleStep
<1>3. ASSUME NEW i \in Ids, AwsCreate(i, desired.spec), lost' \in {lost, lost \cup {i}}
      PROVE  Lifecycle!Create(i)
  BY <1>1, <1>3, CreateTracks DEF IInv, TypeOK, Past, Lifecycle!Create
<1> QED
  BY <1>2, <1>3 DEF CreateAgent, Lifecycle!Next

(* Every behaviour of the reconciler is one of the lifecycle: an agent is  *)
(* created only under the finalizer and only when the controller has none, *)
(* no identifier comes back, and the finalizer goes after the agents.      *)
THEOREM ImplementsLifecycle == Spec => LifecycleSpec
<1>1. Init => Lifecycle!Init
  BY DEF Init, Lifecycle!Init, Tracked, Live, Exists, AgentStatuses
<1>2. IInv /\ IInv' /\ [Next]_vars => [Lifecycle!Next]_(Lifecycle!vars)
  <2> SUFFICES ASSUME IInv, IInv', [Next]_vars
               PROVE  [Lifecycle!Next]_(Lifecycle!vars)
    OBVIOUS
  <2>1. CASE CreateAgent
    BY <2>1, LifecycleCreate
  <2>2. CASE NoCreation
    <3>1. Shrinks
      BY <2>2, OthersShrink DEF IInv
    <3>2. \/ UNCHANGED <<crExists, crFinalizer>>
          \/ UNCHANGED <<awsVars, lost>>
      BY <2>2 DEF NoCreation, User, vars, crVars, awsVars, Start, GetAgent, ListTags,
         Manage, PatchSpec, Release, Unmanage, UpdateUnchanged, PrepareAgent,
         UntagResource, TagResource, UpdateAgent, DeleteAgent, Finish, UserCreate,
         UserEdit, UserDelete, Crash, Resync, Settle, Drift
    <3> QED
      BY <3>1, <3>2, LifecycleStep
  <2> QED
    BY <2>1, <2>2 DEF Next, Worker, NoCreation
<1> QED
  BY Safe, <1>1, <1>2, PTL DEF Spec, LifecycleSpec, Lifecycle!Spec
=============================================================================
