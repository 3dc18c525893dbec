----------------------- MODULE ReconcilerTypeProofs ------------------------
(***************************************************************************)
(* Proofs about AgentReconciler for every set of values, identifiers and   *)
(* tag keys and for every bound on the disturbances.                       *)
(***************************************************************************)
EXTENDS AgentReconciler, TLAPS

-----------------------------------------------------------------------------
(* Types of the values the actions build.                                  *)

(* The blank resource is a resource.                                       *)
LEMMA BlankType ==
    /\ Blank \in Resource
    /\ Blank.spec \in AgentSpec
    /\ Blank.id = Nil
    /\ Blank.managed = FALSE
  BY DEF Blank, Resource, AgentSpec, Prompts

(* Spending a disturbance keeps the type of the counts.                    *)
LEMMA SpendType ==
    ASSUME NEW k \in Kinds, used \in [Kinds -> Nat], Spend(k)
    PROVE  used' \in [Kinds -> Nat]
  BY DEF Spend

(* What AWS stores for a spec is a spec.                                   *)
LEMMA StoredType ==
    ASSUME NEW s \in AgentSpec
    PROVE  /\ Stored(s) \in AgentSpec
           /\ Stored(s).conf \in Confs
           /\ Stored(s).prompt \in Prompts
           /\ Stored(s).tags = s.tags
  BY ValueAssumption DEF Stored, AgentSpec, Prompts

(* The parts of a resource have their types.                               *)
LEMMA ResourceParts ==
    ASSUME NEW r \in Resource
    PROVE  /\ r.spec \in AgentSpec
           /\ r.spec.conf \in Confs \cup {Nil}
           /\ r.spec.prompt \in Prompts
           /\ r.spec.tags \in SUBSET TagKeys
           /\ r.id \in Ids \cup {Nil}
           /\ r.status \in AgentStatuses \cup {Nil}
           /\ r.managed \in BOOLEAN
  BY DEF Resource, AgentSpec

(* What a read fills in makes a resource, ...                              *)
LEMMA ReadResource ==
    ASSUME NEW r \in Resource, NEW i \in Ids, AwsTypeOK, awsStatus[i] \in AgentStatuses
    PROVE  /\ [r EXCEPT !.spec.tags = awsSpec[i].tags] \in Resource
           /\ [r EXCEPT !.spec.conf = awsSpec[i].conf, !.spec.prompt = awsSpec[i].prompt,
                         !.status = awsStatus[i]] \in Resource
<1>1. /\ awsSpec[i].tags \in SUBSET TagKeys
      /\ awsSpec[i].conf \in Confs \cup {Nil}
      /\ awsSpec[i].prompt \in Prompts
  BY DEF AwsTypeOK, AgentSpec
<1>2. [r EXCEPT !.spec.tags = awsSpec[i].tags] \in Resource
  BY <1>1 DEF Resource, AgentSpec
<1>3. [r EXCEPT !.spec.conf = awsSpec[i].conf, !.spec.prompt = awsSpec[i].prompt,
                !.status = awsStatus[i]] \in Resource
  BY <1>1 DEF Resource, AgentSpec
<1> QED
  BY <1>2, <1>3

(* ... and so does what the reply to CreateAgent fills in, ...              *)
LEMMA CreatedResource ==
    ASSUME NEW r \in Resource, NEW i \in Ids
    PROVE  [r EXCEPT !.id = i, !.status = "CREATING",
                     !.spec = Stored(r.spec)] \in Resource
<1>1. Stored(r.spec) \in AgentSpec
  BY StoredType, ResourceParts
<1> QED
  BY <1>1 DEF Resource, AgentSpec, AgentStatuses

(* ... and the reply to UpdateAgent.                                       *)
LEMMA UpdatedResource ==
    ASSUME NEW r \in Resource
    PROVE  [r EXCEPT !.status = "UPDATING",
                     !.spec = Stored(r.spec)] \in Resource
<1>1. Stored(r.spec) \in AgentSpec
  BY StoredType, ResourceParts
<1> QED
  BY <1>1 DEF Resource, AgentSpec, AgentStatuses

(* Late initialization yields a resource.                                  *)
LEMMA LateResource ==
    ASSUME NEW r \in Resource, NEW o \in Resource
    PROVE  LateInitialized(r, o) \in Resource
  BY DEF Resource, AgentSpec, LateInitialized

(* Every operation of the service keeps the type of its state.             *)
LEMMA AwsOpsType ==
    ASSUME AwsTypeOK, NEW i \in Ids, NEW s \in AgentSpec, NEW t \in SUBSET TagKeys,
           NEW to \in AgentStatuses \cup {"gone"},
           \/ AwsCreate(i, s) \/ AwsPrepare(i) \/ AwsUpdate(i, s) \/ AwsDelete(i)
           \/ AwsSetTags(i, t) \/ AwsSettle(i, to)
    PROVE  AwsTypeOK'
<1>1. CASE AwsCreate(i, s)
  BY <1>1, StoredType DEF AwsTypeOK, AwsCreate, AgentStatuses
<1>2. CASE AwsPrepare(i)
  BY <1>2 DEF AwsTypeOK, AwsPrepare, AgentStatuses
<1>3. CASE AwsUpdate(i, s)
  <2>1. [Stored(s) EXCEPT !.tags = awsSpec[i].tags] \in AgentSpec
    BY StoredType DEF AwsTypeOK, AgentSpec
  <2> QED
    BY <1>3, <2>1 DEF AwsTypeOK, AwsUpdate, AgentStatuses
<1>4. CASE AwsDelete(i)
  BY <1>4 DEF AwsTypeOK, AwsDelete, AgentStatuses
<1>5. CASE AwsSetTags(i, t)
  BY <1>5 DEF AwsTypeOK, AwsSetTags, AgentSpec
<1>6. CASE AwsSettle(i, to)
  BY <1>6 DEF AwsTypeOK, AwsSettle, AgentSpec, Prompts
<1> QED
  BY <1>1, <1>2, <1>3, <1>4, <1>5, <1>6

-----------------------------------------------------------------------------
(* Type correctness.                                                       *)

(* The initial state is well typed.                                        *)
LEMMA TypeInit == Init => TypeOK
<1> SUFFICES ASSUME Init PROVE TypeOK
  OBVIOUS
<1>1. CrTypeOK
  BY BlankType DEF Init, CrTypeOK
<1>2. AwsTypeOK
  BY BlankType DEF Init, AwsTypeOK
<1>3. WorkTypeOK
  BY DEF Init, WorkTypeOK
<1>4. ResourceTypeOK
  BY BlankType DEF Init, ResourceTypeOK
<1>5. HistoryTypeOK
  BY DEF Init, HistoryTypeOK
<1> QED
  BY <1>1, <1>2, <1>3, <1>4, <1>5 DEF TypeOK

(* Every step keeps the types.                                             *)
LEMMA TypeNext == TypeOK /\ [Next]_vars => TypeOK'
<1> SUFFICES ASSUME TypeOK, [Next]_vars PROVE TypeOK'
  OBVIOUS
<1> USE SpendType, BlankType DEF Kinds, TypeOK, CrTypeOK, AwsTypeOK, WorkTypeOK,
        ResourceTypeOK, HistoryTypeOK
<1>1. CASE Start
  <2>1. CrTypeOK'
    BY <1>1 DEF Start, crVars, awsVars, workVars, Goto
  <2>2. AwsTypeOK'
    BY <1>1 DEF Start, crVars, awsVars, workVars, Goto
  <2>3. WorkTypeOK'
    BY <1>1 DEF Start, crVars, awsVars, workVars, Goto
  <2>4. ResourceTypeOK'
    BY <1>1 DEF Start, crVars, awsVars, workVars, Goto, Resource
  <2>5. HistoryTypeOK'
    BY <1>1 DEF Start, crVars, awsVars, workVars, Goto
  <2> QED
    BY <2>1, <2>2, <2>3, <2>4, <2>5
<1>2. CASE GetAgent
  <2>1. CrTypeOK'
    BY <1>2 DEF GetAgent, crVars, awsVars, Goto, Fail, ReadError
  <2>2. AwsTypeOK'
    BY <1>2 DEF GetAgent, crVars, awsVars, Goto, Fail, ReadError
  <2>3. WorkTypeOK'
    BY <1>2 DEF GetAgent, crVars, awsVars, Goto, Fail, ReadError
  <2>4. ResourceTypeOK'
    <3>1. CASE ~NotFound(latest)
      <4>1. [latest EXCEPT !.spec.conf = awsSpec[latest.id].conf,
                           !.spec.prompt = awsSpec[latest.id].prompt,
                           !.status = awsStatus[latest.id]] \in Resource
        BY <3>1, ReadResource DEF NotFound, Exists
      <4> QED
        BY <1>2, <3>1, <4>1 DEF GetAgent, Fail, ReadError
    <3>2. CASE NotFound(latest)
      BY <1>2, <3>2 DEF GetAgent, Fail, ReadError
    <3> QED
      BY <3>1, <3>2
  <2>5. HistoryTypeOK'
    BY <1>2 DEF GetAgent, crVars, awsVars, Goto, Fail, ReadError
  <2> QED
    BY <2>1, <2>2, <2>3, <2>4, <2>5
<1>3. CASE ListTags
  <2>1. CrTypeOK'
    BY <1>3 DEF ListTags, crVars, awsVars, Goto, Fail, ReadError
  <2>2. AwsTypeOK'
    BY <1>3 DEF ListTags, crVars, awsVars, Goto, Fail, ReadError
  <2>3. WorkTypeOK'
    BY <1>3 DEF ListTags, crVars, awsVars, Goto, Fail, ReadError, UpdateCall, Delta
  <2>4. ResourceTypeOK'
    <3> DEFINE read == [observed EXCEPT !.spec.tags = awsSpec[observed.id].tags]
    <3>1. CASE NotFound(observed)
      BY <1>3, <3>1 DEF ListTags, Fail, ReadError
    <3>2. CASE ~NotFound(observed)
      <4>1. read \in Resource
        BY <3>2, ReadResource DEF NotFound, Exists
      <4>2. LateInitialized(latest, read) \in Resource
        BY <4>1, LateResource
      <4>3. CASE ctx = "late"
        BY <1>3, <3>2, <4>2, <4>3 DEF ListTags, Fail, ReadError
      <4>4. CASE ctx # "late"
        BY <1>3, <3>2, <4>1, <4>4 DEF ListTags, Fail, ReadError
      <4> QED
        BY <4>3, <4>4
    <3> QED
      BY <3>1, <3>2
  <2>5. HistoryTypeOK'
    BY <1>3 DEF ListTags, crVars, awsVars, Goto, Fail, ReadError
  <2> QED
    BY <2>1, <2>2, <2>3, <2>4, <2>5
<1>4. CASE Manage
  <2>1. CrTypeOK'
    BY <1>4 DEF Manage, awsVars, Goto, Fail
  <2>2. AwsTypeOK'
    BY <1>4 DEF Manage, awsVars, Goto, Fail
  <2>3. WorkTypeOK'
    BY <1>4 DEF Manage, awsVars, Goto, Fail
  <2>4. ResourceTypeOK'
    <3>1. [desired EXCEPT !.managed = TRUE] \in Resource
      BY DEF Resource
    <3> QED
      BY <1>4, <3>1 DEF Manage, Fail
  <2>5. HistoryTypeOK'
    BY <1>4 DEF Manage, awsVars, Goto, Fail
  <2> QED
    BY <2>1, <2>2, <2>3, <2>4, <2>5
<1>5. CASE PatchSpec
  <2>1. CrTypeOK'
    BY <1>5, ResourceParts DEF PatchSpec, awsVars, Goto, Fail, Merge, AgentSpec
  <2>2. AwsTypeOK'
    BY <1>5 DEF PatchSpec, awsVars, Goto, Fail
  <2>3. WorkTypeOK'
    BY <1>5 DEF PatchSpec, awsVars, Goto, Fail
  <2>4. ResourceTypeOK'
    <3>1. [desired EXCEPT !.spec = latest.spec] \in Resource
      BY DEF Resource
    <3> QED
      BY <1>5, <3>1 DEF PatchSpec, Fail
  <2>5. HistoryTypeOK'
    BY <1>5 DEF PatchSpec, awsVars, Goto, Fail
  <2> QED
    BY <2>1, <2>2, <2>3, <2>4, <2>5
<1>6. CASE Release
  <2>1. CrTypeOK'
    BY <1>6 DEF Release, crVars, awsVars, Goto, CrGone
  <2>2. AwsTypeOK'
    BY <1>6 DEF Release, crVars, awsVars, Goto, CrGone
  <2>3. WorkTypeOK'
    BY <1>6 DEF Release, crVars, awsVars, Goto, CrGone
  <2>4. ResourceTypeOK'
    BY <1>6 DEF Release, crVars, awsVars, Goto, CrGone
  <2>5. HistoryTypeOK'
    BY <1>6 DEF Release, crVars, awsVars, Goto, CrGone
  <2> QED
    BY <2>1, <2>2, <2>3, <2>4, <2>5
<1>7. CASE Unmanage
  <2>1. CrTypeOK'
    BY <1>7 DEF Unmanage, crVars, awsVars, Goto, CrGone, Idle
  <2>2. AwsTypeOK'
    BY <1>7 DEF Unmanage, crVars, awsVars, Goto, CrGone, Idle
  <2>3. WorkTypeOK'
    BY <1>7 DEF Unmanage, crVars, awsVars, Goto, CrGone, Idle
  <2>4. ResourceTypeOK'
    BY <1>7 DEF Unmanage, crVars, awsVars, Goto, CrGone, Idle
  <2>5. HistoryTypeOK'
    BY <1>7 DEF Unmanage, crVars, awsVars, Goto, CrGone, Idle
  <2> QED
    BY <2>1, <2>2, <2>3, <2>4, <2>5
<1>8. CASE CreateAgent
  <2>1. CrTypeOK'
    BY <1>8 DEF CreateAgent, crVars, Goto
  <2>2. AwsTypeOK'
    BY <1>8, ResourceParts, AwsOpsType DEF CreateAgent, crVars, Goto, awsVars
  <2>3. WorkTypeOK'
    BY <1>8 DEF CreateAgent, crVars, Goto
  <2>4. ResourceTypeOK'
    <3>1. \A i \in Ids : [desired EXCEPT !.id = i, !.status = "CREATING",
              !.spec = Stored(desired.spec)] \in Resource
      BY CreatedResource
    <3>2. latest' \in Resource
      BY <1>8, <3>1 DEF CreateAgent
    <3> QED
      BY <1>8, <3>2 DEF CreateAgent
  <2>5. HistoryTypeOK'
    BY <1>8 DEF CreateAgent, crVars, Goto
  <2> QED
    BY <2>1, <2>2, <2>3, <2>4, <2>5
<1>9. CASE PrepareAgent
  <2>1. CrTypeOK'
    BY <1>9 DEF PrepareAgent, UpdateUnchanged, crVars, Goto, Fail, Continue,
       ReplyLost, Refused
  <2>2. AwsTypeOK'
    BY <1>9 DEF PrepareAgent, UpdateUnchanged, crVars, Goto, Fail, Continue,
       ReplyLost, Refused, AwsPrepare, AgentStatuses, awsVars
  <2>3. WorkTypeOK'
    BY <1>9, BedrockAssumption DEF PrepareAgent, UpdateUnchanged, crVars, Goto, Fail,
       Continue, ReplyLost, Refused, UpdateCall
  <2>4. ResourceTypeOK'
    BY <1>9 DEF PrepareAgent, UpdateUnchanged, crVars, Goto, Fail, Continue,
       ReplyLost, Refused
  <2>5. HistoryTypeOK'
    BY <1>9 DEF PrepareAgent, UpdateUnchanged, crVars, Goto, Fail, Continue,
       ReplyLost, Refused
  <2> QED
    BY <2>1, <2>2, <2>3, <2>4, <2>5
<1>10. CASE UntagResource
  <2>1. CrTypeOK'
    BY <1>10 DEF UntagResource, UpdateUnchanged, crVars, Goto, Fail, ReplyLost
  <2>2. AwsTypeOK'
    BY <1>10 DEF UntagResource, UpdateUnchanged, crVars, Goto, Fail, ReplyLost,
       AwsSetTags, AgentSpec, awsVars
  <2>3. WorkTypeOK'
    BY <1>10 DEF UntagResource, UpdateUnchanged, crVars, Goto, Fail, ReplyLost
  <2>4. ResourceTypeOK'
    BY <1>10 DEF UntagResource, UpdateUnchanged, crVars, Goto, Fail, ReplyLost
  <2>5. HistoryTypeOK'
    BY <1>10 DEF UntagResource, UpdateUnchanged, crVars, Goto, Fail, ReplyLost
  <2> QED
    BY <2>1, <2>2, <2>3, <2>4, <2>5
<1>11. CASE TagResource
  <2>1. CrTypeOK'
    BY <1>11 DEF TagResource, UpdateUnchanged, crVars, Goto, Fail, Continue, ReplyLost
  <2>2. AwsTypeOK'
    BY <1>11, ResourceParts DEF TagResource, UpdateUnchanged, crVars, Goto, Fail,
       Continue, ReplyLost, AwsSetTags, AgentSpec, awsVars
  <2>3. WorkTypeOK'
    BY <1>11 DEF TagResource, UpdateUnchanged, crVars, Goto, Fail, Continue,
       ReplyLost, UpdateCall
  <2>4. ResourceTypeOK'
    BY <1>11 DEF TagResource, UpdateUnchanged, crVars, Goto, Fail, Continue, ReplyLost
  <2>5. HistoryTypeOK'
    BY <1>11 DEF TagResource, UpdateUnchanged, crVars, Goto, Fail, Continue, ReplyLost
  <2> QED
    BY <2>1, <2>2, <2>3, <2>4, <2>5
<1>12. CASE UpdateAgent
  <2>1. CrTypeOK'
    BY <1>12 DEF UpdateAgent, UpdateUnchanged, crVars, Goto, Fail, ReplyLost, Refused
  <2>2. AwsTypeOK'
    <3>1. Stored(desired.spec) \in AgentSpec
      BY StoredType, ResourceParts
    <3>2. CASE awsVars' = awsVars
      BY <3>2 DEF awsVars
    <3>3. CASE latest.id \in Ids /\ AwsUpdate(latest.id, desired.spec)
      BY <3>3, AwsOpsType, ResourceParts
    <3>4. CASE latest.id \notin Ids /\ AwsUpdate(latest.id, desired.spec)
      BY <3>4 DEF AwsUpdate
    <3> QED
      BY <1>12, <3>2, <3>3, <3>4 DEF UpdateAgent, Refused
  <2>3. WorkTypeOK'
    BY <1>12, BedrockAssumption DEF UpdateAgent, UpdateUnchanged, crVars, Goto, Fail,
       ReplyLost, Refused
  <2>4. ResourceTypeOK'
    <3>1. [desired EXCEPT !.status = "UPDATING",
              !.spec = Stored(desired.spec)] \in Resource
      BY UpdatedResource
    <3>2. latest' \in Resource
      BY <1>12, <3>1 DEF UpdateAgent, Fail, ReplyLost, Refused
    <3> QED
      BY <1>12, <3>2 DEF UpdateAgent, UpdateUnchanged
  <2>5. HistoryTypeOK'
    BY <1>12 DEF UpdateAgent, UpdateUnchanged, crVars, Goto, Fail, ReplyLost, Refused
  <2> QED
    BY <2>1, <2>2, <2>3, <2>4, <2>5
<1>13. CASE DeleteAgent
  <2>1. CrTypeOK'
    BY <1>13 DEF DeleteAgent, UpdateUnchanged, crVars, Goto, Fail, ReplyLost, Refused
  <2>2. AwsTypeOK'
    BY <1>13 DEF DeleteAgent, UpdateUnchanged, crVars, Goto, Fail, ReplyLost, Refused,
       AwsDelete, AgentStatuses, awsVars
  <2>3. WorkTypeOK'
    BY <1>13, BedrockAssumption DEF DeleteAgent, UpdateUnchanged, crVars, Goto, Fail,
       ReplyLost, Refused
  <2>4. ResourceTypeOK'
    BY <1>13 DEF DeleteAgent, UpdateUnchanged, crVars, Goto, Fail, ReplyLost, Refused
  <2>5. HistoryTypeOK'
    BY <1>13 DEF DeleteAgent, UpdateUnchanged, crVars, Goto, Fail, ReplyLost, Refused
  <2> QED
    BY <2>1, <2>2, <2>3, <2>4, <2>5
<1>14. CASE Finish
  <2>1. CrTypeOK'
    BY <1>14, ResourceParts DEF Finish, awsVars, Goto, Idle, IsSynced
  <2>2. AwsTypeOK'
    BY <1>14 DEF Finish, awsVars, Goto, Idle
  <2>3. WorkTypeOK'
    BY <1>14 DEF Finish, awsVars, Goto, Idle, Requeue
  <2>4. ResourceTypeOK'
    BY <1>14 DEF Finish, awsVars, Goto, Idle
  <2>5. HistoryTypeOK'
    BY <1>14, ResourceParts DEF Finish, awsVars, Goto, Idle, Unsaved
  <2> QED
    BY <2>1, <2>2, <2>3, <2>4, <2>5
<1>15. CASE UserCreate
  <2>1. CrTypeOK'
    BY <1>15 DEF UserCreate, awsVars, workVars
  <2>2. AwsTypeOK'
    BY <1>15 DEF UserCreate, awsVars, workVars
  <2>3. WorkTypeOK'
    BY <1>15 DEF UserCreate, awsVars, workVars
  <2>4. ResourceTypeOK'
    BY <1>15 DEF UserCreate, awsVars, workVars
  <2>5. HistoryTypeOK'
    BY <1>15 DEF UserCreate, awsVars, workVars
  <2> QED
    BY <2>1, <2>2, <2>3, <2>4, <2>5
<1>16. CASE UserEdit
  <2>1. CrTypeOK'
    BY <1>16 DEF UserEdit, awsVars, workVars
  <2>2. AwsTypeOK'
    BY <1>16 DEF UserEdit, awsVars, workVars
  <2>3. WorkTypeOK'
    BY <1>16 DEF UserEdit, awsVars, workVars
  <2>4. ResourceTypeOK'
    BY <1>16 DEF UserEdit, awsVars, workVars
  <2>5. HistoryTypeOK'
    BY <1>16 DEF UserEdit, awsVars, workVars
  <2> QED
    BY <2>1, <2>2, <2>3, <2>4, <2>5
<1>17. CASE UserDelete
  <2>1. CrTypeOK'
    BY <1>17 DEF UserDelete, CrGone, awsVars, workVars
  <2>2. AwsTypeOK'
    BY <1>17 DEF UserDelete, CrGone, awsVars, workVars
  <2>3. WorkTypeOK'
    BY <1>17 DEF UserDelete, CrGone, awsVars, workVars
  <2>4. ResourceTypeOK'
    BY <1>17 DEF UserDelete, CrGone, awsVars, workVars
  <2>5. HistoryTypeOK'
    BY <1>17 DEF UserDelete, CrGone, awsVars, workVars
  <2> QED
    BY <2>1, <2>2, <2>3, <2>4, <2>5
<1>18. CASE Crash
  <2>1. CrTypeOK'
    BY <1>18 DEF Crash, crVars, awsVars, Idle, Goto
  <2>2. AwsTypeOK'
    BY <1>18 DEF Crash, crVars, awsVars, Idle, Goto
  <2>3. WorkTypeOK'
    BY <1>18 DEF Crash, crVars, awsVars, Idle, Goto
  <2>4. ResourceTypeOK'
    BY <1>18 DEF Crash, crVars, awsVars, Idle, Goto
  <2>5. HistoryTypeOK'
    BY <1>18, ResourceParts DEF Crash, crVars, awsVars, Idle, Goto, Unsaved
  <2> QED
    BY <2>1, <2>2, <2>3, <2>4, <2>5
<1>19. CASE Resync
  <2>1. CrTypeOK'
    BY <1>19 DEF Resync, crVars, awsVars, workVars
  <2>2. AwsTypeOK'
    BY <1>19 DEF Resync, crVars, awsVars, workVars
  <2>3. WorkTypeOK'
    BY <1>19 DEF Resync, crVars, awsVars, workVars
  <2>4. ResourceTypeOK'
    BY <1>19 DEF Resync, crVars, awsVars, workVars
  <2>5. HistoryTypeOK'
    BY <1>19 DEF Resync, crVars, awsVars, workVars
  <2> QED
    BY <2>1, <2>2, <2>3, <2>4, <2>5
<1>20. CASE Settle
  <2>1. CrTypeOK'
    BY <1>20 DEF Settle, crVars, workVars
  <2>2. AwsTypeOK'
    BY <1>20, AwsOpsType DEF Settle, crVars, workVars, AgentSpec, Prompts
  <2>3. WorkTypeOK'
    BY <1>20 DEF Settle, crVars, workVars
  <2>4. ResourceTypeOK'
    BY <1>20 DEF Settle, crVars, workVars
  <2>5. HistoryTypeOK'
    BY <1>20 DEF Settle, crVars, workVars
  <2> QED
    BY <2>1, <2>2, <2>3, <2>4, <2>5
<1>21. CASE Drift
  <2>1. CrTypeOK'
    BY <1>21 DEF Drift, crVars, workVars
  <2>2. AwsTypeOK'
    BY <1>21, AwsOpsType DEF Drift, crVars, workVars, AgentSpec
  <2>3. WorkTypeOK'
    BY <1>21 DEF Drift, crVars, workVars
  <2>4. ResourceTypeOK'
    BY <1>21 DEF Drift, crVars, workVars
  <2>5. HistoryTypeOK'
    BY <1>21 DEF Drift, crVars, workVars
  <2> QED
    BY <2>1, <2>2, <2>3, <2>4, <2>5
<1>22. CASE UNCHANGED vars
  BY <1>22 DEF vars, crVars, awsVars, workVars
<1> QED
  BY <1>1, <1>2, <1>3, <1>4, <1>5, <1>6, <1>7, <1>8, <1>9, <1>10, <1>11, <1>12, <1>13,
     <1>14, <1>15, <1>16, <1>17, <1>18, <1>19, <1>20, <1>21, <1>22 DEF Next, Worker,
     User

(* Every reachable state is well typed.                                    *)
THEOREM TypeCorrect == Spec => []TypeOK
<1>1. TypeOK /\ [Next]_vars => TypeOK'
  BY TypeNext
<1> QED
  BY TypeInit, <1>1, PTL DEF Spec
=============================================================================
