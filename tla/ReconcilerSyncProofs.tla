------------------------ MODULE ReconcilerSyncProofs ------------------------
(***************************************************************************)
(* What ResourceSynced=True is worth: the proofs of AgentReconciler's      *)
(* SuccessIsTrue, SyncedIsTrue and SyncedIsLeftAlone, from the invariant   *)
(* SyncInv about what the worker knows of the agent's draft and status.    *)
(***************************************************************************)
EXTENDS ReconcilerSafetyProofs

-----------------------------------------------------------------------------
(* The history. A disturbance that has happened stays counted.             *)
LEMMA SpendCounts ==
    ASSUME NEW k \in Kinds, used \in [Kinds -> Nat], Spend(k)
    PROVE  /\ used'[k] # 0
           /\ \A j \in Kinds : used[j] # 0 => used'[j] # 0
  BY DEF Spend

(* No step takes a disturbance back.                                       *)
LEMMA HistoryStays ==
    ASSUME TypeOK, [Next]_vars
    PROVE  /\ NoDrift' => NoDrift
           /\ StatusKnown' => StatusKnown
<1>1. used \in [Kinds -> Nat]
  BY DEF TypeOK, HistoryTypeOK
<1>2. used' = used \/ \E k \in Kinds : Spend(k)
  <2>1. CASE Worker
    BY <2>1 DEF Worker, Start, GetAgent, ListTags, Manage, PatchSpec, Release, Unmanage,
       CreateAgent, PrepareAgent, UntagResource, TagResource, UpdateAgent, DeleteAgent,
       Finish, Refused, ReplyLost, Continue, Kinds
  <2>2. CASE User \/ Crash \/ Resync \/ Settle \/ Drift \/ UNCHANGED vars
    BY <2>2 DEF User, UserCreate, UserEdit, UserDelete, Crash, Resync, Settle, Drift,
       vars, Kinds
  <2> QED
    BY <2>1, <2>2 DEF Next
<1>3. \A j \in Kinds : used[j] # 0 => used'[j] # 0
  BY <1>1, <1>2, SpendCounts
<1>4. {"drift", "status", "reply", "crash"} \subseteq Kinds
  BY DEF Kinds
<1> QED
  BY <1>3, <1>4 DEF NoDrift, StatusKnown

-----------------------------------------------------------------------------
(* Control: what a call is for, and what an edit does to the queue.        *)

(* A step that leaves the worker alone.                                    *)
Quiet == UserCreate \/ UserEdit \/ UserDelete \/ Resync \/ Settle \/ Drift

LEMMA PhasesNext ==
    ASSUME TypeOK, Phases, [Next]_vars
    PROVE  Phases'
<1>0. /\ pc \in {"idle", "get", "list", "manage", "create", "prepare", "untag", "tag",
                 "update", "patch", "delete", "release", "unmanage", "finish"}
      /\ ctx \in {"sync", "late", "delete"}
      /\ delta \subseteq {"AgentStatus", "Prompt", "Conf", "Tags"}
  BY DEF TypeOK, WorkTypeOK
<1>1. CASE Quiet \/ UNCHANGED vars
  BY <1>1 DEF Quiet, UserCreate, UserEdit, UserDelete, Resync, Settle, Drift, vars, workVars,
     Phases
<1>2. CASE Start
  BY <1>2 DEF Start, Goto, Phases, workVars
<1>3. CASE GetAgent
  BY <1>0, <1>3 DEF GetAgent, ReadError, Fail, Goto, Phases
<1>4. CASE ListTags
  <2> DEFINE read == [observed EXCEPT !.spec.tags = awsSpec[observed.id].tags]
  <2>1. Delta(desired, read) \subseteq {"AgentStatus", "Prompt", "Conf", "Tags"}
    BY DEF Delta
  <2> HIDE DEF read
  <2>2. /\ pc = "list" /\ pc' \in {"get", "prepare", "untag", "update", "patch", "delete", "finish"}
        /\ ctx' \in {"sync", "late", "delete"} /\ pc' = "get" => ctx' = "late"
        /\ pc' \in {"prepare", "untag", "update"} => ctx' = "sync" /\ UpdateCall(delta') = pc'
        /\ pc' = "patch" => ctx' # "delete"
        /\ pc' = "delete" => ctx' = "delete"
    BY <1>0, <1>4, <2>1 DEF ListTags, ReadError, Fail, Goto, UpdateCall, read
  <2> QED
    BY <2>2 DEF Phases
<1>5. CASE Manage
  BY <1>5 DEF Manage, Fail, Goto, Phases
<1>6. CASE PatchSpec
  BY <1>6 DEF PatchSpec, Fail, Goto, Phases
<1>7. CASE Release
  BY <1>7 DEF Release, Goto, Phases
<1>8. CASE Unmanage \/ Finish \/ Crash
  BY <1>8 DEF Unmanage, Finish, Crash, Idle, Goto, Phases
<1>9. CASE CreateAgent
  BY <1>9 DEF CreateAgent, Goto, Phases
<1>10. CASE PrepareAgent
  BY <1>10 DEF PrepareAgent, Continue, ReplyLost, Refused, Fail, Goto, UpdateUnchanged,
     Phases, UpdateCall
<1>11. CASE UntagResource
  BY <1>11 DEF UntagResource, ReplyLost, Fail, Goto, UpdateUnchanged, Phases
<1>12. CASE TagResource
  BY <1>12 DEF TagResource, Continue, ReplyLost, Fail, Goto, UpdateUnchanged,
     Phases, UpdateCall
<1>13. CASE UpdateAgent
  BY <1>13 DEF UpdateAgent, ReplyLost, Refused, Fail, Goto, UpdateUnchanged, Phases
<1>14. CASE DeleteAgent
  BY <1>14 DEF DeleteAgent, ReplyLost, Refused, Fail, Goto, UpdateUnchanged, Phases
<1> QED
  BY <1>1, <1>2, <1>3, <1>4, <1>5, <1>6, <1>7, <1>8, <1>9, <1>10, <1>11, <1>12, <1>13, <1>14
  DEF Next, Worker, User, Quiet

LEMMA CrReportsNext ==
    ASSUME TypeOK, Phases, CrReports, [Next]_vars
    PROVE  CrReports'
<1>1. CASE Quiet \/ UNCHANGED vars
  BY <1>1 DEF Quiet, UserCreate, UserEdit, UserDelete, Resync, Settle, Drift, vars, workVars,
     crVars, CrGone, CrReports
<1>2. CASE Start
  BY <1>2 DEF Start, Goto, CrReports, workVars, crVars
<1>3. CASE GetAgent \/ Manage
  <2>1. UNCHANGED <<crExists, crDeleting, crStatus, crSynced, ctx>>
    BY <1>3 DEF GetAgent, Manage, crVars
  <2> QED
    BY <2>1 DEF CrReports
<1>5. CASE PatchSpec
  <2>1. ctx' \in {ctx, "late"}
    BY <1>5 DEF PatchSpec
  <2> QED
    BY <1>5, <2>1 DEF PatchSpec, CrReports
<1>4. CASE ListTags
  <2>1. ctx \in {"sync", "late", "delete"}
    BY DEF TypeOK, WorkTypeOK
  <2>2. ctx' = "delete" => ctx = "delete"
    BY <1>4, <2>1 DEF ListTags, ReadError, Fail
  <2> QED
    BY <1>4, <2>2 DEF ListTags, crVars, CrReports
<1>7. CASE Release
  BY <1>7 DEF Release, CrGone, Phases, CrReports, crVars
<1>8. CASE Unmanage \/ Crash
  BY <1>8 DEF Unmanage, Crash, Idle, CrGone, CrReports, crVars
<1>11. CASE Finish
  <2>1. ctx' = "sync" /\ UNCHANGED <<crExists, crDeleting>>
    BY <1>11 DEF Finish, Idle
  <2>2. CASE crExists /\ crStatus' = latest.status /\ (crSynced' <=> err = "none" /\ IsSynced(latest))
    BY <2>1, <2>2 DEF IsSynced, CrReports
  <2>3. CASE UNCHANGED <<crStatus, crSynced>>
    BY <2>1, <2>3 DEF CrReports
  <2> QED
    BY <1>11, <2>2, <2>3 DEF Finish
<1>9. CASE CreateAgent
  BY <1>9 DEF CreateAgent, crVars, CrReports
<1>10. CASE PrepareAgent \/ UntagResource \/ TagResource \/ UpdateAgent \/ DeleteAgent
  BY <1>10 DEF PrepareAgent, UntagResource, TagResource, UpdateAgent, DeleteAgent,
     UpdateUnchanged, crVars, CrReports
<1> QED
  BY <1>1, <1>2, <1>3, <1>4, <1>5, <1>7, <1>8, <1>9, <1>10, <1>11
  DEF Next, Worker, User, Quiet

LEMMA UneditedNext ==
    ASSUME TypeOK, Unedited, [Next]_vars
    PROVE  Unedited'
<1>1. CASE Quiet \/ UNCHANGED vars
  BY <1>1 DEF Quiet, UserCreate, UserEdit, UserDelete, Resync, Settle, Drift, vars, workVars,
     crVars, CrGone, Unedited
<1>2. CASE Start
  BY <1>2 DEF Start, Goto, Unedited, workVars, crVars
<1>3. CASE GetAgent \/ ListTags \/ CreateAgent
  BY <1>3 DEF GetAgent, ListTags, CreateAgent, crVars, Unedited
<1>4. CASE Manage
  BY <1>4 DEF Manage, Unedited, TypeOK, ResourceTypeOK, Resource
<1>5. CASE PatchSpec
  <2>1. /\ desired \in Resource /\ desired.spec \in AgentSpec /\ crSpec \in AgentSpec
        /\ latest.spec \in AgentSpec
    BY DEF TypeOK, ResourceTypeOK, CrTypeOK, Resource
  <2>2. Merge(latest.spec, desired.spec, desired.spec) = latest.spec
    BY <2>1 DEF Merge, AgentSpec
  <2>3. CASE /\ crSpec' = Merge(latest.spec, desired.spec, crSpec)
             /\ queue' = IF crSpec' # crSpec THEN "due" ELSE queue
             /\ desired' = [desired EXCEPT !.spec = latest.spec]
             /\ pc # "idle" /\ crExists' = crExists
    <3>1. desired'.spec = latest.spec
      BY <2>1, <2>3 DEF Resource
    <3> QED
      BY <2>2, <2>3, <3>1 DEF Unedited
  <2>4. CASE UNCHANGED <<crSpec, queue, desired, crExists>> /\ pc # "idle"
    BY <2>4 DEF Unedited
  <2> QED
    BY <1>5, <2>3, <2>4 DEF PatchSpec
<1>7. CASE Release
  BY <1>7 DEF Release, CrGone, Unedited, crVars
<1>8. CASE Unmanage \/ Finish \/ Crash
  BY <1>8 DEF Unmanage, Finish, Crash, Idle, Goto, Unedited
<1>10. CASE PrepareAgent \/ UntagResource \/ TagResource \/ UpdateAgent \/ DeleteAgent
  BY <1>10 DEF PrepareAgent, UntagResource, TagResource, UpdateAgent, DeleteAgent,
     UpdateUnchanged, crVars, Unedited
<1> QED
  BY <1>1, <1>2, <1>3, <1>4, <1>5, <1>7, <1>8, <1>10
  DEF Next, Worker, User, Quiet

-----------------------------------------------------------------------------
(* The draft: as long as nobody else changes the agent, the worker knows   *)
(* what it has.                                                            *)

DraftTrue == ReadTrue /\ DeltaTrue /\ AnswerTrue /\ ResultTrue

(* The drafts stay, but for a prompt that AWS had not set yet.             *)
DraftsStay ==
    \A i \in Ids : /\ awsSpec'[i].conf = awsSpec[i].conf
                   /\ awsSpec'[i].tags = awsSpec[i].tags
                   /\ awsSpec[i].prompt # Nil => awsSpec'[i].prompt = awsSpec[i].prompt

LEMMA UnchangedStay == UNCHANGED awsSpec => DraftsStay
  BY DEF DraftsStay

(* A transition of AWS's own leaves the drafts.                            *)
LEMMA SettleStays ==
    ASSUME AwsTypeOK, NEW i \in Ids, NEW to, AwsSettle(i, to)
    PROVE  DraftsStay
  BY DEF AwsTypeOK, AgentSpec, AwsSettle, DraftsStay

(* What the calls that write a draft make of it.                           *)
LEMMA TagsAfter ==
    ASSUME AwsTypeOK, NEW i \in Ids, NEW t, AwsSetTags(i, t)
    PROVE  /\ awsSpec'[i].conf = awsSpec[i].conf
           /\ awsSpec'[i].prompt = awsSpec[i].prompt
           /\ awsSpec'[i].tags = t
           /\ UNCHANGED awsStatus
  BY DEF AwsTypeOK, AgentSpec, AwsSetTags

LEMMA DraftAfterUpdate ==
    ASSUME AwsTypeOK, NEW i \in Ids, NEW s \in AgentSpec, AwsUpdate(i, s)
    PROVE  /\ awsSpec'[i].conf = Stored(s).conf
           /\ awsSpec'[i].prompt = Stored(s).prompt
           /\ awsSpec'[i].tags = awsSpec[i].tags
  BY StoredType DEF AwsTypeOK, AgentSpec, AwsUpdate

LEMMA DraftAfterCreate ==
    ASSUME AwsTypeOK, NEW i \in Ids, NEW s \in AgentSpec, AwsCreate(i, s)
    PROVE  /\ awsSpec'[i].conf = Stored(s).conf
           /\ awsSpec'[i].prompt = Stored(s).prompt
           /\ awsSpec'[i].tags = s.tags
  BY StoredType DEF AwsTypeOK, AwsCreate

(* A spec is given by its parts.                                           *)
LEMMA SpecEquality ==
    ASSUME NEW a \in AgentSpec, NEW b \in AgentSpec,
           a.conf = b.conf, a.prompt = b.prompt, a.tags = b.tags
    PROVE  a = b
  BY DEF AgentSpec

(* What the worker knows survives such a step.                             *)
LEMMA DraftQuiet ==
    ASSUME TypeOK, TypeOK', DraftTrue, DraftsStay, UNCHANGED workVars
    PROVE  DraftTrue'
<1>0. \A i \in Ids : awsSpec[i] \in AgentSpec /\ awsSpec'[i] \in AgentSpec
  BY DEF TypeOK, AwsTypeOK
<1>1. ReadTrue'
  BY DEF DraftTrue, DraftsStay, ReadTrue, UpToDefault, workVars
<1>2. DeltaTrue'
  BY DEF DraftTrue, DraftsStay, DeltaTrue, workVars
<1>3. AnswerTrue'
  BY DEF DraftTrue, DraftsStay, AnswerTrue, UpToDefault, workVars
<1>4. ASSUME NEW i \in Ids, awsSpec[i].prompt # Nil PROVE awsSpec'[i] = awsSpec[i]
  BY <1>0, <1>4, SpecEquality DEF DraftsStay
<1>5. ResultTrue'
  BY <1>4 DEF DraftTrue, ResultTrue, workVars
<1> QED
  BY <1>1, <1>2, <1>3, <1>5 DEF DraftTrue

(* Nothing need be known of a reconciliation that failed or has not read   *)
(* the agent yet.                                                          *)
LEMMA NothingKnown ==
    ASSUME \/ pc' = "finish" /\ err' # "none"
           \/ pc' \in {"idle", "manage", "create", "release", "delete", "unmanage"}
           \/ pc' = "get" /\ ctx' # "late"
    PROVE  DraftTrue'
  BY DEF DraftTrue, ReadTrue, DeltaTrue, AnswerTrue, ResultTrue

(* A failure is an error.                                                  *)
LEMMA FailureKnown ==
    ASSUME Refused \/ ReplyLost \/ ReadError("recoverable")
    PROVE  pc' = "finish" /\ err' # "none"
  BY BedrockAssumption DEF Refused, ReplyLost, ReadError, Fail, Goto

(* What a read returns, once the tags are read, too.                       *)
LEMMA ReadComplete ==
    ASSUME NEW r \in Resource, NEW i \in Ids, AwsTypeOK
    PROVE  LET read == [r EXCEPT !.spec.tags = awsSpec[i].tags] IN
           /\ read \in Resource /\ read.id = r.id /\ read.status = r.status
           /\ read.spec.conf = r.spec.conf /\ read.spec.prompt = r.spec.prompt
           /\ read.spec.tags = awsSpec[i].tags
<1>1. awsSpec[i].tags \in SUBSET TagKeys
  BY DEF AwsTypeOK, AgentSpec
<1> QED
  BY <1>1 DEF Resource, AgentSpec

(* What the delta leaves out is equal.                                     *)
LEMMA DeltaComplete ==
    ASSUME NEW a, NEW b
    PROVE  /\ "Conf" \notin Delta(a, b) => a.spec.conf = b.spec.conf
           /\ "Prompt" \notin Delta(a, b) => a.spec.prompt = b.spec.prompt
           /\ "Tags" \notin Delta(a, b) => a.spec.tags = b.spec.tags
           /\ "AgentStatus" \in Delta(a, b) <=> b.status \notin {Nil, "PREPARED"}
           /\ "Conf" \in Delta(a, b) => a.spec.conf # b.spec.conf
           /\ "Prompt" \in Delta(a, b) => a.spec.prompt # b.spec.prompt
           /\ Delta(a, b) \subseteq {"AgentStatus", "Prompt", "Conf", "Tags"}
  BY DEF Delta, ComparePrompt, HasNilDifference, CompareAgentStatus

(* sdkUpdate goes on with what is left of the delta, or answers desired.   *)
LEMMA ContinueTrue ==
    ASSUME NEW d \in SUBSET {"Prompt", "Conf", "Tags"}, Continue(d), ctx' = "sync",
           desired' = desired, latest.id \in Ids, desired.id = latest.id,
           "Conf" \notin d => desired.spec.conf = awsSpec'[latest.id].conf,
           "Prompt" \notin d => desired.spec.prompt \in {Nil, awsSpec'[latest.id].prompt},
           awsSpec'[latest.id].tags = IF "Tags" \notin d THEN desired.spec.tags
                                      ELSE latest.spec.tags
    PROVE  DraftTrue'
<1>1. CASE d = {}
  <2>1. latest' = desired /\ pc' = "patch"
    BY <1>1 DEF Continue, UpdateCall, Goto
  <2> QED
    BY <1>1, <2>1 DEF DraftTrue, ReadTrue, DeltaTrue, AnswerTrue, ResultTrue, UpToDefault
<1>2. CASE d # {}
  <2>1. latest' = latest /\ delta' = d /\ pc' \in {"untag", "update"}
    BY <1>2 DEF Continue, UpdateCall, Goto
  <2> QED
    BY <2>1 DEF DraftTrue, ReadTrue, DeltaTrue, AnswerTrue, ResultTrue
<1> QED
  BY <1>1, <1>2

(* The two calls of a read.                                                *)
LEMMA ReadDraft ==
    ASSUME IInv, DraftTrue, GetAgent \/ ListTags
    PROVE  DraftTrue'
<1>0. /\ desired \in Resource /\ latest \in Resource /\ observed \in Resource /\ AwsTypeOK
      /\ ctx \in {"sync", "late", "delete"}
  BY DEF IInv, TypeOK, ResourceTypeOK, WorkTypeOK
<1>1. CASE GetAgent
  <2>1. CASE /\ ~NotFound(latest)
             /\ observed' = [latest EXCEPT !.spec.conf = awsSpec[latest.id].conf,
                                            !.spec.prompt = awsSpec[latest.id].prompt,
                                            !.status = awsStatus[latest.id]]
             /\ pc' = "list" /\ UNCHANGED <<latest, ctx, awsVars>> /\ pc = "get"
    <3>1. /\ observed'.id = latest.id
          /\ observed'.spec.conf = awsSpec[latest.id].conf
          /\ observed'.spec.prompt = awsSpec[latest.id].prompt
      BY <1>0, <2>1 DEF Resource, AgentSpec
    <3>2. latest.id \in Ids
      BY <2>1 DEF NotFound
    <3>3. ReadTrue'
      BY <2>1, <3>1, <3>2 DEF ReadTrue, UpToDefault, awsVars
    <3>4. AnswerTrue'
      BY <2>1 DEF DraftTrue, AnswerTrue, UpToDefault, awsVars
    <3> QED
      BY <2>1, <3>3, <3>4 DEF DraftTrue, DeltaTrue, ResultTrue
  <2>2. CASE pc' \in {"manage", "create", "unmanage"} \/ ReadError("recoverable")
    BY <2>2, NothingKnown, FailureKnown
  <2> QED
    BY <1>0, <1>1, <2>1, <2>2 DEF GetAgent, Goto
<1>2. CASE ListTags
  <2> DEFINE read == [observed EXCEPT !.spec.tags = awsSpec[observed.id].tags]
  <2>1. pc = "list" /\ UNCHANGED <<awsVars, desired>> /\ observed.id = latest.id
    BY <1>2 DEF ListTags, IInv, Accountable, SameAgent
  <2>2. UpToDefault(observed.spec, latest.id)
    BY <2>1 DEF DraftTrue, ReadTrue
  <2>3. /\ UpToDefault(read.spec, latest.id) /\ read.id = latest.id
        /\ read.spec.tags = awsSpec[latest.id].tags
    BY <1>0, <2>1, <2>2, ReadComplete DEF UpToDefault
  <2> HIDE DEF read
  <2>4. CASE /\ ctx = "sync" /\ latest' = read /\ delta' = Delta(desired, read)
             /\ IF delta' = {} THEN Goto("get") /\ ctx' = "late"
                               ELSE Goto(UpdateCall(delta')) /\ UNCHANGED ctx
    <3>1. CASE delta' = {}
      BY <2>1, <2>3, <2>4, <3>1 DEF DraftTrue, ReadTrue, DeltaTrue, AnswerTrue, ResultTrue, Goto,
         UpToDefault, awsVars
    <3>2. CASE delta' # {}
      <4>1. pc' \in {"prepare", "untag", "update"} /\ ctx' = "sync"
        BY <2>4, <3>2, DeltaComplete DEF UpdateCall, Goto
      <4>2. DeltaTrue'
        BY <2>1, <2>3, <2>4, <4>1, DeltaComplete DEF DeltaTrue, UpToDefault, awsVars
      <4> QED
        BY <4>1, <4>2 DEF DraftTrue, ReadTrue, AnswerTrue, ResultTrue
    <3> QED
      BY <3>1, <3>2
  <2>5. CASE /\ ctx = "late" /\ latest' = LateInitialized(latest, read) /\ pc' = "patch"
             /\ err' = IF IncompleteLateInitialization(latest') THEN "recoverable" ELSE "none"
             /\ ctx' = ctx
    <3>1. UpToDefault(latest.spec, latest.id) /\ latest.spec.tags = awsSpec[latest.id].tags
      BY <2>1, <2>5 DEF DraftTrue, AnswerTrue
    <3>2. /\ latest'.id = latest.id /\ latest'.spec.conf = latest.spec.conf
          /\ latest'.spec.tags = latest.spec.tags /\ latest'.spec \in AgentSpec
          /\ latest'.spec.prompt \in {Nil, awsSpec[latest.id].prompt}
      <4>1. read.spec.prompt \in {Nil, awsSpec[latest.id].prompt}
        BY <2>3 DEF UpToDefault
      <4>2. awsSpec[latest.id].prompt \in Prompts
        BY <1>0, <3>1 DEF AwsTypeOK, AgentSpec, UpToDefault
      <4> QED
        BY <1>0, <2>5, <3>1, <4>1, <4>2 DEF LateInitialized, UpToDefault, Resource, AgentSpec
    <3>3. err' = "none" => latest'.spec.prompt # Nil
      BY <2>5 DEF IncompleteLateInitialization
    <3>4. latest.id \in Ids /\ awsSpec[latest.id] \in AgentSpec
      BY <1>0, <3>1 DEF UpToDefault, AwsTypeOK
    <3>5. err' = "none" => latest'.spec = awsSpec[latest.id]
      BY <3>1, <3>2, <3>3, <3>4, SpecEquality DEF UpToDefault
    <3>6. AnswerTrue'
      BY <2>1, <3>1, <3>2, <3>4 DEF AnswerTrue, UpToDefault, awsVars
    <3> QED
      BY <2>1, <2>5, <3>2, <3>3, <3>4, <3>5, <3>6 DEF DraftTrue, ReadTrue, DeltaTrue,
         ResultTrue, awsVars
  <2>6. CASE \/ pc' = "delete" \/ ReadError("recoverable")
             \/ Fail("terminal", read)
    BY <2>6, NothingKnown, FailureKnown DEF Fail, Goto
  <2> QED
    BY <1>0, <1>2, <2>4, <2>5, <2>6 DEF ListTags, Goto, read
<1> QED
  BY <1>1, <1>2

(* The calls that change the agent.                                        *)
LEMMA CallDraft ==
    ASSUME IInv, Phases, DraftTrue,
           \/ CreateAgent \/ PrepareAgent \/ UntagResource \/ TagResource \/ UpdateAgent
           \/ DeleteAgent
    PROVE  DraftTrue'
<1>0. /\ desired \in Resource /\ latest \in Resource /\ AwsTypeOK
      /\ delta \subseteq {"AgentStatus", "Prompt", "Conf", "Tags"}
      /\ desired.spec \in AgentSpec
  BY DEF IInv, TypeOK, ResourceTypeOK, WorkTypeOK, Resource
<1>1. CASE CreateAgent
  <2>1. CASE \E i \in Ids :
               /\ AwsCreate(i, desired.spec) /\ pc = "create" /\ ctx' = ctx /\ pc' = "patch"
               /\ latest' = [desired EXCEPT !.id = i, !.status = "CREATING",
                                             !.spec = Stored(desired.spec)]
    <3> PICK i \in Ids :
               /\ AwsCreate(i, desired.spec) /\ pc = "create" /\ ctx' = ctx /\ pc' = "patch"
               /\ latest' = [desired EXCEPT !.id = i, !.status = "CREATING",
                                             !.spec = Stored(desired.spec)]
      BY <2>1
    <3>1. latest'.id = i /\ latest'.spec = Stored(desired.spec)
      BY <1>0 DEF Resource
    <3>2. ctx' = "sync"
      BY DEF Phases
    <3>3. AnswerTrue'
      BY <1>0, <3>1, <3>2, DraftAfterCreate, StoredType DEF AnswerTrue, UpToDefault
    <3> QED
      BY <3>2, <3>3 DEF DraftTrue, ReadTrue, DeltaTrue, ResultTrue
  <2>2. CASE pc' \in {"release", "finish"} /\ err' # "none"
    BY <2>2, NothingKnown
  <2> QED
    BY <1>1, <2>1, <2>2 DEF CreateAgent, Goto
<1>2. CASE DeleteAgent
  BY <1>2, NothingKnown, FailureKnown DEF DeleteAgent, Goto
<1>3. ASSUME PrepareAgent \/ UntagResource \/ TagResource \/ UpdateAgent
      PROVE  /\ ctx' = "sync" /\ ctx = "sync" /\ desired' = desired /\ latest.id \in Ids
             /\ latest.id = desired.id
             /\ "Conf" \notin delta => desired.spec.conf = awsSpec[latest.id].conf
             /\ "Prompt" \notin delta =>
                   desired.spec.prompt \in {Nil, awsSpec[latest.id].prompt}
             /\ awsSpec[latest.id].tags
                   = IF "Tags" \notin delta THEN desired.spec.tags
                     ELSE IF pc = "tag" THEN latest.spec.tags \cap desired.spec.tags
                     ELSE latest.spec.tags
  <2>1. pc \in {"prepare", "untag", "tag", "update"}
    BY <1>3 DEF PrepareAgent, UntagResource, TagResource, UpdateAgent
  <2>2. ctx' = ctx /\ desired' = desired
    BY <1>3 DEF PrepareAgent, UntagResource, TagResource, UpdateAgent, UpdateUnchanged
  <2> QED
    BY <2>1, <2>2 DEF Phases, DraftTrue, DeltaTrue, IInv, Accountable, SameAgent
<1>4. CASE PrepareAgent
  <2>1. CASE AwsPrepare(latest.id) /\ Continue(delta \ {"AgentStatus"})
    <3>1. awsSpec' = awsSpec /\ pc = "prepare"
      BY <1>4, <2>1 DEF AwsPrepare, PrepareAgent
    <3> QED
      BY <1>0, <1>3, <1>4, <2>1, <3>1, ContinueTrue
  <2> QED
    BY <1>4, <2>1, FailureKnown, NothingKnown DEF PrepareAgent
<1>5. CASE UntagResource
  <2>1. "Tags" \in delta /\ pc = "untag"
    BY <1>0, <1>5 DEF UntagResource, Phases, UpdateCall
  <2> DEFINE removed == latest.spec.tags \ desired.spec.tags
  <2>2. CASE pc' = "tag" /\ UNCHANGED <<latest, delta>> /\ awsSpec' = awsSpec /\ removed = {}
    BY <1>3, <1>5, <2>1, <2>2 DEF DraftTrue, ReadTrue, DeltaTrue, AnswerTrue, ResultTrue
  <2>3. CASE /\ pc' = "tag" /\ UNCHANGED <<latest, delta>>
             /\ AwsSetTags(latest.id, awsSpec[latest.id].tags \ removed)
    <3>1. /\ awsSpec'[latest.id].conf = awsSpec[latest.id].conf
          /\ awsSpec'[latest.id].prompt = awsSpec[latest.id].prompt
          /\ awsSpec'[latest.id].tags = awsSpec[latest.id].tags \ removed
      BY <1>0, <1>3, <1>5, <2>3, TagsAfter
    <3> QED
      BY <1>3, <1>5, <2>1, <2>3, <3>1 DEF DraftTrue, ReadTrue, DeltaTrue, AnswerTrue, ResultTrue
  <2>4. CASE pc' = "finish" /\ err' # "none"
    BY <2>4, NothingKnown
  <2> QED
    BY <1>5, <2>2, <2>3, <2>4, FailureKnown DEF UntagResource, Goto, Fail, awsVars
<1>6. CASE TagResource
  <2>1. "Tags" \in delta /\ "AgentStatus" \notin delta /\ pc = "tag"
    BY <1>0, <1>6 DEF TagResource, Phases, UpdateCall
  <2> DEFINE added == desired.spec.tags \ latest.spec.tags
  <2>2. CASE added = {} /\ Continue(delta \ {"Tags"}) /\ awsSpec' = awsSpec
    BY <1>0, <1>3, <1>6, <2>1, <2>2, ContinueTrue
  <2>3. CASE AwsSetTags(latest.id, awsSpec[latest.id].tags \cup added) /\ Continue(delta \ {"Tags"})
    <3>1. /\ awsSpec'[latest.id].conf = awsSpec[latest.id].conf
          /\ awsSpec'[latest.id].prompt = awsSpec[latest.id].prompt
          /\ awsSpec'[latest.id].tags = awsSpec[latest.id].tags \cup added
      BY <1>0, <1>3, <1>6, <2>3, TagsAfter
    <3> QED
      BY <1>0, <1>3, <1>6, <2>1, <2>3, <3>1, ContinueTrue
  <2>4. CASE pc' = "finish" /\ err' # "none"
    BY <2>4, NothingKnown
  <2> QED
    BY <1>6, <2>2, <2>3, <2>4, FailureKnown DEF TagResource, Goto, Fail, awsVars
<1>7. CASE UpdateAgent
  <2>1. "Tags" \notin delta /\ pc = "update"
    BY <1>0, <1>7 DEF UpdateAgent, Phases, UpdateCall
  <2>2. CASE /\ AwsUpdate(latest.id, desired.spec) /\ pc' = "patch"
             /\ latest' = [desired EXCEPT !.status = "UPDATING",
                                           !.spec = Stored(desired.spec)]
    <3>1. latest'.id = desired.id /\ latest'.spec = Stored(desired.spec)
      BY <1>0, <2>2 DEF Resource
    <3>2. AnswerTrue'
      BY <1>0, <1>3, <1>7, <2>1, <2>2, <3>1, DraftAfterUpdate, StoredType
      DEF AnswerTrue, UpToDefault
    <3> QED
      BY <1>3, <1>7, <2>2, <3>2 DEF DraftTrue, ReadTrue, DeltaTrue, ResultTrue
  <2>3. CASE pc' = "finish" /\ err' # "none"
    BY <2>3, NothingKnown
  <2> QED
    BY <1>7, <2>2, <2>3, FailureKnown DEF UpdateAgent, Goto, Fail
<1> QED
  BY <1>1, <1>2, <1>4, <1>5, <1>6, <1>7

(* Every step.                                                             *)
LEMMA DraftNext ==
    ASSUME IInv, IInv', Phases, NoDrift', DraftTrue, [Next]_vars
    PROVE  DraftTrue'
<1>0. TypeOK /\ TypeOK' /\ desired \in Resource
  BY DEF IInv, TypeOK, ResourceTypeOK
<1>1. CASE UserCreate \/ UserEdit \/ UserDelete \/ Resync \/ UNCHANGED vars
  BY <1>0, <1>1, DraftQuiet, UnchangedStay DEF UserCreate, UserEdit, UserDelete, Resync, vars,
     awsVars
<1>2. CASE Settle
  BY <1>0, <1>2, DraftQuiet, SettleStays DEF Settle, TypeOK
<1>3. CASE Drift
  <2>1. used'["drift"] # 0
    BY <1>3, SpendCounts DEF Drift, IInv, TypeOK, HistoryTypeOK, Kinds
  <2> QED
    BY <2>1 DEF NoDrift
<1>4. CASE Start
  BY <1>0, <1>4, DraftQuiet, UnchangedStay, NothingKnown DEF Start, Goto, awsVars
<1>5. CASE GetAgent \/ ListTags
  BY <1>5, ReadDraft
<1>6. CASE Manage \/ Release \/ Unmanage \/ Finish \/ Crash
  BY <1>6, NothingKnown DEF Manage, Fail, Release, Unmanage, Finish, Crash, Idle, Goto, Phases
<1>7. CASE PatchSpec
  <2>1. CASE /\ desired' = [desired EXCEPT !.spec = latest.spec]
             /\ IF ctx = "sync" THEN ctx' = "late" /\ pc' = "get"
                                ELSE ctx' = ctx /\ pc' = "finish"
             /\ UNCHANGED <<latest, err, awsVars>> /\ pc = "patch"
    <3>1. desired'.spec = latest.spec
      BY <1>0, <2>1 DEF Resource
    <3>2. CASE ctx = "sync"
      BY <2>1, <3>2 DEF DraftTrue, ReadTrue, DeltaTrue, AnswerTrue, ResultTrue, UpToDefault,
         awsVars
    <3>3. CASE ctx = "late"
      BY <2>1, <3>1, <3>3 DEF DraftTrue, ReadTrue, DeltaTrue, AnswerTrue, ResultTrue, awsVars
    <3> QED
      BY <1>0, <2>1, <3>2, <3>3 DEF Phases, TypeOK, WorkTypeOK
  <2>2. CASE Fail("recoverable", latest)
    BY <2>2, NothingKnown DEF Fail, Goto
  <2> QED
    BY <1>7, <2>1, <2>2 DEF PatchSpec, Goto
<1>8. CASE \/ CreateAgent \/ PrepareAgent \/ UntagResource \/ TagResource \/ UpdateAgent
           \/ DeleteAgent
  BY <1>8, CallDraft
<1> QED
  BY <1>1, <1>2, <1>3, <1>4, <1>5, <1>6, <1>7, <1>8 DEF Next, Worker, User

-----------------------------------------------------------------------------
(* The status: as long as no status has been lost, a status PREPARED that  *)
(* the CR or the worker has is the agent's.                                *)

StatusTrue == CrStatusTrue /\ ReadStatusTrue /\ NeededOnly

(* A prepared agent stays prepared, and its draft stays.                   *)
PreparedStay ==
    \A i \in Ids : Prepared(i) => awsStatus'[i] = "PREPARED" /\ awsSpec'[i] = awsSpec[i]

LEMMA SettlePrepared ==
    ASSUME AwsTypeOK, NEW i \in Ids, NEW to, AwsSettle(i, to)
    PROVE  PreparedStay
  BY DEF AwsTypeOK, AwsSettle, SettlesTo, PreparedStay, Prepared

LEMMA UnchangedPrepared == UNCHANGED awsVars => PreparedStay
  BY DEF PreparedStay, Prepared, awsVars

(* What the status says survives a step that leaves the worker, and the CR *)
(* unless it is edited or deleted.                                         *)
LEMMA StatusQuiet ==
    ASSUME IInv, DraftInv, NoDrift, StatusTrue, PreparedStay, DraftsStay, IInv',
           UNCHANGED <<workVars, crId, crStatus, crSynced>>,
           \/ UNCHANGED <<crExists, crDeleting, crSpec, queue>>
           \/ UNCHANGED <<crExists, crSpec>> /\ queue' = "due" /\ (crDeleting => crDeleting')
           \/ UNCHANGED <<crExists, crDeleting>> /\ queue' = "due"
    PROVE  StatusTrue'
<1>0. AwsTypeOK /\ AwsTypeOK'
  BY DEF IInv, TypeOK
<1>1. CrStatusTrue'
  <2>1. ASSUME crId \in Ids, crSpec.prompt # Nil, awsSpec[crId] = crSpec
        PROVE  awsSpec'[crId] = crSpec
    BY <1>0, <2>1, SpecEquality DEF DraftsStay, AwsTypeOK
  <2>2. /\ pc = "idle" /\ crExists /\ ~crDeleting /\ crStatus = "PREPARED" => Prepared(crId)'
        /\ desired.status = "PREPARED" /\ Prepared(desired.id) => Prepared(desired.id)'
    BY DEF StatusTrue, CrStatusTrue, PreparedStay, Prepared, workVars
  <2> QED
    BY <2>1, <2>2 DEF StatusTrue, CrStatusTrue, workVars
<1>2. ReadStatusTrue'
  BY DEF StatusTrue, CrStatusTrue, ReadStatusTrue, PreparedStay, Prepared, workVars
<1>3. NeededOnly'
  <2>1. pc \in {"untag", "tag", "update"} /\ desired.status = "PREPARED" =>
          Prepared(latest.id)
    BY DEF StatusTrue, CrStatusTrue, DraftInv, Phases, IInv, Accountable, SameAgent
  <2> QED
    BY <2>1 DEF StatusTrue, NeededOnly, PreparedStay, Prepared, workVars
<1> QED
  BY <1>1, <1>2, <1>3 DEF StatusTrue

(* Of a reconciliation that has its answer only the answer matters.        *)
LEMMA AnswerStatus ==
    ASSUME pc' \in {"finish", "release", "patch"} \/ (pc' = "get" /\ ctx' = "late"),
           pc' = "release" => ctx' = "sync",
           ctx' # "delete" => (latest.status = "PREPARED" => Prepared(latest.id))',
           pc' \in {"patch", "get"} =>
               (latest.status = "PREPARED" => Prepared(latest.id))'
    PROVE  StatusTrue'
  BY DEF StatusTrue, CrStatusTrue, ReadStatusTrue, NeededOnly

(* Nothing need be known of an agent that is being deleted.                *)
LEMMA DeletionStatus ==
    ASSUME pc' \in {"delete", "unmanage", "finish"}, ctx' = "delete"
    PROVE  StatusTrue'
  BY DEF StatusTrue, CrStatusTrue, ReadStatusTrue, NeededOnly

(* The user, the timer and AWS.                                            *)
LEMMA StatusAround ==
    ASSUME IInv, IInv', DraftInv, NoDrift, StatusTrue,
           UserCreate \/ UserEdit \/ UserDelete \/ Resync \/ Settle \/ UNCHANGED vars
    PROVE  StatusTrue'
<1>1. CASE UserCreate
  <2>1. crStatus # "PREPARED" /\ ~crSynced
    BY <1>1, ValueAssumption DEF UserCreate, DraftInv, CrReports, AgentStatuses
  <2>2. UNCHANGED <<workVars, awsVars, crId, crStatus, crSynced>>
    BY <1>1 DEF UserCreate
  <2> QED
    BY <2>1, <2>2 DEF StatusTrue, CrStatusTrue, ReadStatusTrue, NeededOnly, Prepared, workVars,
       awsVars
<1>2. CASE UserEdit \/ Resync \/ UNCHANGED vars
  <2>1. UNCHANGED <<awsVars, workVars, crId, crStatus, crSynced, crExists, crDeleting>>
    BY <1>2 DEF UserEdit, Resync, vars, crVars
  <2>2. queue' = "due" \/ UNCHANGED <<crSpec, queue>>
    BY <1>2 DEF UserEdit, Resync, vars, crVars
  <2>3. PreparedStay /\ DraftsStay
    BY <2>1, UnchangedPrepared, UnchangedStay DEF awsVars
  <2> QED
    BY <2>1, <2>2, <2>3, StatusQuiet
<1>3. CASE UserDelete
  <2>1. UNCHANGED <<awsVars, workVars>> /\ PreparedStay /\ DraftsStay
    BY <1>3, UnchangedPrepared, UnchangedStay DEF UserDelete, awsVars
  <2>2. CASE /\ crDeleting' /\ queue' = "due"
             /\ UNCHANGED <<crExists, crSpec, crId, crStatus, crSynced>>
    BY <2>1, <2>2, StatusQuiet
  <2>3. CASE crExists' = FALSE
    BY <2>1, <2>3 DEF StatusTrue, CrStatusTrue, ReadStatusTrue, NeededOnly, Prepared, workVars,
       awsVars
  <2> QED
    BY <1>3, <2>2, <2>3 DEF UserDelete, CrGone
<1>4. CASE Settle
  <2>1. PreparedStay /\ DraftsStay
    BY <1>4, SettlePrepared, SettleStays DEF Settle, IInv, TypeOK
  <2> QED
    BY <1>4, <2>1, StatusQuiet DEF Settle, crVars
<1> QED
  BY <1>1, <1>2, <1>3, <1>4

(* From the CR to the worker and back.                                     *)
LEMMA StatusEnds ==
    ASSUME IInv, IInv', DraftInv, NoDrift, StatusTrue, ~Spend("status"),
           Start \/ Finish \/ Unmanage
    PROVE  StatusTrue'
<1>1. CASE Start
  <2>1. CASE ~crExists
    BY <1>1, <2>1 DEF Start, StatusTrue, CrStatusTrue, ReadStatusTrue, NeededOnly, Prepared,
       workVars, awsVars, crVars
  <2>2. CASE crExists
    <3>1. /\ pc = "idle" /\ pc' = "get" /\ UNCHANGED <<crVars, awsVars>>
          /\ ctx' = IF crDeleting THEN "delete" ELSE "sync"
          /\ desired'.status = crStatus /\ desired'.id = crId
      BY <1>1, <2>2 DEF Start, Goto
    <3>2. crSynced => crStatus = "PREPARED"
      BY DEF DraftInv, CrReports
    <3>3. ~crDeleting /\ crStatus = "PREPARED" => Prepared(crId)
      BY <2>2, <3>1 DEF StatusTrue, CrStatusTrue
    <3>4. CrStatusTrue'
      BY <3>1, <3>2, <3>3 DEF CrStatusTrue, Prepared, crVars, awsVars
    <3> QED
      BY <3>1, <3>4 DEF StatusTrue, ReadStatusTrue, NeededOnly
  <2> QED
    BY <2>1, <2>2
<1>2. CASE Finish
  <2>1. /\ pc = "finish" /\ pc' = "idle" /\ ctx' = "sync" /\ queue' = Requeue
        /\ UNCHANGED <<crExists, crDeleting, crSpec, awsVars>>
    BY <1>2 DEF Finish, Idle, Goto
  <2>2. CASE ~crExists
    BY <2>1, <2>2 DEF StatusTrue, CrStatusTrue, ReadStatusTrue, NeededOnly
  <2>3. CASE crExists
    <3>1. /\ crId' = latest.id /\ crStatus' = latest.status
          /\ crSynced' = (err = "none" /\ IsSynced(latest))
      BY <1>2, <2>3 DEF Finish
    <3>2. ~crDeleting => ctx # "delete"
      BY DEF DraftInv, CrReports
    <3>3. ~crDeleting /\ latest.status = "PREPARED" => Prepared(latest.id)
      BY <2>1, <3>2 DEF StatusTrue, ReadStatusTrue
    <3>4. ASSUME queue' # "due", crSynced'
          PROVE  latest.id \in Ids /\ crSpec.prompt # Nil /\ awsSpec[latest.id] = crSpec
      <4>1. queue # "due" /\ err = "none"
        BY <2>1, <3>1, <3>4 DEF Requeue
      <4>2. crSpec = desired.spec
        BY <2>1, <2>3, <4>1 DEF DraftInv, Unedited
      <4> QED
        BY <2>1, <4>1, <4>2 DEF DraftInv, ResultTrue
    <3>5. CrStatusTrue'
      BY <2>1, <3>1, <3>3, <3>4 DEF CrStatusTrue, Prepared, awsVars
    <3> QED
      BY <2>1, <3>5 DEF StatusTrue, ReadStatusTrue, NeededOnly
  <2> QED
    BY <2>2, <2>3
<1>3. CASE Unmanage
  <2>1. pc' = "idle" /\ ctx' = "sync" /\ crDeleting
    BY <1>3 DEF Unmanage, Idle, Goto, DraftInv, Phases, CrReports
  <2>2. crExists' = FALSE \/ (crDeleting' /\ queue' = "due")
    BY <1>3, <2>1 DEF Unmanage, CrGone, crVars
  <2> QED
    BY <2>1, <2>2 DEF StatusTrue, CrStatusTrue, ReadStatusTrue, NeededOnly
<1> QED
  BY <1>1, <1>2, <1>3

(* The two calls of a read.                                                *)
LEMMA StatusRead ==
    ASSUME IInv, DraftInv, NoDrift, StatusTrue, GetAgent \/ ListTags
    PROVE  StatusTrue'
<1>0. /\ desired \in Resource /\ latest \in Resource /\ observed \in Resource /\ AwsTypeOK
      /\ ctx \in {"sync", "late", "delete"}
  BY DEF IInv, TypeOK, ResourceTypeOK, WorkTypeOK
<1>1. pc \in {"get", "list"} /\ UNCHANGED <<crVars, awsVars, desired>>
  BY DEF GetAgent, ListTags
<1>2. ctx # "late" => latest.id = desired.id
  BY <1>1 DEF IInv, Accountable, SameAgent
<1>3. ctx = "sync" => /\ desired.status = "PREPARED" => Prepared(desired.id)
                      /\ crExists /\ crSynced => desired.status = "PREPARED"
  BY <1>1 DEF StatusTrue, CrStatusTrue
<1>4. ctx = "late" => (latest.status = "PREPARED" => Prepared(latest.id))
  BY DEF StatusTrue, ReadStatusTrue
<1>5. ASSUME ReadError("recoverable") \/ (ReadError("recoverable") /\ UNCHANGED delta),
             UNCHANGED ctx
      PROVE  StatusTrue'
  <2>1. pc' = "finish" /\ latest' = IF ctx = "late" THEN latest ELSE desired
    BY <1>5 DEF ReadError, Fail, Goto
  <2> QED
    BY <1>0, <1>1, <1>3, <1>4, <1>5, <2>1, AnswerStatus DEF Prepared, awsVars
<1>6. CASE GetAgent
  <2>0. pc = "get" /\ UNCHANGED ctx
    BY <1>6 DEF GetAgent
  <2>1. CASE /\ ~NotFound(latest) /\ UNCHANGED latest
             /\ observed' = [latest EXCEPT !.spec.conf = awsSpec[latest.id].conf,
                                            !.spec.prompt = awsSpec[latest.id].prompt,
                                            !.status = awsStatus[latest.id]]
             /\ pc' = "list"
    <3>1. /\ observed'.id = latest.id /\ observed'.status = awsStatus[latest.id]
          /\ observed'.spec.prompt = awsSpec[latest.id].prompt
          /\ latest.id \in Ids
      BY <1>0, <2>1 DEF Resource, AgentSpec, NotFound
    <3>2. CrStatusTrue'
      BY <1>1, <1>3, <2>0, <2>1 DEF CrStatusTrue, Prepared, crVars, awsVars
    <3>3. ReadStatusTrue'
      BY <1>0, <1>1, <1>2, <1>3, <1>4, <2>0, <2>1, <3>1 DEF ReadStatusTrue, Prepared, awsVars
    <3> QED
      BY <2>1, <3>2, <3>3 DEF StatusTrue, NeededOnly
  <2>2. CASE NotFound(latest) /\ ctx = "sync" /\ pc' \in {"manage", "create"}
    <3>1. desired.status # "PREPARED"
      BY <1>2, <1>3, <2>2 DEF NotFound, Exists, Prepared, AgentStatuses
    <3> QED
      BY <1>1, <1>3, <2>0, <2>2, <3>1 DEF StatusTrue, CrStatusTrue, ReadStatusTrue, NeededOnly,
         crVars
  <2>3. CASE ctx = "delete" /\ pc' = "unmanage"
    BY <2>0, <2>3, DeletionStatus
  <2> QED
    BY <1>0, <1>5, <1>6, <2>0, <2>1, <2>2, <2>3 DEF GetAgent, Goto
<1>7. CASE ListTags
  <2> DEFINE read == [observed EXCEPT !.spec.tags = awsSpec[observed.id].tags]
  <2>1. pc = "list" /\ observed.id = latest.id
    BY <1>7 DEF ListTags, IInv, Accountable, SameAgent
  <2>2. UpToDefault(observed.spec, latest.id)
    BY <2>1 DEF DraftInv, ReadTrue
  <2>3. /\ read.id = latest.id /\ read.status = observed.status
        /\ read.spec.conf = awsSpec[latest.id].conf
        /\ read.spec.prompt = observed.spec.prompt
    BY <1>0, <2>1, <2>2, ReadComplete DEF UpToDefault
  <2> HIDE DEF read
  <2>4. ctx = "sync" =>
           /\ observed.status = "PREPARED" => Prepared(latest.id)
           /\ desired.status = "PREPARED" =>
                 observed.status = "PREPARED" /\ observed.spec.prompt = awsSpec[latest.id].prompt
    BY <2>1 DEF StatusTrue, ReadStatusTrue
  <2>5. CASE /\ ctx = "sync" /\ latest' = read /\ delta' = Delta(desired, read)
             /\ IF delta' = {} THEN Goto("get") /\ ctx' = "late"
                               ELSE Goto(UpdateCall(delta')) /\ UNCHANGED ctx
    <3>1. CASE delta' = {}
      BY <1>1, <2>3, <2>4, <2>5, <3>1, AnswerStatus DEF Goto, Prepared, awsVars
    <3>2. CASE delta' # {}
      <4>1. /\ pc' \in {"prepare", "untag", "update"} /\ ctx' = "sync"
            /\ pc' = "prepare" => "AgentStatus" \in delta'
        BY <2>5, <3>2, DeltaComplete DEF UpdateCall, Goto
      <4>2. "AgentStatus" \in delta' <=> observed.status \notin {Nil, "PREPARED"}
        BY <2>3, <2>5, DeltaComplete
      <4>3. CrStatusTrue'
        BY <1>1, <1>2, <1>3, <2>4, <2>5, <4>1, <4>2 DEF CrStatusTrue, Prepared, crVars, awsVars
      <4>4. ReadStatusTrue'
        BY <1>1, <2>3, <2>4, <2>5, <4>1, <4>2 DEF ReadStatusTrue, Prepared, awsVars
      <4>5. NeededOnly'
        BY <1>1, <2>3, <2>4, <2>5, <4>2, DeltaComplete DEF NeededOnly, awsVars
      <4> QED
        BY <4>3, <4>4, <4>5 DEF StatusTrue
    <3> QED
      BY <3>1, <3>2
  <2>6. CASE ctx = "sync" /\ Fail("terminal", read) /\ UNCHANGED ctx
    BY <1>1, <2>3, <2>4, <2>6, AnswerStatus DEF Fail, Goto, Prepared, awsVars
  <2>7. CASE /\ ctx = "late" /\ latest' = LateInitialized(latest, read) /\ pc' = "patch"
             /\ UNCHANGED ctx
    <3>1. latest'.id = latest.id /\ latest'.status = latest.status
      BY <1>0, <2>7 DEF LateInitialized, Resource
    <3> QED
      BY <1>1, <1>4, <2>7, <3>1, AnswerStatus DEF Prepared, awsVars
  <2>8. CASE ctx = "delete" /\ pc' = "delete" /\ UNCHANGED ctx
    BY <2>8, DeletionStatus
  <2> QED
    BY <1>0, <1>5, <1>7, <2>5, <2>6, <2>7, <2>8 DEF ListTags, Goto, read
<1> QED
  BY <1>6, <1>7

(* The patches of the CR on the way.                                       *)
LEMMA StatusPatch ==
    ASSUME IInv, DraftInv, StatusTrue, Manage \/ PatchSpec \/ Release
    PROVE  StatusTrue'
<1>0. desired \in Resource /\ ctx \in {"sync", "late", "delete"}
  BY DEF IInv, TypeOK, ResourceTypeOK, WorkTypeOK
<1>1. CASE Manage
  <2>1. /\ pc = "manage" /\ ctx' = "sync" /\ UNCHANGED <<crExists, crSynced, awsVars>>
        /\ desired.status # "PREPARED" /\ ~(crExists /\ crSynced) /\ latest = desired
    BY <1>1 DEF Manage, DraftInv, Phases, StatusTrue, CrStatusTrue
  <2>2. CASE desired' = [desired EXCEPT !.managed = TRUE] /\ pc' = "create"
    <3>1. desired'.status = desired.status
      BY <1>0, <2>2 DEF Resource
    <3> QED
      BY <2>1, <2>2, <3>1 DEF StatusTrue, CrStatusTrue, ReadStatusTrue, NeededOnly
  <2>3. CASE latest' = latest /\ pc' = "finish"
    BY <2>1, <2>3, AnswerStatus
  <2> QED
    BY <1>1, <2>2, <2>3 DEF Manage, Fail, Goto
<1>2. CASE PatchSpec
  <2>1. /\ pc = "patch" /\ latest' = latest /\ UNCHANGED awsVars /\ ctx # "delete"
        /\ \/ pc' = "get" /\ ctx' = "late"
           \/ pc' = "finish"
    BY <1>2 DEF PatchSpec, Fail, Goto, DraftInv, Phases
  <2> QED
    BY <2>1, AnswerStatus DEF StatusTrue, ReadStatusTrue, Prepared, awsVars
<1>3. CASE Release
  <2>1. pc = "release" /\ pc' = "finish" /\ UNCHANGED <<latest, awsVars, ctx>>
    BY <1>3 DEF Release, Goto
  <2> QED
    BY <2>1, AnswerStatus DEF StatusTrue, ReadStatusTrue, Prepared, awsVars
<1> QED
  BY <1>1, <1>2, <1>3

(* What a call leaves the worker with when it was not needed, or failed.   *)
LEMMA CallFails ==
    ASSUME Refused \/ ReplyLost \/ (\E e : Fail(e, latest))
    PROVE  pc' = "finish" /\ latest' = latest
  BY DEF Refused, ReplyLost, Fail, Goto

(* The calls that change the agent.                                        *)
LEMMA StatusCall ==
    ASSUME IInv, DraftInv, NoDrift, StatusTrue, ~Spend("reply"),
           \/ CreateAgent \/ PrepareAgent \/ UntagResource \/ TagResource \/ UpdateAgent
           \/ DeleteAgent
    PROVE  StatusTrue'
<1>0. /\ desired \in Resource /\ latest \in Resource /\ AwsTypeOK
      /\ delta \subseteq {"AgentStatus", "Prompt", "Conf", "Tags"}
  BY DEF IInv, TypeOK, ResourceTypeOK, WorkTypeOK
<1>1. UNCHANGED <<crVars, desired, ctx>>
  BY DEF CreateAgent, PrepareAgent, UntagResource, TagResource, UpdateAgent, DeleteAgent,
     UpdateUnchanged
<1>2. CASE CreateAgent
  <2>1. pc = "create" /\ ctx = "sync"
    BY <1>2 DEF CreateAgent, DraftInv, Phases
  <2>2. desired.status # "PREPARED"
    BY <2>1 DEF StatusTrue, CrStatusTrue
  <2>3. latest'.status # "PREPARED" /\ pc' \in {"patch", "release", "finish"}
    BY <1>0, <1>2, <2>2 DEF CreateAgent, Goto, Resource
  <2> QED
    BY <1>1, <2>1, <2>3, AnswerStatus
<1>3. CASE DeleteAgent
  <2>1. ctx = "delete" /\ pc' \in {"unmanage", "finish"}
    BY <1>3, CallFails DEF DeleteAgent, Goto, DraftInv, Phases
  <2> QED
    BY <1>1, <2>1, DeletionStatus
<1>4. ASSUME PrepareAgent \/ UntagResource \/ TagResource \/ UpdateAgent
      PROVE  /\ ctx = "sync" /\ latest.id = desired.id
             /\ desired.status = "PREPARED" => Prepared(desired.id) /\ pc # "prepare"
             /\ crExists /\ crSynced => desired.status = "PREPARED"
             /\ latest.status = "PREPARED" => Prepared(latest.id) /\ pc # "prepare"
  <2>1. pc \in {"prepare", "untag", "tag", "update"}
    BY <1>4 DEF PrepareAgent, UntagResource, TagResource, UpdateAgent
  <2>2. ctx = "sync" /\ latest.id = desired.id
    BY <2>1 DEF DraftInv, Phases, IInv, Accountable, SameAgent
  <2> QED
    BY <2>1, <2>2 DEF StatusTrue, CrStatusTrue, ReadStatusTrue
<1>5. CASE PrepareAgent
  <2>1. pc = "prepare" /\ desired.status # "PREPARED" /\ latest.status # "PREPARED"
    BY <1>4, <1>5 DEF PrepareAgent
  <2>2. latest'.status # "PREPARED"
    BY <1>5, <2>1, CallFails DEF PrepareAgent, Continue
  <2>3. pc' \in {"untag", "update", "patch", "finish"}
    <3>1. ASSUME Continue(delta \ {"AgentStatus"}) PROVE pc' \in {"untag", "update", "patch"}
      BY <3>1 DEF Continue, UpdateCall, Goto
    <3> QED
      BY <1>5, <3>1, CallFails DEF PrepareAgent
  <2> QED
    BY <1>1, <1>4, <1>5, <2>1, <2>2, <2>3 DEF StatusTrue, CrStatusTrue, ReadStatusTrue, NeededOnly,
       crVars
<1>6. CASE UntagResource \/ TagResource
  <2>1. pc \in {"untag", "tag"} /\ "Tags" \in delta /\ "AgentStatus" \notin delta
    BY <1>0, <1>6 DEF UntagResource, TagResource, DraftInv, Phases, UpdateCall
  <2>2. latest.id \in Ids
    BY <2>1 DEF DraftInv, DeltaTrue
  <2>3. /\ awsStatus' = awsStatus
        /\ awsSpec'[latest.id].conf = awsSpec[latest.id].conf
        /\ awsSpec'[latest.id].prompt = awsSpec[latest.id].prompt
    <3>1. UNCHANGED awsVars \/ \E t : AwsSetTags(latest.id, t)
      BY <1>6 DEF UntagResource, TagResource
    <3> QED
      BY <1>0, <2>2, <3>1, TagsAfter DEF awsVars
  <2>4. CASE pc' = "finish" /\ latest' = latest
    BY <1>1, <1>4, <1>6, <2>3, <2>4, AnswerStatus DEF Prepared
  <2>5. CASE latest' = latest /\ pc' \in {"tag", "update"} /\ delta' \subseteq delta
    <3>1. CrStatusTrue'
      BY <1>1, <1>4, <1>6, <2>3, <2>5 DEF CrStatusTrue, Prepared, crVars
    <3>2. ReadStatusTrue'
      BY <1>1, <1>4, <1>6, <2>3, <2>5 DEF ReadStatusTrue, Prepared
    <3>3. NeededOnly'
      BY <1>1, <2>1, <2>3, <2>5 DEF StatusTrue, NeededOnly
    <3> QED
      BY <3>1, <3>2, <3>3 DEF StatusTrue
  <2>6. CASE latest' = desired /\ pc' = "patch"
    BY <1>1, <1>4, <1>6, <2>3, <2>6, AnswerStatus DEF Prepared
  <2>7. ASSUME Continue(delta \ {"Tags"})
        PROVE  \/ latest' = latest /\ pc' = "update" /\ delta' \subseteq delta
               \/ latest' = desired /\ pc' = "patch"
    BY <1>0, <2>1, <2>7 DEF Continue, UpdateCall, Goto
  <2>8. CASE UntagResource
    BY <2>4, <2>5, <2>8, CallFails DEF UntagResource, Goto
  <2>9. CASE TagResource
    BY <2>4, <2>5, <2>6, <2>7, <2>9, CallFails DEF TagResource
  <2> QED
    BY <1>6, <2>8, <2>9
<1>7. CASE UpdateAgent
  <2>1. CASE latest' = [desired EXCEPT !.status = "UPDATING",
                            !.spec = Stored(desired.spec)] /\ pc' = "patch"
    <3>1. latest'.status = "UPDATING"
      BY <1>0, <2>1 DEF Resource
    <3> QED
      BY <2>1, <3>1, AnswerStatus
  <2>2. CASE pc' = "finish" /\ latest' = latest /\ UNCHANGED awsVars
    BY <1>1, <1>4, <1>7, <2>2, AnswerStatus DEF Prepared, awsVars
  <2> QED
    BY <1>7, <2>1, <2>2, CallFails DEF UpdateAgent, ReplyLost, Refused, Goto, awsVars
<1> QED
  BY <1>2, <1>3, <1>5, <1>6, <1>7

(* Every step.                                                             *)
LEMMA StatusNext ==
    ASSUME IInv, IInv', DraftInv, NoDrift, StatusTrue, StatusKnown', [Next]_vars
    PROVE  StatusTrue'
<1>1. ~Spend("drift") /\ ~Spend("status") /\ ~Spend("reply") /\ ~Spend("crash")
  BY SpendCounts DEF StatusKnown, IInv, TypeOK, HistoryTypeOK, Kinds
<1>2. CASE UserCreate \/ UserEdit \/ UserDelete \/ Resync \/ Settle \/ UNCHANGED vars
  BY <1>2, StatusAround
<1>3. CASE Start \/ Finish \/ Unmanage
  BY <1>1, <1>3, StatusEnds
<1>4. CASE GetAgent \/ ListTags
  BY <1>4, StatusRead
<1>5. CASE Manage \/ PatchSpec \/ Release
  BY <1>5, StatusPatch
<1>6. CASE \/ CreateAgent \/ PrepareAgent \/ UntagResource \/ TagResource \/ UpdateAgent
           \/ DeleteAgent
  BY <1>1, <1>6, StatusCall
<1>7. ~Crash /\ ~Drift
  BY <1>1 DEF Crash, Drift
<1> QED
  BY <1>2, <1>3, <1>4, <1>5, <1>6, <1>7 DEF Next, Worker, User

-----------------------------------------------------------------------------
(* The invariant, and what follows from it.                                *)

LEMMA SyncInit == Init => SyncInv
<1> SUFFICES ASSUME Init PROVE SyncInv
  OBVIOUS
<1>1. DraftInv
  BY ValueAssumption DEF Init, DraftInv, Phases, CrReports, Unedited, ReadTrue, DeltaTrue,
     AnswerTrue, ResultTrue
<1>2. CrStatusTrue /\ ReadStatusTrue /\ NeededOnly
  BY DEF Init, CrStatusTrue, ReadStatusTrue, NeededOnly
<1> QED
  BY <1>1, <1>2 DEF SyncInv

LEMMA SyncNext == IInv /\ IInv' /\ SyncInv /\ [Next]_vars => SyncInv'
<1> SUFFICES ASSUME IInv, IInv', SyncInv, [Next]_vars PROVE SyncInv'
  OBVIOUS
<1>1. TypeOK /\ DraftInv /\ Phases /\ CrReports /\ Unedited
  BY DEF IInv, SyncInv, DraftInv
<1>2. Phases' /\ CrReports' /\ Unedited'
  BY <1>1, PhasesNext, CrReportsNext, UneditedNext
<1>3. NoDrift' => DraftTrue'
  BY <1>1, HistoryStays, DraftNext DEF DraftInv, DraftTrue
<1>4. DraftInv'
  BY <1>2, <1>3 DEF DraftInv, DraftTrue
<1>5. StatusKnown' => StatusTrue'
  <2> SUFFICES ASSUME StatusKnown' PROVE StatusTrue'
    OBVIOUS
  <2>1. StatusKnown /\ NoDrift
    BY <1>1, HistoryStays DEF StatusKnown, NoDrift
  <2> QED
    BY <1>1, <2>1, StatusNext DEF SyncInv, StatusTrue
<1> QED
  BY <1>4, <1>5 DEF SyncInv, StatusTrue

(* What the worker knows of the agent is true: the draft as long as nobody *)
(* else changes it, the status as long as every status reached the CR      *)
(* (sdk.go sdkFind and sdkUpdate, hooks.go customUpdateAgent).             *)
THEOREM KnowledgeIsTrue == Spec => []SyncInv
<1>1. IInv /\ IInv' /\ SyncInv /\ [Next]_vars => SyncInv'
  BY SyncNext
<1> QED
  BY <1>1, SyncInit, Safe, PTL DEF Spec

(* A reconciliation that ends without an error leaves the agent with what  *)
(* the CR says, whatever crashed or failed before (sdk.go:779-812).        *)
THEOREM SuccessesAreTrue == Spec => []SuccessIsTrue
<1>1. SyncInv => SuccessIsTrue
  BY DEF SyncInv, DraftInv, Unedited, ResultTrue, SuccessIsTrue
<1> QED
  BY <1>1, KnowledgeIsTrue, PTL

(* A CR at rest that reports ResourceSynced=True tells the truth, unless   *)
(* the agent was changed from outside, or a status was lost by a crash, a  *)
(* failed patch or a lost reply (manager.go IsSynced).                     *)
THEOREM SyncedTruth == Spec => [](StatusKnown => SyncedIsTrue)
<1>1. SyncInv => (StatusKnown => SyncedIsTrue)
  <2> SUFFICES ASSUME SyncInv, StatusKnown, pc = "idle", queue # "due", crExists, ~crDeleting,
                      crSynced
               PROVE  Converged
    BY DEF SyncedIsTrue
  <2>1. crStatus = "PREPARED"
    BY DEF SyncInv, DraftInv, CrReports
  <2>2. Prepared(crId) /\ awsSpec[crId] = crSpec
    BY <2>1 DEF SyncInv, CrStatusTrue
  <2> QED
    BY <2>2, ValueAssumption DEF Converged, Prepared
<1> QED
  BY <1>1, KnowledgeIsTrue, PTL

(* ... and always, where none of this can happen.                          *)
THEOREM SyncedTruthUndisturbed ==
    ASSUME \A k \in {"drift", "status", "reply", "crash"} : Limit[k] = 0
    PROVE  Spec => []SyncedIsTrue
<1>1. Init => StatusKnown
  BY DEF Init, StatusKnown, Kinds
<1>2. TypeOK /\ StatusKnown /\ [Next]_vars => StatusKnown'
  <2> SUFFICES ASSUME TypeOK, StatusKnown, [Next]_vars PROVE StatusKnown'
    OBVIOUS
  <2>1. used' = used \/ \E k \in Kinds : Spend(k)
    BY DEF Next, Worker, User, Start, GetAgent, ListTags, Manage, PatchSpec, Release, Unmanage,
       CreateAgent, PrepareAgent, UntagResource, TagResource, UpdateAgent, DeleteAgent,
       Finish, Refused, ReplyLost, Continue, UserCreate, UserEdit, UserDelete, Crash, Resync,
       Settle, Drift, vars, Kinds
  <2>2. ASSUME NEW k \in Kinds, Spend(k)
        PROVE  \A j \in Kinds : Limit[j] = 0 => used'[j] = used[j]
    BY <2>2, LimitAssumption DEF Spend, TypeOK, HistoryTypeOK
  <2> QED
    BY <2>1, <2>2 DEF StatusKnown, Kinds
<1>3. StatusKnown /\ (StatusKnown => SyncedIsTrue) => SyncedIsTrue
  OBVIOUS
<1> QED
  BY <1>1, <1>2, <1>3, TypeCorrect, SyncedTruth, PTL DEF Spec

(* The calls leave an agent alone that is what its synced CR says.         *)
LEMMA NoNeedlessCall ==
    ASSUME IInv, DraftInv, NoDrift, StatusTrue,
           crSynced, crExists, ~crDeleting, queue # "due", Converged,
           PrepareAgent \/ UntagResource \/ TagResource \/ UpdateAgent \/ DeleteAgent
    PROVE  UNCHANGED awsVars
<1>1. ~DeleteAgent
  BY DEF DeleteAgent, DraftInv, Phases, CrReports
<1>2. /\ pc \in {"prepare", "untag", "tag", "update"} /\ ctx = "sync"
      /\ delta \subseteq {"AgentStatus", "Prompt", "Conf", "Tags"}
  BY <1>1 DEF PrepareAgent, UntagResource, TagResource, UpdateAgent, DraftInv, Phases,
     IInv, TypeOK, WorkTypeOK
<1>3. desired.status = "PREPARED" /\ pc # "prepare"
  BY <1>2 DEF StatusTrue, CrStatusTrue
<1>4. latest.id = crId /\ awsSpec[latest.id] = desired.spec
  <2>1. crId = desired.id /\ latest.id = desired.id
    BY <1>2 DEF Converged, IInv, Accountable, SameAgent, OldAgentGone
  <2>2. crSpec = desired.spec
    BY <1>2 DEF DraftInv, Unedited
  <2> QED
    BY <2>1, <2>2 DEF Converged
<1>5. pc # "update"
  BY <1>2, <1>3, <1>4 DEF StatusTrue, NeededOnly, DraftInv, Phases, UpdateCall
<1>6. "Tags" \in delta
  BY <1>2, <1>3, <1>5 DEF DraftInv, Phases, UpdateCall
<1>7. CASE UntagResource
  <2>1. latest.spec.tags = desired.spec.tags
    BY <1>2, <1>4, <1>6, <1>7 DEF UntagResource, DraftInv, DeltaTrue
  <2> QED
    BY <1>7, <2>1 DEF UntagResource
<1>8. CASE TagResource
  <2>1. desired.spec.tags = latest.spec.tags \cap desired.spec.tags
    BY <1>2, <1>4, <1>6, <1>8 DEF TagResource, DraftInv, DeltaTrue
  <2>2. desired.spec.tags \ latest.spec.tags = {}
    BY <2>1
  <2> QED
    BY <1>8, <2>2 DEF TagResource
<1> QED
  BY <1>1, <1>3, <1>5, <1>7, <1>8 DEF PrepareAgent, UpdateAgent

(* A resync leaves an agent alone that is what a synced CR says: delta.go  *)
(* and hooks.go:50-86 find no difference that AWS itself has made.         *)
THEOREM SyncedAgentsRest == Spec => SyncedIsLeftAlone
<1> DEFINE Before == crSynced /\ crExists /\ ~crDeleting /\ queue # "due" /\ Converged
           Rests  == awsStatus'[crId] = awsStatus[crId] /\ awsSpec'[crId] = awsSpec[crId]
<1>1. IInv /\ SyncInv /\ [Next]_vars => [StatusKnown' /\ Before => Rests]_vars
  <2> SUFFICES ASSUME IInv, SyncInv, [Next]_vars, StatusKnown', Before
               PROVE  Rests
    OBVIOUS
  <2>1. StatusKnown /\ NoDrift /\ DraftInv /\ StatusTrue
    BY HistoryStays DEF IInv, SyncInv, StatusTrue, StatusKnown, NoDrift
  <2>2. crId \in Ids /\ awsStatus[crId] = "PREPARED" /\ AwsTypeOK
    BY DEF Converged, IInv, TypeOK, CrTypeOK
  <2>3. CASE UNCHANGED awsVars
    BY <2>3 DEF awsVars
  <2>4. CASE PrepareAgent \/ UntagResource \/ TagResource \/ UpdateAgent \/ DeleteAgent
    BY <2>1, <2>3, <2>4, NoNeedlessCall
  <2>5. CASE CreateAgent
    <3>1. ASSUME NEW i \in Ids, AwsCreate(i, desired.spec) PROVE Rests
      BY <2>2, <3>1 DEF AwsCreate, AwsTypeOK
    <3> QED
      BY <2>3, <2>5, <3>1 DEF CreateAgent
  <2>6. CASE Settle
    <3>1. ASSUME NEW i \in Ids, NEW to, AwsSettle(i, to) PROVE Rests
      BY <2>2, <3>1 DEF AwsSettle, SettlesTo, AwsTypeOK
    <3> QED
      BY <2>6, <3>1 DEF Settle
  <2>7. ~Drift
    BY SpendCounts DEF Drift, StatusKnown, IInv, TypeOK, HistoryTypeOK, Kinds
  <2> QED
    BY <2>3, <2>4, <2>5, <2>6, <2>7 DEF Next, Worker, User, Start, GetAgent, ListTags, Manage,
       PatchSpec, Release, Unmanage, Finish, UserCreate, UserEdit, UserDelete, Crash, Resync,
       vars
<1> QED
  BY <1>1, Safe, KnowledgeIsTrue, PTL DEF Spec, SyncedIsLeftAlone
-----------------------------------------------------------------------------
(* What a patch of the spec writes.                                        *)

Fills(new, old) ==
    /\ new.conf = old.conf \/ old.conf = Nil
    /\ new.prompt = old.prompt \/ old.prompt = Nil
    /\ new.tags = old.tags

(* The worker compares what it is going to patch with a spec that differs  *)
(* from it at most in fields that were left out.                           *)
Fillable == pc = "patch" \/ ctx = "late" => Fills(latest.spec, desired.spec)

(* The copies that sdkCreate and sdkUpdate make of a reply fill at most    *)
(* what was left out.                                                      *)
LEMMA AnswerFills ==
    ASSUME NEW r \in Resource, NEW i, NEW status
    PROVE  /\ Fills(r.spec, r.spec)
           /\ Fills([r EXCEPT !.id = i, !.status = status,
                              !.spec = Stored(r.spec)].spec, r.spec)
           /\ Fills([r EXCEPT !.status = status,
                              !.spec = Stored(r.spec)].spec, r.spec)
<1>1. Fills(Stored(r.spec), r.spec)
  BY ResourceParts DEF Stored, Fills, AgentSpec
<1> QED
  BY <1>1 DEF Fills, Resource, AgentSpec

(* Every step keeps Fillable.                                              *)
LEMMA FillableNext == TypeOK /\ Fillable /\ [Next]_vars => Fillable'
<1> SUFFICES ASSUME TypeOK, Fillable, [Next]_vars PROVE Fillable'
  OBVIOUS
<1>0. desired \in Resource /\ latest \in Resource /\ observed \in Resource
  BY DEF TypeOK, ResourceTypeOK
<1>1. Fills(desired.spec, desired.spec)
  BY <1>0, AnswerFills
<1>2. CASE Start \/ UserCreate \/ UserEdit \/ UserDelete \/ Resync \/ Settle \/ Drift
           \/ UNCHANGED vars
  BY <1>2 DEF Start, UserCreate, UserEdit, UserDelete, Resync, Settle, Drift, vars, workVars,
     Fillable, Goto, Fills
<1>3. CASE Unmanage \/ Finish \/ Crash
  BY <1>3 DEF Unmanage, Finish, Crash, Idle, Goto, Fillable
<1>4. CASE GetAgent
  <2>1. desired' = desired /\ ctx' = ctx /\ pc = "get"
    BY <1>4 DEF GetAgent
  <2>2. CASE latest' = latest /\ pc' # "patch"
    BY <2>1, <2>2 DEF Fillable
  <2>3. CASE ReadError("recoverable")
    BY <1>1, <2>1, <2>3 DEF ReadError, Fail, Goto, Fillable
  <2>4. ctx \in {"sync", "late", "delete"}
    BY DEF TypeOK, WorkTypeOK
  <2>5. \/ latest' = latest /\ pc' \in {"list", "create", "manage", "unmanage"}
        \/ ReadError("recoverable")
    BY <1>4, <2>4 DEF GetAgent, Goto
  <2> QED
    BY <2>2, <2>3, <2>5
<1>5. CASE ListTags
  <2> DEFINE read == [observed EXCEPT !.spec.tags = awsSpec[observed.id].tags]
  <2>1. CASE latest' = read /\ delta' = Delta(desired, read) /\ delta' = {} /\ desired' = desired
    <3>1. /\ desired.spec.conf = read.spec.conf
          /\ desired.spec.tags = read.spec.tags
          /\ desired.spec.prompt = read.spec.prompt
      BY <2>1 DEF Delta, ComparePrompt, HasNilDifference
    <3> QED
      BY <2>1, <3>1 DEF Fillable, Fills
  <2>2. CASE ctx = "late" /\ latest' = LateInitialized(latest, read) /\ desired' = desired
    <3>1. \/ latest' = latest
          \/ /\ latest.spec.prompt = Nil
             /\ latest'.spec = [latest.spec EXCEPT !.prompt = read.spec.prompt]
      BY <1>0, <2>2 DEF LateInitialized, Resource
    <3>2. /\ latest'.spec.conf = latest.spec.conf /\ latest'.spec.tags = latest.spec.tags
          /\ latest'.spec.prompt = latest.spec.prompt \/ latest.spec.prompt = Nil
      BY <1>0, <3>1 DEF Resource, AgentSpec
    <3>3. Fills(latest.spec, desired.spec)
      BY <2>2 DEF Fillable
    <3> QED
      BY <2>2, <3>2, <3>3 DEF Fillable, Fills
  <2>3. CASE pc' # "patch" /\ ctx' # "late"
    BY <2>3 DEF Fillable
  <2>4. CASE desired' = desired /\ ctx' = ctx /\ pc' = "finish" /\ latest' \in {latest, desired}
    BY <1>1, <2>4 DEF Fillable
  <2>5. desired' = desired /\ pc = "list"
    BY <1>5 DEF ListTags
  <2>6. CASE ctx = "sync" /\ desired.managed /\ latest' = read /\ delta' = Delta(desired, read)
             /\ IF delta' = {} THEN Goto("get") /\ ctx' = "late"
                               ELSE Goto(UpdateCall(delta')) /\ UNCHANGED ctx
    <3>1. CASE delta' = {}
      BY <2>1, <2>5, <2>6, <3>1
    <3>2. CASE delta' # {}
      <4>1. UpdateCall(delta') # "patch"
        BY <2>6, <3>2 DEF UpdateCall, Delta
      <4> QED
        BY <2>3, <2>6, <3>2, <4>1 DEF Goto
    <3> QED
      BY <3>1, <3>2
  <2>7. CASE ctx = "sync" /\ ~desired.managed /\ Fail("terminal", read) /\ UNCHANGED ctx
    BY <2>3, <2>7 DEF Fail, Goto
  <2>8. CASE ctx = "delete" /\ Goto("delete") /\ UNCHANGED ctx
    BY <2>3, <2>8 DEF Goto
  <2>9. CASE ReadError("recoverable") /\ UNCHANGED ctx
    BY <2>4, <2>5, <2>9 DEF ReadError, Fail, Goto
  <2>10. ctx \in {"sync", "late", "delete"}
    BY DEF TypeOK, WorkTypeOK
  <2>11. \/ /\ ctx = "sync" /\ desired.managed /\ latest' = read
            /\ delta' = Delta(desired, read)
            /\ IF delta' = {} THEN Goto("get") /\ ctx' = "late"
                              ELSE Goto(UpdateCall(delta')) /\ UNCHANGED ctx
         \/ ctx = "sync" /\ ~desired.managed /\ Fail("terminal", read) /\ UNCHANGED ctx
         \/ ctx = "late" /\ latest' = LateInitialized(latest, read)
         \/ ctx = "delete" /\ Goto("delete") /\ UNCHANGED ctx
         \/ ReadError("recoverable") /\ UNCHANGED ctx
    BY <1>5, <2>10 DEF ListTags
  <2> HIDE DEF read
  <2> QED
    BY <2>2, <2>5, <2>6, <2>7, <2>8, <2>9, <2>11
<1>6. CASE Manage
  <2>1. CASE latest' = desired' /\ pc' = "create" /\ ctx' = ctx
    BY <2>1 DEF Fillable, Fills
  <2>2. CASE latest' = latest /\ desired' = desired /\ pc' = "finish" /\ ctx' = ctx
    BY <2>2 DEF Fillable
  <2>3. \/ latest' = desired' /\ pc' = "create" /\ ctx' = ctx
        \/ latest' = latest /\ desired' = desired /\ pc' = "finish" /\ ctx' = ctx
    BY <1>6 DEF Manage, Fail, Goto
  <2> QED
    BY <2>1, <2>2, <2>3
<1>7. CASE PatchSpec
  <2>1. CASE desired' = [desired EXCEPT !.spec = latest.spec] /\ latest' = latest
    <3>1. desired'.spec = latest.spec
      BY <1>0, <2>1 DEF Resource
    <3> QED
      BY <2>1, <3>1 DEF Fillable, Fills
  <2>2. CASE Fail("recoverable", latest) /\ UNCHANGED <<ctx, desired>>
    BY <2>2 DEF Fail, Goto, Fillable
  <2> QED
    BY <1>7, <2>1, <2>2 DEF PatchSpec
<1>8. CASE Release
  BY <1>8 DEF Release, Goto, Fillable
<1>9. CASE CreateAgent
  <2>1. CASE \E i \in Ids : latest' = [desired EXCEPT !.id = i, !.status = "CREATING",
                                          !.spec = Stored(desired.spec)]
    BY <1>0, <1>9, <2>1, AnswerFills DEF CreateAgent, Fillable
  <2>2. CASE latest' = desired
    BY <1>1, <1>9, <2>2 DEF CreateAgent, Fillable
  <2> QED
    BY <1>9, <2>1, <2>2 DEF CreateAgent
<1>10. ASSUME latest' \in {latest, desired}, UNCHANGED <<ctx, desired>>,
              pc' = "patch" => latest' = desired
       PROVE  Fillable'
  BY <1>1, <1>10 DEF Fillable
<1>11. ASSUME NEW d, Continue(d), UNCHANGED <<ctx, desired>>, d \subseteq {"AgentStatus", "Prompt", "Conf", "Tags"}
       PROVE  Fillable'
  <2>1. UpdateCall(d) = "patch" => d = {}
    BY <1>11 DEF UpdateCall
  <2> QED
    BY <1>10, <1>11, <2>1 DEF Continue, Goto
<1>12. delta \subseteq {"AgentStatus", "Prompt", "Conf", "Tags"}
  BY DEF TypeOK, WorkTypeOK
<1>13. CASE PrepareAgent
  <2>1. CASE Continue(delta \ {"AgentStatus"})
    BY <1>11, <1>12, <1>13, <2>1 DEF PrepareAgent, UpdateUnchanged
  <2> QED
    BY <1>10, <1>13, <2>1 DEF PrepareAgent, ReplyLost, Refused, Fail, Goto, UpdateUnchanged
<1>14. CASE UntagResource
  BY <1>10, <1>14 DEF UntagResource, ReplyLost, Fail, Goto, UpdateUnchanged
<1>15. CASE TagResource
  <2>1. CASE Continue(delta \ {"Tags"})
    BY <1>11, <1>12, <1>15, <2>1 DEF TagResource, UpdateUnchanged
  <2> QED
    BY <1>10, <1>15, <2>1 DEF TagResource, ReplyLost, Fail, Goto, UpdateUnchanged
<1>16. CASE UpdateAgent
  <2>1. CASE latest' = [desired EXCEPT !.status = "UPDATING",
                            !.spec = Stored(desired.spec)]
    BY <1>0, <1>16, <2>1, AnswerFills DEF UpdateAgent, UpdateUnchanged, Fillable
  <2> QED
    BY <1>10, <1>16, <2>1 DEF UpdateAgent, ReplyLost, Refused, Fail, Goto, UpdateUnchanged
<1>17. CASE DeleteAgent
  BY <1>10, <1>17 DEF DeleteAgent, ReplyLost, Refused, Fail, Goto, UpdateUnchanged
<1> QED
  BY <1>2, <1>3, <1>4, <1>5, <1>6, <1>7, <1>8, <1>9, <1>13, <1>14, <1>15, <1>16, <1>17
  DEF Next, Worker, User

(* A patch fills in what the CR had left out when it was read, with what   *)
(* the agent has, and leaves the tags alone (sdk.go:374-505 and 837-968,   *)
(* the copies of a reply, and manager.go:266, late initialization).        *)
THEOREM PatchesFillUnset == Spec => PatchFillsUnset
<1> DEFINE Step ==
      pc = "patch" /\ pc' # "patch" =>
          /\ crSpec'.tags = crSpec.tags
          /\ crSpec'.conf # crSpec.conf =>
                /\ desired.spec.conf = Nil
                /\ NoDrift => crSpec'.conf = awsSpec[latest.id].conf
          /\ crSpec'.prompt # crSpec.prompt =>
                /\ desired.spec.prompt = Nil
                /\ NoDrift => crSpec'.prompt = awsSpec[latest.id].prompt
<1>1. Init => Fillable
  BY DEF Init, Fillable, Fills
<1>2. TypeOK /\ Fillable /\ DraftInv /\ [Next]_vars => [Step]_vars
  <2> SUFFICES ASSUME TypeOK, Fillable, DraftInv, [Next]_vars, pc = "patch", pc' # "patch"
               PROVE  Step
    OBVIOUS
  <2>1. PatchSpec \/ Crash
    BY DEF Next, Worker, User, Start, GetAgent, ListTags, Manage, Release, Unmanage,
       CreateAgent, PrepareAgent, UntagResource, TagResource, UpdateAgent, DeleteAgent,
       Finish, UserCreate, UserEdit, UserDelete, Resync, Settle, Drift, vars, workVars
  <2>2. CASE crSpec' = crSpec
    BY <2>2
  <2>3. CASE crSpec' = Merge(latest.spec, desired.spec, crSpec)
    <3>1. NoDrift => UpToDefault(latest.spec, latest.id)
      BY DEF DraftInv, AnswerTrue
    <3>2. /\ crSpec'.tags = IF latest.spec.tags # desired.spec.tags
                            THEN latest.spec.tags ELSE crSpec.tags
          /\ crSpec'.conf = IF latest.spec.conf # desired.spec.conf
                            THEN latest.spec.conf ELSE crSpec.conf
          /\ crSpec'.prompt = IF latest.spec.prompt # desired.spec.prompt
                              THEN latest.spec.prompt ELSE crSpec.prompt
      BY <2>3 DEF Merge
    <3>3. Fills(latest.spec, desired.spec)
      BY DEF Fillable
    <3> QED
      BY <3>1, <3>2, <3>3 DEF Fills, UpToDefault
  <2> QED
    BY <2>1, <2>2, <2>3 DEF PatchSpec, Crash, crVars
<1> QED
  BY <1>1, <1>2, FillableNext, TypeCorrect, KnowledgeIsTrue, PTL
  DEF Spec, PatchFillsUnset, SyncInv
=============================================================================
