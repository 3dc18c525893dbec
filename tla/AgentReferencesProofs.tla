----------------------- MODULE AgentReferencesProofs -----------------------
(***************************************************************************)
(* Proofs about AgentReferences for any set of ARNs, either setting of the *)
(* flag and any number of disturbances.                                    *)
(***************************************************************************)
EXTENDS AgentReferences, TLAPS

(* Resolving keeps a spec a spec and ends with one of the errors.          *)
LEMMA ResolveType ==
  ASSUME roles \in [Places -> Roles \cup {Nil}], NEW s \in RoleSpec
  PROVE  /\ Resolved(s) \in RoleSpec
         /\ ResolveError(s) \in Errors
         /\ ValidateReferenceFields(s) \in Errors
<1>1. ASSUME NEW p \in Places
      PROVE  /\ ReferencedState(roles[p]) \in Errors
             /\ ReferencedState(roles[p]) = "none" =>
                   roles[p] \in Roles /\ roles[p].arn \in Arns
  BY DEF ReferencedState, Roles, Errors
<1>2. ResolveError(s) \in Errors
  BY <1>1 DEF ResolveError, RoleSpec, Errors
<1>3. Resolved(s) \in RoleSpec
  BY <1>1 DEF Resolved, ResolveError, RoleSpec, CrossNamespaceAllowed
<1>4. ValidateReferenceFields(s) \in Errors
  BY DEF ValidateReferenceFields, Errors
<1> QED
  BY <1>2, <1>3, <1>4

(* A spec that passes validation names an ARN or refers, not both; and     *)
(* clearing gives it back as it was.                                       *)
LEMMA ClearUndoesResolve ==
  ASSUME NEW s \in RoleSpec, ValidateReferenceFields(s) = "none"
  PROVE  ClearResolvedReferences(Resolved(s)) = s
<1>1. CASE s.ref = Nil
  BY <1>1, ReferenceAssumption DEF Resolved, ClearResolvedReferences
<1>2. CASE s.ref # Nil
  <2>1. s.arn = Nil
    BY <1>2 DEF ValidateReferenceFields
  <2>2. Resolved(s).ref = s.ref
    BY DEF Resolved, RoleSpec
  <2> QED
    BY <1>2, <2>1, <2>2 DEF Resolved, ClearResolvedReferences, RoleSpec
<1> QED
  BY <1>1, <1>2

(* What resolving a valid spec yields is what that spec entitles to.       *)
LEMMA ResolveGives ==
  ASSUME TypeOK, PublishedIsKept, NEW s \in RoleSpec,
         ValidateReferenceFields(s) = "none", ResolveError(s) = "none"
  PROVE  MayHave(s, Resolved(s).arn)
<1>1. Resolved(s).arn \in Arns \cup {Nil}
  BY ResolveType DEF TypeOK, RoleSpec
<1>2. CASE s.ref \in Places
  <2>1. CrossNamespaceAllowed(s.ref) /\ ReferencedState(roles[s.ref]) = "none"
    BY <1>2, ReferenceAssumption DEF ResolveError, Places
  <2>2. <<s.ref, roles[s.ref].arn>> \in published
    BY <1>2, <2>1 DEF PublishedIsKept, Usable
  <2>3. [ref |-> s.ref, arn |-> Nil] = s
    <3>1. s.ref # Nil /\ s.arn = Nil
      BY <1>2, ReferenceAssumption DEF ValidateReferenceFields, Places
    <3> QED
      BY <3>1 DEF RoleSpec
  <2>4. Resolved(s).arn = roles[s.ref].arn
    BY <1>2, <2>1 DEF Resolved, ResolveError, RoleSpec
  <2>5. Resolved(s).arn # Nil
    BY <2>1, <2>4 DEF ReferencedState
  <2> QED
    BY <1>1, <1>2, <2>1, <2>2, <2>3, <2>4, <2>5 DEF MayHave, EntitledBy
<1>3. CASE s.ref = Nil
  <2>1. Resolved(s) = s /\ s.arn # Nil
    BY <1>3, ReferenceAssumption DEF Resolved, ValidateReferenceFields, Places
  <2>2. [ref |-> Nil, arn |-> s.arn] = s
    BY <1>3 DEF RoleSpec
  <2> QED
    BY <1>1, <2>1, <2>2 DEF MayHave, EntitledBy
<1>4. CASE s.ref = "noFrom"
  <2>1. Resolved(s) = s /\ s.arn = Nil
    BY <1>4, ReferenceAssumption DEF Resolved, ValidateReferenceFields, Places
  <2> QED
    BY <1>4, <2>1 DEF MayHave
<1>5. s.ref # "noName"
  BY DEF ResolveError, Places
<1> QED
  BY <1>2, <1>3, <1>4, <1>5 DEF RoleSpec

(* The invariant holds initially.                                          *)
LEMMA RefInit == Init => RefInv
<1> SUFFICES ASSUME Init PROVE RefInv
  OBVIOUS
<1>1. TypeOK
  BY ReferenceAssumption DEF Init, TypeOK, Blank, RoleSpec, Errors
<1>2. RoleEntitled /\ ResolutionUndone /\ SuccessHasRole /\ HeldEntitled /\ HeldIsCurrent
  BY ReferenceAssumption
  DEF Init, RoleEntitled, ResolutionUndone, SuccessHasRole, HeldEntitled, HeldIsCurrent
<1>3. PublishedIsKept
  BY DEF Init, PublishedIsKept, Usable, ReferencedState
<1> QED
  BY <1>1, <1>2, <1>3 DEF RefInv

(* Every step keeps the types.                                             *)
LEMMA RefTypeNext == TypeOK /\ [Next]_vars => TypeOK'
<1> SUFFICES ASSUME TypeOK, [Next]_vars PROVE TypeOK'
  OBVIOUS
<1> USE DEF TypeOK, Spend, Idle
<1>0. Blank \in RoleSpec
  BY DEF Blank, RoleSpec
<1>k. ASSUME NEW kind \in Kinds, Spend(kind) PROVE used' \in [Kinds -> Nat]
  BY <1>k
<1>1. CASE UserEdit
  BY <1>1, <1>k DEF UserEdit, Kinds
<1>2. CASE RoleChange
  <2> PICK p \in Places, role \in Roles \cup {Nil} :
          /\ roles' = [roles EXCEPT ![p] = role]
          /\ published' = published \cup
                (IF role # Nil /\ role.synced /\ ~role.terminal THEN {<<p, role.arn>>} ELSE {})
    BY <1>2 DEF RoleChange
  <2>1. roles' \in [Places -> Roles \cup {Nil}]
    OBVIOUS
  <2>2. published' \subseteq Places \X (Arns \cup {Nil})
    BY DEF Roles
  <2> QED
    BY <1>2, <1>k, <2>1, <2>2 DEF RoleChange, Kinds
<1>3. CASE Start
  BY <1>3 DEF Start, Errors
<1>4. CASE ResolveReferences
  BY <1>4, ResolveType DEF ResolveReferences
<1>5. CASE Sync
  BY <1>5, <1>k DEF Sync, Errors, RoleSpec, Kinds
<1>6. CASE Finish
  BY <1>6, <1>0 DEF Finish, Errors
<1>7. CASE Restart
  BY <1>7, <1>0, <1>k DEF Restart, Errors, Kinds
<1>8. CASE Resync
  BY <1>8 DEF Resync
<1>9. CASE UNCHANGED vars
  BY <1>9 DEF vars
<1> QED
  BY <1>1, <1>2, <1>3, <1>4, <1>5, <1>6, <1>7, <1>8, <1>9 DEF Next, Worker

(* Every step keeps the rest of the invariant.                             *)
LEMMA RefNext == RefInv /\ [Next]_vars => RefInv'
<1> SUFFICES ASSUME RefInv, [Next]_vars PROVE RefInv'
  OBVIOUS
<1>t. TypeOK'
  BY RefTypeNext DEF RefInv
<1> DEFINE History == RoleEntitled /\ ResolutionUndone /\ HeldEntitled
<1> DEFINE Present == SuccessHasRole /\ HeldIsCurrent
<1> SUFFICES History' /\ Present' /\ PublishedIsKept'
  BY <1>t DEF RefInv
<1> USE DEF RefInv
<1>h. written \subseteq written' /\ published \subseteq published'
  BY DEF Next, Worker, UserEdit, RoleChange, Start, ResolveReferences, Sync, Finish,
         Restart, Resync, vars
<1>p. PublishedIsKept'
  <2>1. CASE RoleChange
    <3> PICK p \in Places, role \in Roles \cup {Nil} :
            /\ roles' = [roles EXCEPT ![p] = role]
            /\ published' = published \cup
                  (IF role # Nil /\ role.synced /\ ~role.terminal THEN {<<p, role.arn>>} ELSE {})
      BY <2>1 DEF RoleChange
    <3> SUFFICES ASSUME NEW q \in Places, Usable(roles'[q])
                 PROVE  <<q, roles'[q].arn>> \in published'
      BY DEF PublishedIsKept, Usable
    <3>1. CASE q = p
      <4>1. roles'[q] = role
        BY <3>1 DEF TypeOK
      <4>2. role # Nil /\ role.synced /\ ~role.terminal
        BY <4>1 DEF Usable, ReferencedState, Roles
      <4> QED
        BY <3>1, <4>1, <4>2
    <3>2. CASE q # p
      BY <3>2, <1>h DEF PublishedIsKept, TypeOK
    <3> QED
      BY <3>1, <3>2
  <2>2. CASE UNCHANGED roles
    BY <2>2, <1>h DEF PublishedIsKept, Usable
  <2> QED
    BY <2>1, <2>2 DEF Next, Worker, UserEdit, Start, ResolveReferences, Sync, Finish,
                      Restart, Resync, vars
<1>m. ASSUME NEW s, NEW a, MayHave(s, a) PROVE MayHave(s, a)'
  BY <1>h, <1>m DEF MayHave, EntitledBy, CrossNamespaceAllowed
<1>e. Entitled \subseteq Entitled'
  BY <1>h DEF Entitled, EntitledBy, CrossNamespaceAllowed
<1> SUFFICES History' /\ Present'
  BY <1>p
<1> USE DEF RoleEntitled, ResolutionUndone, HeldEntitled, SuccessHasRole, HeldIsCurrent
<1>1. CASE UserEdit
  <2>1. History'
    BY <1>1, <1>h, <1>e DEF UserEdit, ClearResolvedReferences
  <2>2. Present'
    BY <1>1 DEF UserEdit
  <2> QED
    BY <2>1, <2>2
<1>2. CASE RoleChange
  <2>1. History'
    BY <1>2, <1>h, <1>e DEF RoleChange, ClearResolvedReferences
  <2>2. Present'
    BY <1>2, <1>m DEF RoleChange
  <2> QED
    BY <2>1, <2>2
<1>3. CASE Start
  <2>1. History'
    BY <1>3, <1>h, <1>e DEF Start
  <2>2. Present'
    BY <1>3 DEF Start
  <2> QED
    BY <2>1, <2>2
<1>4. CASE ResolveReferences
  <2>1. desired \in RoleSpec /\ desired \in written
    BY <1>4 DEF ResolveReferences, TypeOK
  <2>2. CASE err' # "none"
    <3>1. History'
      BY <1>4, <2>2, <1>h, <1>e DEF ResolveReferences
    <3>2. Present'
      BY <1>4, <2>2 DEF ResolveReferences
    <3> QED
      BY <3>1, <3>2
  <2>3. CASE err' = "none"
    <3>1. ResolveError(desired) = "none" /\ ValidateReferenceFields(desired) = "none"
      BY <1>4, <2>3 DEF ResolveReferences
    <3>2. ClearResolvedReferences(desired') \in written'
      BY <1>4, <2>1, <3>1, ClearUndoesResolve DEF ResolveReferences
    <3>3. MayHave(desired, desired'.arn)
      BY <1>4, <2>1, <3>1, ResolveGives DEF ResolveReferences
    <3>4. desired'.arn \in Entitled' \cup {Nil}
      BY <2>1, <3>3, <1>e DEF MayHave, Entitled, EntitledBy
    <3>5. History'
      BY <1>4, <1>e, <1>h, <3>2, <3>4 DEF ResolveReferences, ClearResolvedReferences
    <3>6. Present'
      BY <1>4, <2>3, <3>3, <1>m DEF ResolveReferences
    <3> QED
      BY <3>5, <3>6
  <2> QED
    BY <2>2, <2>3
<1>5. CASE Sync
  <2>1. awsRole' \in Entitled \cup {Nil, NoAgent}
    BY <1>5 DEF Sync
  <2>2. History'
    BY <1>5, <2>1, <1>e, <1>h DEF Sync, ClearResolvedReferences
  <2>3. ASSUME err' = "none" PROVE awsRole' = desired.arn
    BY <1>5, <2>3 DEF Sync
  <2>4. Present'
    BY <1>5, <2>3, <1>m DEF Sync
  <2> QED
    BY <2>2, <2>4
<1>6. CASE Finish
  BY <1>6, <1>h, <1>e DEF Finish, Idle
<1>7. CASE Restart
  BY <1>7, <1>h, <1>e DEF Restart, Idle
<1>8. CASE Resync
  <2>1. History'
    BY <1>8, <1>h, <1>e DEF Resync, ClearResolvedReferences
  <2>2. Present'
    BY <1>8 DEF Resync
  <2> QED
    BY <2>1, <2>2
<1>9. CASE UNCHANGED vars
  <2>1. History'
    BY <1>9, <1>h, <1>e DEF vars, ClearResolvedReferences
  <2>2. Present'
    BY <1>9, <1>m DEF vars
  <2> QED
    BY <2>1, <2>2
<1> QED
  BY <1>1, <1>2, <1>3, <1>4, <1>5, <1>6, <1>7, <1>8, <1>9 DEF Next, Worker

(* The inductive invariant of AgentReferences.                             *)
THEOREM RefSafe == Spec => []RefInv
  BY RefInit, RefNext, PTL DEF Spec

(* An agent only ever gets a role its CR entitled it to                    *)
(* (references.go:90-175).                                                 *)
THEOREM RolesAreEntitled == Spec => []RoleEntitled
<1>1. RefInv => RoleEntitled
  BY DEF RefInv
<1> QED
  BY <1>1, RefSafe, PTL

(* A reconciliation that succeeds leaves the agent with a role the CR of   *)
(* that time entitles it to (references.go:109-133, sdk.go:810-860).       *)
THEOREM SuccessesHaveTheirRole == Spec => []SuccessHasRole
<1>1. RefInv => SuccessHasRole
  BY DEF RefInv
<1> QED
  BY <1>1, RefSafe, PTL

(* Clearing what was resolved gives back what the user wrote               *)
(* (references.go:38-50).                                                  *)
THEOREM ResolutionIsUndone == Spec => []ResolutionUndone
<1>1. RefInv => ResolutionUndone
  BY DEF RefInv
<1> QED
  BY <1>1, RefSafe, PTL
=============================================================================
