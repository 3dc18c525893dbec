------------------------ MODULE ManagerFactoryProofs -----------------------
(***************************************************************************)
(* Proofs about ManagerFactory for any number of threads and accounts.     *)
(***************************************************************************)
EXTENDS ManagerFactory, FiniteSetTheorems, TLAPS

(* The invariant holds initially.                                          *)
LEMMA FactoryInit == Init => FactoryInv
  BY FactoryAssumption DEF Init, FactoryInv, TypeOK, CachedIsUsed

(* Every step keeps the types and the agreement of pc with the mutex.      *)
LEMMA FactoryTypeNext == FactoryInv /\ [Next]_vars => TypeOK'
<1> SUFFICES ASSUME FactoryInv, [Next]_vars PROVE TypeOK'
  OBVIOUS
<1> USE FactoryAssumption DEF FactoryInv, TypeOK, mutex, Goto
<1>1. ASSUME NEW t \in Threads, NEW i \in RmIds, ManagerFor(t, i) PROVE TypeOK'
  BY <1>1 DEF ManagerFor
<1>2. ASSUME NEW t \in Threads, RLock(t) PROVE TypeOK'
  BY <1>2 DEF RLock
<1>3. ASSUME NEW t \in Threads, Lookup(t) PROVE TypeOK'
  BY <1>3 DEF Lookup
<1>4. ASSUME NEW t \in Threads, RUnlock(t) PROVE TypeOK'
  BY <1>4 DEF RUnlock
<1>5. ASSUME NEW t \in Threads, Lock(t) PROVE TypeOK'
  BY <1>5 DEF Lock
<1>6. ASSUME NEW t \in Threads, Acquire(t) PROVE TypeOK'
  BY <1>6 DEF Acquire
<1>7. ASSUME NEW t \in Threads, NewResourceManager(t) PROVE TypeOK'
  BY <1>7 DEF NewResourceManager
<1>8. ASSUME NEW t \in Threads, Unlock(t) PROVE TypeOK'
  BY <1>8 DEF Unlock
<1>9. CASE UNCHANGED vars
  BY <1>9 DEF vars
<1> QED
  BY <1>1, <1>2, <1>3, <1>4, <1>5, <1>6, <1>7, <1>8, <1>9 DEF Next, Step

(* Every step keeps the rest of the invariant.                             *)
LEMMA FactoryNext == FactoryInv /\ [Next]_vars => FactoryInv'
<1> SUFFICES ASSUME FactoryInv, [Next]_vars PROVE FactoryInv'
  OBVIOUS
<1> TypeOK'
  BY FactoryTypeNext
<1> USE FactoryAssumption DEF FactoryInv, TypeOK, mutex, Goto, CachedIsUsed
<1>1. ASSUME NEW t \in Threads, NEW i \in RmIds, ManagerFor(t, i) PROVE FactoryInv'
  <2>1. /\ pc[t] = "idle" /\ pc' = [pc EXCEPT ![t] = "rlock"]
        /\ rmId' = [rmId EXCEPT ![t] = i] /\ rm' = [rm EXCEPT ![t] = 0]
        /\ cachedBefore' = [cachedBefore EXCEPT ![t] = rmCache[i] # 0]
        /\ UNCHANGED <<rmCache, readers, writer>>
    BY <1>1 DEF ManagerFor
  <2>2. ASSUME NEW u \in Threads
        PROVE  /\ cachedBefore'[u] /\ pc'[u] # "idle" => rmCache'[rmId'[u]] # 0
               /\ cachedBefore'[u] /\ pc'[u] = "runlock" => rm'[u] # 0
               /\ cachedBefore'[u] => pc'[u] \in {"idle", "rlock", "lookup", "runlock"}
    <3>1. CASE u = t
      BY <2>1, <3>1
    <3>2. CASE u # t
      BY <2>1, <3>2
    <3> QED
      BY <3>1, <3>2
  <2>3. readers' # {} => writer' = NoThread
    BY <2>1
  <2> QED
    BY <2>2, <2>3
<1>2. ASSUME NEW t \in Threads, RLock(t) PROVE FactoryInv'
  BY <1>2 DEF RLock
<1>3. ASSUME NEW t \in Threads, Lookup(t) PROVE FactoryInv'
  BY <1>3 DEF Lookup
<1>4. ASSUME NEW t \in Threads, RUnlock(t) PROVE FactoryInv'
  BY <1>4 DEF RUnlock
<1>5. ASSUME NEW t \in Threads, Lock(t) PROVE FactoryInv'
  BY <1>5 DEF Lock
<1>6. ASSUME NEW t \in Threads, Acquire(t) PROVE FactoryInv'
  BY <1>6 DEF Acquire
<1>7. ASSUME NEW t \in Threads, NewResourceManager(t) PROVE FactoryInv'
  BY <1>7 DEF NewResourceManager
<1>8. ASSUME NEW t \in Threads, Unlock(t) PROVE FactoryInv'
  BY <1>8 DEF Unlock
<1>9. CASE UNCHANGED vars
  BY <1>9 DEF vars
<1> QED
  BY <1>1, <1>2, <1>3, <1>4, <1>5, <1>6, <1>7, <1>8, <1>9 DEF Next, Step

(* Every reachable state satisfies the inductive invariant.                *)
THEOREM FactorySafe == Spec => []FactoryInv
<1>1. FactoryInv /\ [Next]_vars => FactoryInv'
  BY FactoryNext
<1> QED
  BY FactoryInit, <1>1, PTL DEF Spec

(* The map is never read or written while it is being written.             *)
THEOREM MapIsExclusive == Spec => []MapExclusive
<1>1. FactoryInv => MapExclusive
  BY FactoryAssumption DEF FactoryInv, TypeOK, MapExclusive
<1> QED
  BY FactorySafe, <1>1, PTL

(* A call that begins when its manager is cached never makes another.      *)
THEOREM CacheIsUsed == Spec => []CachedIsUsed
<1>1. FactoryInv => CachedIsUsed
  BY DEF FactoryInv
<1> QED
  BY FactorySafe, <1>1, PTL

(* Every variable has its type.                                            *)
THEOREM FactoryTypes == Spec => []TypeOK
<1>1. FactoryInv => TypeOK
  BY DEF FactoryInv
<1> QED
  BY FactorySafe, <1>1, PTL

-----------------------------------------------------------------------------
(* The number of managers.                                                 *)

(* The threads of Missed can be counted.                                   *)
LEMMA MissedCount ==
    ASSUME NEW i
    PROVE  /\ IsFiniteSet(Missed(i)) /\ Cardinality(Missed(i)) \in Nat
           /\ Cardinality(Threads) \in Nat
           /\ Cardinality(Missed(i)) <= Cardinality(Threads)
<1>1. Missed(i) \subseteq Threads
  BY DEF Missed
<1> QED
  BY <1>1, FactoryAssumption, FS_Subset, FS_CardinalityType

(* The threads of Missed are counted in the next state, too.               *)
LEMMA MissedCountNext ==
    ASSUME NEW i
    PROVE  /\ IsFiniteSet(Missed(i)') /\ Cardinality(Missed(i)') \in Nat
           /\ Cardinality(Missed(i)') <= Cardinality(Threads)
<1>1. Missed(i)' \subseteq Threads
  BY DEF Missed
<1> QED
  BY <1>1, FactoryAssumption, FS_Subset, FS_CardinalityType

(* At the start nothing is cached and no thread has missed.                *)
LEMMA CountInit == Init => CountInv
<1> SUFFICES ASSUME Init PROVE CountInv
  OBVIOUS
<1>1. FactoryInv /\ rmCache = created
  BY FactoryInit DEF Init
<1>2. ASSUME NEW i \in RmIds
      PROVE  created[i] + Cardinality(Missed(i)) <= Cardinality(Threads)
  <2>1. created[i] = 0
    BY DEF Init
  <2> QED
    BY <2>1, MissedCount
<1> QED
  BY <1>1, <1>2 DEF CountInv

(* A step that makes no manager and misses none but in an empty cache.     *)
LEMMA CountNext == CountInv /\ [Next]_vars => CountInv'
<1> SUFFICES ASSUME CountInv, [Next]_vars PROVE CountInv'
  OBVIOUS
<1>1. FactoryInv'
  BY FactoryNext DEF CountInv
<1> USE FactoryAssumption DEF CountInv, FactoryInv, TypeOK, mutex, Goto
<1>2. ASSUME rmCache' = rmCache, created' = created,
             \A i \in RmIds : Missed(i)' \subseteq Missed(i) \/ created[i] = 0
      PROVE  CountInv'
  <2>1. ASSUME NEW i \in RmIds
        PROVE  created'[i] + Cardinality(Missed(i)') <= Cardinality(Threads)
    <3>1. CASE created[i] = 0
      BY <1>2, <3>1, MissedCountNext
    <3>2. CASE Missed(i)' \subseteq Missed(i)
      <4>1. Cardinality(Missed(i)') <= Cardinality(Missed(i))
        BY <3>2, MissedCount, FS_Subset
      <4> QED
        BY <1>2, <4>1, MissedCount, MissedCountNext
    <3> QED
      BY <1>2, <3>1, <3>2
  <2> QED
    BY <1>1, <1>2, <2>1
<1>3. ASSUME NEW t \in Threads, NEW i \in RmIds, ManagerFor(t, i) PROVE CountInv'
  <2>1. \A j \in RmIds : Missed(j)' \subseteq Missed(j)
    BY <1>3 DEF ManagerFor, Missed
  <2> QED
    BY <1>2, <1>3, <2>1 DEF ManagerFor
<1>4. ASSUME NEW t \in Threads, RLock(t) PROVE CountInv'
  <2>1. \A j \in RmIds : Missed(j)' \subseteq Missed(j)
    BY <1>4 DEF RLock, Missed
  <2> QED
    BY <1>2, <1>4, <2>1 DEF RLock
<1>5. ASSUME NEW t \in Threads, Lookup(t) PROVE CountInv'
  <2>1. ASSUME NEW j \in RmIds, created[j] # 0
        PROVE  Missed(j)' \subseteq Missed(j)
    BY <1>5, <2>1 DEF Lookup, Missed
  <2> QED
    BY <1>2, <1>5, <2>1 DEF Lookup
<1>6. ASSUME NEW t \in Threads, RUnlock(t) PROVE CountInv'
  <2>1. \A j \in RmIds : Missed(j)' \subseteq Missed(j)
    BY <1>6 DEF RUnlock, Missed
  <2> QED
    BY <1>2, <1>6, <2>1 DEF RUnlock
<1>7. ASSUME NEW t \in Threads, Lock(t) PROVE CountInv'
  <2>1. \A j \in RmIds : Missed(j)' \subseteq Missed(j)
    BY <1>7 DEF Lock, Missed
  <2> QED
    BY <1>2, <1>7, <2>1 DEF Lock
<1>8. ASSUME NEW t \in Threads, Acquire(t) PROVE CountInv'
  <2>1. \A j \in RmIds : Missed(j)' \subseteq Missed(j)
    BY <1>8 DEF Acquire, Missed
  <2> QED
    BY <1>2, <1>8, <2>1 DEF Acquire
<1>9. ASSUME NEW t \in Threads, NewResourceManager(t) PROVE CountInv'
  <2>1. rmCache' = created'
    BY <1>9 DEF NewResourceManager
  <2>2. ASSUME NEW j \in RmIds
        PROVE  created'[j] + Cardinality(Missed(j)') <= Cardinality(Threads)
    <3>1. CASE j = rmId[t]
      <4>1. t \in Missed(j) /\ Missed(j)' \subseteq Missed(j) \ {t}
        BY <1>9, <3>1 DEF NewResourceManager, Missed
      <4>2. /\ Cardinality(Missed(j) \ {t}) = Cardinality(Missed(j)) - 1
            /\ IsFiniteSet(Missed(j) \ {t})
        BY <4>1, MissedCount, FS_RemoveElement
      <4>3. Cardinality(Missed(j)') <= Cardinality(Missed(j)) - 1
        BY <4>1, <4>2, FS_Subset
      <4>4. created'[j] = created[j] + 1
        BY <1>9, <3>1 DEF NewResourceManager
      <4> QED
        BY <4>3, <4>4, MissedCount, MissedCountNext
    <3>2. CASE j # rmId[t]
      <4>1. Missed(j)' \subseteq Missed(j) /\ created'[j] = created[j]
        BY <1>9, <3>2 DEF NewResourceManager, Missed
      <4>2. Cardinality(Missed(j)') <= Cardinality(Missed(j))
        BY <4>1, MissedCount, FS_Subset
      <4> QED
        BY <4>1, <4>2, MissedCount, MissedCountNext
    <3> QED
      BY <3>1, <3>2
  <2> QED
    BY <1>1, <2>1, <2>2
<1>10. ASSUME NEW t \in Threads, Unlock(t) PROVE CountInv'
  <2>1. \A j \in RmIds : Missed(j)' \subseteq Missed(j)
    BY <1>10 DEF Unlock, Missed
  <2> QED
    BY <1>2, <1>10, <2>1 DEF Unlock
<1>11. CASE UNCHANGED vars
  <2>1. \A j \in RmIds : Missed(j)' \subseteq Missed(j)
    BY <1>11 DEF vars, Missed
  <2> QED
    BY <1>2, <1>11, <2>1 DEF vars
<1> QED
  BY <1>3, <1>4, <1>5, <1>6, <1>7, <1>8, <1>9, <1>10, <1>11 DEF Next, Step

(* Every reachable state satisfies the invariant for the number.           *)
THEOREM ManagersCounted == Spec => []CountInv
<1>1. CountInv /\ [Next]_vars => CountInv'
  BY CountNext
<1> QED
  BY CountInit, <1>1, PTL DEF Spec

(* However the calls interleave, there are never more managers for an id   *)
(* than threads (manager_factory.go ManagerFor).                           *)
THEOREM ManagersAreFew == Spec => []FewManagers
<1>1. CountInv => FewManagers
  <2> SUFFICES ASSUME CountInv, NEW i \in RmIds
               PROVE  created[i] <= Cardinality(Threads)
    BY DEF FewManagers
  <2>1. created[i] \in Nat /\ created[i] + Cardinality(Missed(i)) <= Cardinality(Threads)
    BY DEF CountInv, FactoryInv, TypeOK
  <2> QED
    BY <2>1, MissedCount
<1> QED
  BY ManagersCounted, <1>1, PTL
=============================================================================
