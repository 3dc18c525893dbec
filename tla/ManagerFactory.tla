--------------------------- MODULE ManagerFactory --------------------------
(***************************************************************************)
(* The cache of resource managers, one for each account, region and role,  *)
(* and the worker threads that ask for one at the start of every           *)
(* reconciliation (pkg/resource/agent/manager_factory.go). sync.RWMutex is *)
(* modelled as Go documents it: a writer that waits keeps new readers out. *)
(***************************************************************************)
EXTENDS Naturals, FiniteSets

CONSTANTS
    Threads,        \* workers that reconcile at the same time
    RmIds,          \* account/region/role combinations
    NoThread

ASSUME FactoryAssumption ==
    IsFiniteSet(Threads) /\ NoThread \notin Threads /\ RmIds # {}

VARIABLES
    rmCache,    \* for every id the number of the cached manager, 0 when there is none
    created,    \* how many managers have been made for each id
    readers,    \* the mutex: threads that hold it for reading,
    waiting,    \*   that wait to write,
    writer,     \*   and the one that holds it for writing
    pc, rmId, rm,   \* per thread: next step, id asked for, manager found or made
    cachedBefore    \* history: the id was in the cache when the call began

mutex == <<readers, waiting, writer>>
vars == <<rmCache, created, mutex, pc, rmId, rm, cachedBefore>>

Init ==
    /\ rmCache = [i \in RmIds |-> 0]
    /\ created = [i \in RmIds |-> 0]
    /\ readers = {} /\ waiting = {} /\ writer = NoThread
    /\ pc = [t \in Threads |-> "idle"]
    /\ rmId \in [Threads -> RmIds]
    /\ rm = [t \in Threads |-> 0]
    /\ cachedBefore = [t \in Threads |-> FALSE]

Goto(t, p) == pc' = [pc EXCEPT ![t] = p]

ManagerFor(t, i) ==
    /\ pc[t] = "idle"
    /\ rmId' = [rmId EXCEPT ![t] = i]
    /\ rm' = [rm EXCEPT ![t] = 0]
    /\ cachedBefore' = [cachedBefore EXCEPT ![t] = rmCache[i] # 0]
    /\ Goto(t, "rlock")
    /\ UNCHANGED <<rmCache, created, mutex>>

(* Mutant of RLock: the map is read without the mutex.                     *)
RLockNone(t) ==
    /\ pc[t] = "rlock"
    /\ Goto(t, "lookup")
    /\ UNCHANGED <<rmCache, created, mutex, rmId, rm, cachedBefore>>

RLock(t) ==
    /\ pc[t] = "rlock"
    /\ writer = NoThread /\ waiting = {}
    /\ readers' = readers \cup {t}
    /\ Goto(t, "lookup")
    /\ UNCHANGED <<rmCache, created, waiting, writer, rmId, rm, cachedBefore>>

Lookup(t) ==
    /\ pc[t] = "lookup"
    /\ rm' = [rm EXCEPT ![t] = rmCache[rmId[t]]]
    /\ Goto(t, "runlock")
    /\ UNCHANGED <<rmCache, created, mutex, rmId, cachedBefore>>

(* Mutant of RUnlock: the read lock is not given back after a miss.        *)
RUnlockOnHit(t) ==
    /\ pc[t] = "runlock"
    /\ readers' = IF rm[t] # 0 THEN readers \ {t} ELSE readers
    /\ Goto(t, IF rm[t] # 0 THEN "idle" ELSE "lock")
    /\ UNCHANGED <<rmCache, created, waiting, writer, rmId, rm, cachedBefore>>

RUnlock(t) ==
    /\ pc[t] = "runlock"
    /\ readers' = readers \ {t}
    /\ Goto(t, IF rm[t] # 0 THEN "idle" ELSE "lock")
    /\ UNCHANGED <<rmCache, created, waiting, writer, rmId, rm, cachedBefore>>

(* Lock announces the writer, then waits for readers and other writers.    *)
Lock(t) ==
    /\ pc[t] = "lock"
    /\ waiting' = waiting \cup {t}
    /\ Goto(t, "acquire")
    /\ UNCHANGED <<rmCache, created, readers, writer, rmId, rm, cachedBefore>>

Acquire(t) ==
    /\ pc[t] = "acquire"
    /\ writer = NoThread /\ readers = {}
    /\ writer' = t
    /\ waiting' = waiting \ {t}
    /\ Goto(t, "create")
    /\ UNCHANGED <<rmCache, created, readers, rmId, rm, cachedBefore>>

(* Mutants of NewResourceManager: the new manager replaces the whole map,  *)
(* or is not put into it.                                                  *)
NewResourceManagerOnly(t) ==
    /\ pc[t] = "create"
    /\ created' = [created EXCEPT ![rmId[t]] = @ + 1]
    /\ rm' = [rm EXCEPT ![t] = created'[rmId[t]]]
    /\ rmCache' = [i \in RmIds |-> IF i = rmId[t] THEN rm'[t] ELSE 0]
    /\ Goto(t, "unlock")
    /\ UNCHANGED <<mutex, rmId, cachedBefore>>
NewResourceManagerUncached(t) ==
    /\ pc[t] = "create"
    /\ created' = [created EXCEPT ![rmId[t]] = @ + 1]
    /\ rm' = [rm EXCEPT ![t] = created'[rmId[t]]]
    /\ Goto(t, "unlock")
    /\ UNCHANGED <<rmCache, mutex, rmId, cachedBefore>>

NewResourceManager(t) ==
    /\ pc[t] = "create"
    /\ created' = [created EXCEPT ![rmId[t]] = @ + 1]
    /\ rm' = [rm EXCEPT ![t] = created'[rmId[t]]]
    /\ rmCache' = [rmCache EXCEPT ![rmId[t]] = rm'[t]]
    /\ Goto(t, "unlock")
    /\ UNCHANGED <<mutex, rmId, cachedBefore>>

Unlock(t) ==
    /\ pc[t] = "unlock"
    /\ writer' = NoThread
    /\ Goto(t, "idle")
    /\ UNCHANGED <<rmCache, created, readers, waiting, rmId, rm, cachedBefore>>

Step(t) ==
    \/ RLock(t) \/ Lookup(t) \/ RUnlock(t)
    \/ Lock(t) \/ Acquire(t) \/ NewResourceManager(t) \/ Unlock(t)

Next == \E t \in Threads : Step(t) \/ \E i \in RmIds : ManagerFor(t, i)

Spec == Init /\ [][Next]_vars

(* The Go scheduler runs every thread that can run.                        *)
FairSpec == Spec /\ \A t \in Threads : WF_vars(Step(t))

-----------------------------------------------------------------------------
(* Every variable has its type, and pc agrees with the mutex.              *)
TypeOK ==
    /\ rmCache \in [RmIds -> Nat] /\ created \in [RmIds -> Nat]
    /\ readers \subseteq Threads /\ waiting \subseteq Threads
    /\ writer \in Threads \cup {NoThread}
    /\ pc \in [Threads -> {"idle", "rlock", "lookup", "runlock", "lock", "acquire",
                           "create", "unlock"}]
    /\ rmId \in [Threads -> RmIds] /\ rm \in [Threads -> Nat]
    /\ cachedBefore \in [Threads -> BOOLEAN]
    /\ readers = {t \in Threads : pc[t] \in {"lookup", "runlock"}}
    /\ waiting = {t \in Threads : pc[t] = "acquire"}
    /\ \A t \in Threads : writer = t <=> pc[t] \in {"create", "unlock"}

(* Nobody reads or writes the map while it is being written: a Go map does *)
(* not survive that (manager_factory.go:62-78).                            *)
MapExclusive ==
    \A t, u \in Threads :
        t # u /\ pc[t] = "create" => pc[u] \notin {"lookup", "create"}

(* A call that begins when its manager is in the cache gets it from there: *)
(* whatever the other threads do meanwhile, it makes none.                 *)
CachedIsUsed ==
    \A t \in Threads :
        cachedBefore[t] => pc[t] \in {"idle", "rlock", "lookup", "runlock"}

(* However the calls interleave, there are never more managers for an id   *)
(* than threads: only calls that began before the first was cached make    *)
(* one.                                                                    *)
FewManagers == \A i \in RmIds : created[i] <= Cardinality(Threads)

(* The inductive invariant: readers and a writer exclude each other, and   *)
(* the cache entry a call has seen stays.                                  *)
FactoryInv ==
    /\ TypeOK
    /\ readers # {} => writer = NoThread
    /\ \A t \in Threads :
          /\ cachedBefore[t] /\ pc[t] # "idle" => rmCache[rmId[t]] # 0
          /\ cachedBefore[t] /\ pc[t] = "runlock" => rm[t] # 0
    /\ CachedIsUsed

(* The threads that have looked in vain and are going to make a manager.   *)
Missed(i) ==
    {t \in Threads : rmId[t] = i /\ \/ pc[t] = "runlock" /\ rm[t] = 0
                                    \/ pc[t] \in {"lock", "acquire", "create"}}

(* The inductive invariant for their number: once there is a manager no    *)
(* thread looks in vain any more.                                          *)
CountInv ==
    /\ FactoryInv
    /\ rmCache = created
    /\ \A i \in RmIds : created[i] + Cardinality(Missed(i)) <= Cardinality(Threads)

(* Multiple managers for the same id are avoided (manager_factory.go:58).  *)
OneManager == \A i \in RmIds : created[i] <= 1

(* Every call returns.                                                     *)
CallsReturn == \A t \in Threads : pc[t] # "idle" ~> pc[t] = "idle"
=============================================================================
