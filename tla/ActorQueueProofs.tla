-------------------------- MODULE ActorQueueProofs --------------------------
(***************************************************************************)
(* Theorems about ActorQueue, for every number of threads, actors, lock    *)
(* objects and claims.                                                     *)
(***************************************************************************)
EXTENDS ActorQueue, FiniteSetTheorems, TLAPS

(* Dropping the table entry never splits an actor between two locks: all
   threads that use an actor, however their claims overlap the removal in
   lines 35-39, hold the lock that is in the table now.                    *)
OneLockPerActor ==
    \A t \in Threads :
        pc[t] # "outside" => /\ myKey[t] \in Keys
                             /\ lockByActor[myKey[t]] = myLock[t]
                             /\ myLock[t] # NoLock

(* While a thread waits, the lock it waits for is free or is held by a
   thread that is inside the claim of the same actor.                      *)
OwnerIsInside ==
    \A l \in Locks : owner[l] # NoThread =>
        /\ pc[owner[l]] = "inside"
        /\ myLock[owner[l]] = l

(* A thread inside the body of claim owns the lock it was handed. *)
InsideOwnsLock ==
    \A t \in Threads : pc[t] = "inside" => owner[myLock[t]] = t

(* The inductive invariant.  MutualExclusion alone is not inductive: it needs
   that the lock in the table is the one every user was handed, which in turn
   needs the exact reference count.                                        *)
IInv ==
    /\ TypeOK
    /\ OneLockPerActor
    /\ CountIsExact
    /\ InsideOwnsLock
    /\ OwnerIsInside

-----------------------------------------------------------------------------
(* Adding a thread to, or removing it from, the users of an actor changes the
   number of its users by one (lines 29 and 36 of actor_queue.py).         *)
LEMMA CountUsers ==
    ASSUME NEW S, NEW T, NEW t, IsFiniteSet(S)
    PROVE  /\ t \notin S /\ T = S \cup {t} => Cardinality(T) = Cardinality(S) + 1
           /\ t \in S /\ T = S \ {t} => Cardinality(T) = Cardinality(S) - 1
<1>1. ASSUME t \notin S, T = S \cup {t}
      PROVE  Cardinality(T) = Cardinality(S) + 1
  BY <1>1, FS_AddElement
<1>2. ASSUME t \in S, T = S \ {t}
      PROVE  Cardinality(T) = Cardinality(S) - 1
  BY <1>2, FS_RemoveElement
<1> QED
  BY <1>1, <1>2

(* The users of an actor are finitely many. *)
LEMMA UsersFinite == \A k \in Keys : IsFiniteSet(Users(k))
  BY ActorQueueAssumptions, FS_Subset DEF Users

-----------------------------------------------------------------------------
(* The empty tables of SessionActorQueue.__init__ satisfy the invariant. *)
LEMMA InitIInv == Init => IInv
<1> SUFFICES ASSUME Init PROVE IInv
  OBVIOUS
<1>1. \A k \in Keys : Users(k) = {}
  BY DEF Init, Users
<1>2. CountIsExact
  BY <1>1, FS_EmptySet DEF CountIsExact, Init
<1> QED
  BY <1>2, ActorQueueAssumptions
  DEF Init, IInv, TypeOK, OneLockPerActor, InsideOwnsLock,
      OwnerIsInside

(* The first critical section of claim (lines 24-29). *)
LEMMA RegisterIInv ==
    ASSUME IInv, NEW t \in Threads, NEW k \in Keys, Register(t, k)
    PROVE  IInv'
<1> USE ActorQueueAssumptions
<1>1. PICK l \in Locks :
        /\ LockFor(k, l)
        /\ lockByActor' = [lockByActor EXCEPT ![k] = l]
        /\ myLock' = [myLock EXCEPT ![t] = l]
  BY DEF Register
<1>2. /\ pc[t] = "outside"
      /\ pc' = [pc EXCEPT ![t] = "waiting"]
      /\ myKey' = [myKey EXCEPT ![t] = k]
      /\ pendingByActor' = [pendingByActor EXCEPT ![k] = @ + 1]
      /\ owner' = owner
  BY DEF Register
<1>3. TypeOK'
  BY <1>1, <1>2 DEF IInv, TypeOK, Register
<1>4. OneLockPerActor'
  BY <1>1, <1>2, <1>3 DEF IInv, TypeOK, OneLockPerActor, LockFor
<1>5. InsideOwnsLock' /\ OwnerIsInside'
  BY <1>1, <1>2 DEF IInv, TypeOK, InsideOwnsLock, OwnerIsInside
<1>6. CountIsExact'
  <2> SUFFICES ASSUME NEW j \in Keys
               PROVE  /\ pendingByActor'[j] = Cardinality(Users(j)')
                      /\ lockByActor'[j] = NoLock <=> Users(j)' = {}
    BY DEF CountIsExact
  <2>1. CASE j = k
    <3>1. t \notin Users(j) /\ Users(j)' = Users(j) \cup {t}
      BY <1>2, <2>1 DEF IInv, TypeOK, Users
    <3>2. Cardinality(Users(j)') = Cardinality(Users(j)) + 1
      BY <3>1, CountUsers, UsersFinite
    <3> QED
      BY <1>1, <1>2, <2>1, <3>1, <3>2 DEF IInv, TypeOK, CountIsExact
  <2>2. CASE j # k
    <3>1. Users(j)' = Users(j)
      BY <1>2, <2>2 DEF IInv, TypeOK, Users
    <3> QED
      BY <1>1, <1>2, <2>2, <3>1 DEF IInv, TypeOK, CountIsExact
  <2> QED
    BY <2>1, <2>2
<1> QED
  BY <1>3, <1>4, <1>5, <1>6 DEF IInv

(* lock.acquire() and lock.release() (lines 30 and 34): the tables and the
   set of users do not change.                                             *)
LEMMA LockStepIInv ==
    ASSUME IInv, NEW t \in Threads, Acquire(t) \/ Release(t)
    PROVE  IInv'
<1> USE ActorQueueAssumptions
<1>1. /\ pc[t] # "outside"
      /\ pc' \in [Threads -> {"outside", "waiting", "inside", "leaving"}]
      /\ \A u \in Threads : pc'[u] = "outside" <=> pc[u] = "outside"
      /\ UNCHANGED <<lockByActor, pendingByActor, myKey, myLock, claims>>
  BY DEF IInv, TypeOK, Acquire, Release
<1>2. \A k \in Keys : Users(k)' = Users(k)
  BY <1>1 DEF Users
<1>3. TypeOK'
  BY <1>1 DEF IInv, TypeOK, Acquire, Release, OneLockPerActor
<1>4. OneLockPerActor'
  BY <1>1 DEF IInv, OneLockPerActor
<1>5. CountIsExact'
  BY <1>1, <1>2 DEF IInv, CountIsExact
<1>6. InsideOwnsLock'
  <2>1. CASE Acquire(t)
    BY <1>1, <2>1 DEF IInv, TypeOK, OneLockPerActor, InsideOwnsLock, Acquire
  <2>2. CASE Release(t)
    BY <1>1, <2>2 DEF IInv, TypeOK, OneLockPerActor, InsideOwnsLock, Release
  <2> QED
    BY <2>1, <2>2
<1>7. OwnerIsInside'
  <2>1. CASE Acquire(t)
    BY <1>1, <2>1 DEF IInv, TypeOK, OneLockPerActor, OwnerIsInside, Acquire
  <2>2. CASE Release(t)
    BY <1>1, <2>2 DEF IInv, TypeOK, OneLockPerActor, OwnerIsInside,
                      InsideOwnsLock, Release
  <2> QED
    BY <2>1, <2>2
<1> QED
  BY <1>3, <1>4, <1>5, <1>6, <1>7 DEF IInv

(* The second critical section (lines 35-41): the entry is dropped exactly
   when the last user leaves.                                              *)
LEMMA DeregisterIInv ==
    ASSUME IInv, NEW t \in Threads, Deregister(t)
    PROVE  IInv'
<1> USE ActorQueueAssumptions
<1>0. PICK k \in Keys : k = myKey[t]
  BY DEF IInv, OneLockPerActor, Deregister
<1>1. /\ k = myKey[t]
      /\ pc[t] = "leaving"
      /\ pc' = [pc EXCEPT ![t] = "outside"]
      /\ myKey' = [myKey EXCEPT ![t] = NoKey]
      /\ myLock' = [myLock EXCEPT ![t] = NoLock]
      /\ owner' = owner
      /\ claims' = claims
  BY <1>0 DEF Deregister
<1>2. t \in Users(k) /\ Users(k)' = Users(k) \ {t}
  BY <1>1 DEF IInv, TypeOK, Users
<1>3. Cardinality(Users(k)') = Cardinality(Users(k)) - 1
  BY <1>1, <1>2, CountUsers, UsersFinite
<1>4. \A j \in Keys : j # k => Users(j)' = Users(j)
  BY <1>1 DEF IInv, TypeOK, Users
<1>5. Cardinality(Users(k)) \in Nat /\ Cardinality(Users(k)) # 0
  BY <1>1, <1>2, UsersFinite, FS_CardinalityType, FS_EmptySet
<1>6. PendingAfter(k) = Cardinality(Users(k)')
  BY <1>1, <1>3, <1>5 DEF IInv, CountIsExact, PendingAfter
<1>7. PendingAfter(k) = 0 <=> Users(k)' = {}
  <2>1. IsFiniteSet(Users(k)')
    BY <1>1, <1>2, UsersFinite, FS_Subset
  <2> QED
    BY <1>6, <2>1, FS_EmptySet
<1>8. /\ pendingByActor' = [pendingByActor EXCEPT ![k] = PendingAfter(k)]
      /\ lockByActor' = IF Users(k)' = {}
                          THEN [lockByActor EXCEPT ![k] = NoLock]
                          ELSE lockByActor
  <2>1. PendingAfter(k) <= 0 <=> Users(k)' = {}
    BY <1>3, <1>5, <1>6, <1>7
  <2>2. PendingAfter(myKey[t]) = PendingAfter(k)
    BY <1>0 DEF PendingAfter
  <2> QED
    BY <1>0, <2>1, <2>2 DEF Deregister
<1>9. TypeOK'
  BY <1>1, <1>3, <1>5, <1>6, <1>8 DEF IInv, TypeOK
<1>10. OneLockPerActor'
  <2> SUFFICES ASSUME NEW u \in Threads, pc'[u] # "outside"
               PROVE  /\ myKey'[u] \in Keys
                      /\ lockByActor'[myKey'[u]] = myLock'[u]
                      /\ myLock'[u] # NoLock
    BY DEF OneLockPerActor
  <2>1. u # t /\ pc[u] # "outside" /\ myKey'[u] = myKey[u] /\ myLock'[u] = myLock[u]
    BY <1>1 DEF IInv, TypeOK
  <2>2. myKey[u] \in Keys /\ lockByActor[myKey[u]] = myLock[u] /\ myLock[u] # NoLock
    BY <2>1 DEF IInv, OneLockPerActor
  <2>3. myKey[u] = k => Users(k)' # {}
    BY <1>1, <2>1 DEF Users
  <2> QED
    BY <1>8, <2>1, <2>2, <2>3 DEF IInv, TypeOK
<1>11. InsideOwnsLock' /\ OwnerIsInside'
  BY <1>1 DEF IInv, TypeOK, InsideOwnsLock, OwnerIsInside
<1>12. CountIsExact'
  <2> SUFFICES ASSUME NEW j \in Keys
               PROVE  /\ pendingByActor'[j] = Cardinality(Users(j)')
                      /\ lockByActor'[j] = NoLock <=> Users(j)' = {}
    BY DEF CountIsExact
  <2>1. CASE j = k
    BY <1>1, <1>2, <1>6, <1>8, <2>1 DEF IInv, TypeOK, CountIsExact
  <2>2. CASE j # k
    BY <1>1, <1>4, <1>8, <2>2 DEF IInv, TypeOK, CountIsExact
  <2> QED
    BY <2>1, <2>2
<1> QED
  BY <1>9, <1>10, <1>11, <1>12 DEF IInv

(* Each section of claim keeps the invariant. *)
LEMMA NextIInv == IInv /\ [Next]_vars => IInv'
<1> SUFFICES ASSUME IInv, [Next]_vars PROVE IInv'
  OBVIOUS
<1>1. ASSUME NEW t \in Threads, NEW k \in Keys, Register(t, k) PROVE IInv'
  BY <1>1, RegisterIInv
<1>2. ASSUME NEW t \in Threads, Acquire(t) \/ Release(t) PROVE IInv'
  BY <1>2, LockStepIInv
<1>3. ASSUME NEW t \in Threads, Deregister(t) PROVE IInv'
  BY <1>3, DeregisterIInv
<1>4. CASE UNCHANGED vars
  <2>1. \A k \in Keys : Users(k)' = Users(k)
    BY <1>4 DEF vars, Users
  <2> QED
    BY <1>4, <2>1
    DEF vars, IInv, TypeOK, OneLockPerActor, CountIsExact,
        InsideOwnsLock, OwnerIsInside
<1> QED
  BY <1>1, <1>2, <1>3, <1>4 DEF Next, Finished

(* The tables of SessionActorQueue, the lock objects and the threads in claim
   agree in every reachable state: IInv is an invariant.                   *)
THEOREM Invariance == Spec => []IInv
  BY InitIInv, NextIInv, PTL DEF Spec

-----------------------------------------------------------------------------
(* claim serialises the turns of an actor: whatever the interleaving of
   registrations, removals and recycled lock objects, two threads are never
   inside the body of claim for the same actor key.                        *)
THEOREM MutualExclusionHolds == Spec => []MutualExclusion
<1>1. IInv => MutualExclusion
  BY DEF IInv, OneLockPerActor, InsideOwnsLock, MutualExclusion
<1> QED
  BY <1>1, Invariance, PTL

(* The reference count equals the number of users, and an actor is in the
   table exactly while somebody uses it.                                   *)
THEOREM CountIsExactHolds == Spec => []CountIsExact
<1>1. IInv => CountIsExact
  BY DEF IInv
<1> QED
  BY <1>1, Invariance, PTL

(* The fields of SessionActorQueue and of its callers keep their types. *)
THEOREM TypeCorrect == Spec => []TypeOK
<1>1. IInv => TypeOK
  BY DEF IInv
<1> QED
  BY <1>1, Invariance, PTL

(* A step of the queue is a step of ActorLock or leaves it alone. *)
LEMMA StepSimulation ==
    ASSUME IInv, IInv', [Next]_vars
    PROVE  [Abstract!Next]_insideActor
<1> USE ActorQueueAssumptions
<1>1. ASSUME NEW t \in Threads, NEW k \in Keys, Register(t, k)
      PROVE  insideActor' = insideActor
  BY <1>1 DEF IInv, TypeOK, Register, insideActor
<1>2. ASSUME NEW t \in Threads, Deregister(t)
      PROVE  insideActor' = insideActor
  BY <1>2 DEF IInv, TypeOK, Deregister, insideActor
<1>3. ASSUME NEW t \in Threads, Acquire(t)
      PROVE  \E k \in Keys : Abstract!Enter(t, k)
  <2>0. PICK k \in Keys : k = myKey[t]
    BY <1>3 DEF IInv, OneLockPerActor, Acquire
  <2>1. k = myKey[t] /\ pc[t] = "waiting" /\ pc'[t] = "inside" /\ myKey' = myKey
    BY <1>3, <2>0 DEF IInv, TypeOK, Acquire
  <2>2. insideActor[t] = NoKey
    BY <2>1 DEF insideActor
  <2>3. ASSUME NEW u \in Threads PROVE insideActor[u] # k
    <3>1. ASSUME pc[u] = "inside" PROVE myKey[u] # k
      BY <1>3, <2>1, <3>1 DEF IInv, TypeOK, OneLockPerActor, InsideOwnsLock, Acquire
    <3> QED
      BY <2>1, <3>1 DEF insideActor
  <2>4. insideActor' = [insideActor EXCEPT ![t] = k]
    BY <1>3, <2>1 DEF IInv, TypeOK, Acquire, insideActor
  <2> QED
    BY <2>1, <2>2, <2>3, <2>4 DEF Abstract!Enter
<1>4. ASSUME NEW t \in Threads, Release(t)
      PROVE  Abstract!Exit(t)
  <2>1. insideActor[t] # NoKey
    BY <1>4 DEF IInv, OneLockPerActor, Release, insideActor
  <2>2. insideActor' = [insideActor EXCEPT ![t] = NoKey]
    BY <1>4 DEF IInv, TypeOK, Release, insideActor
  <2> QED
    BY <2>1, <2>2 DEF Abstract!Exit
<1>5. CASE UNCHANGED vars
  BY <1>5 DEF vars, insideActor
<1> QED
  BY <1>1, <1>2, <1>3, <1>4, <1>5 DEF Next, Finished, Abstract!Next

(* SessionActorQueue implements one mutual exclusion lock per actor. *)
THEOREM Refinement == Spec => ImplementsActorLock
<1>1. Init => Abstract!Init
  BY DEF Init, Abstract!Init, insideActor
<1>2. IInv /\ IInv' /\ [Next]_vars => [Abstract!Next]_insideActor
  BY StepSimulation
<1> QED
  BY <1>1, <1>2, Invariance, PTL DEF Spec, ImplementsActorLock, Abstract!Spec
=============================================================================
