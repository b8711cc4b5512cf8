----------------------------- MODULE ActorQueue -----------------------------
(***************************************************************************)
(* SessionActorQueue (server_modules/session_manager/actor_queue.py): one  *)
(* threading.Lock per actor key, created on first use and dropped from the *)
(* table when its reference count returns to zero.  Every turn of a chat   *)
(* session runs inside `claim(actor_key)`.                                 *)
(*                                                                         *)
(* Each thread runs `claim` through three atomic sections, separated by    *)
(* the points where Python may switch threads:                             *)
(*   Register  - the first `with self._global_lock` block,                 *)
(*   Acquire   - lock.acquire(),                                           *)
(*   Release   - lock.release() when the caller's block ends,              *)
(*   Deregister- the second `with self._global_lock` block.                *)
(* Lock objects are garbage collected, so a new lock is any lock nobody    *)
(* refers to any more: an identity may come back.                          *)
(***************************************************************************)
EXTENDS Integers, FiniteSets

CONSTANTS Threads,    \* Python threads that call claim
          Keys,       \* normalised actor keys
          Locks,      \* identities of threading.Lock objects
          NoKey, NoLock, NoThread,
          MaxClaims   \* bound: claims each thread makes

ASSUME ActorQueueAssumptions ==
    /\ IsFiniteSet(Threads)
    /\ NoKey \notin Keys
    /\ NoLock \notin Locks
    /\ NoThread \notin Threads
    /\ MaxClaims \in Nat

VARIABLES
    lockByActor,     \* _lock_by_actor: Keys -> lock, NoLock when absent
    pendingByActor,  \* _pending_by_actor: Keys -> count, 0 when absent
    owner,           \* owner[l]: the thread that holds lock l
    pc,              \* where a thread is inside claim
    myKey,           \* its local `token`
    myLock,          \* its local `lock`
    claims           \* claims it has begun (bounded by MaxClaims)

vars == <<lockByActor, pendingByActor, owner, pc, myKey, myLock, claims>>

Init ==
    /\ lockByActor = [k \in Keys |-> NoLock]
    /\ pendingByActor = [k \in Keys |-> 0]
    /\ owner = [l \in Locks |-> NoThread]
    /\ pc = [t \in Threads |-> "outside"]
    /\ myKey = [t \in Threads |-> NoKey]
    /\ myLock = [t \in Threads |-> NoLock]
    /\ claims = [t \in Threads |-> 0]

-----------------------------------------------------------------------------
(* threading.Lock(): an object that no table entry and no thread refers to. *)
FreshLock(l) ==
    /\ \A k \in Keys : lockByActor[k] # l
    /\ \A t \in Threads : myLock[t] # l

(* The lock the first critical section ends up with for key k. *)
LockFor(k, l) ==
    IF lockByActor[k] = NoLock THEN FreshLock(l) ELSE l = lockByActor[k]

Register(t, k) ==
    /\ pc[t] = "outside"
    /\ claims[t] < MaxClaims
    /\ \E l \in Locks :
         /\ LockFor(k, l)
         /\ lockByActor' = [lockByActor EXCEPT ![k] = l]
         /\ myLock' = [myLock EXCEPT ![t] = l]
    /\ pendingByActor' = [pendingByActor EXCEPT ![k] = @ + 1]
    /\ pc' = [pc EXCEPT ![t] = "waiting"]
    /\ myKey' = [myKey EXCEPT ![t] = k]
    /\ claims' = [claims EXCEPT ![t] = @ + 1]
    /\ UNCHANGED owner

(* Mutant: the acquire is a non-blocking attempt whose result is ignored. *)
AcquireWithoutBlocking(t) ==
    /\ pc[t] = "waiting"
    /\ owner' = [owner EXCEPT ![myLock[t]] = t]
    /\ pc' = [pc EXCEPT ![t] = "inside"]
    /\ UNCHANGED <<lockByActor, pendingByActor, myKey, myLock, claims>>

Acquire(t) ==
    /\ pc[t] = "waiting"
    /\ owner[myLock[t]] = NoThread
    /\ owner' = [owner EXCEPT ![myLock[t]] = t]
    /\ pc' = [pc EXCEPT ![t] = "inside"]
    /\ UNCHANGED <<lockByActor, pendingByActor, myKey, myLock, claims>>

(* Mutant: the body ends without giving the lock back. *)
ReleaseForgotten(t) ==
    /\ pc[t] = "inside"
    /\ pc' = [pc EXCEPT ![t] = "leaving"]
    /\ UNCHANGED <<lockByActor, pendingByActor, owner, myKey, myLock, claims>>

Release(t) ==
    /\ pc[t] = "inside"
    /\ owner' = [owner EXCEPT ![myLock[t]] = NoThread]
    /\ pc' = [pc EXCEPT ![t] = "leaving"]
    /\ UNCHANGED <<lockByActor, pendingByActor, myKey, myLock, claims>>

(* Mutant: every leaver takes the count to zero and drops the entry. *)
PendingAfterAlwaysDrop(k) == 0

(* Mutant: the count is stored without the decrement. *)
PendingAfterNoDecrement(k) ==
    IF pendingByActor[k] = 0 THEN 1 ELSE pendingByActor[k]

(* `pending = (get(token) or 1) - 1`, then drop or store the entry. *)
PendingAfter(k) ==
    (IF pendingByActor[k] = 0 THEN 1 ELSE pendingByActor[k]) - 1

Deregister(t) ==
    LET k == myKey[t] IN
    /\ pc[t] = "leaving"
    /\ pendingByActor' = [pendingByActor EXCEPT ![k] = PendingAfter(k)]
    /\ lockByActor' = IF PendingAfter(k) <= 0
                        THEN [lockByActor EXCEPT ![k] = NoLock]
                        ELSE lockByActor
    /\ pc' = [pc EXCEPT ![t] = "outside"]
    /\ myKey' = [myKey EXCEPT ![t] = NoKey]
    /\ myLock' = [myLock EXCEPT ![t] = NoLock]
    /\ UNCHANGED <<owner, claims>>

(* Every thread has used up its claims: the only states without a step. *)
Finished ==
    /\ \A t \in Threads : pc[t] = "outside" /\ claims[t] = MaxClaims
    /\ UNCHANGED vars

Next ==
    \/ \E t \in Threads : \/ \E k \in Keys : Register(t, k)
                          \/ Acquire(t)
                          \/ Release(t)
                          \/ Deregister(t)
    \/ Finished

Spec == Init /\ [][Next]_vars

(* A runnable Python thread is scheduled again: the steps that take or give
   up a lock happen.  Nothing forces a thread to make another claim, and a
   lock makes no promise about which waiter gets it.                       *)
Fairness ==
    \A t \in Threads : WF_vars(Acquire(t)) /\ WF_vars(Release(t))
                         /\ WF_vars(Deregister(t))

FairSpec == Spec /\ Fairness

-----------------------------------------------------------------------------
(* The type invariant: what each field of the code may hold. *)
TypeOK ==
    /\ lockByActor \in [Keys -> Locks \cup {NoLock}]
    /\ pendingByActor \in [Keys -> Nat]
    /\ owner \in [Locks -> Threads \cup {NoThread}]
    /\ pc \in [Threads -> {"outside", "waiting", "inside", "leaving"}]
    /\ myKey \in [Threads -> Keys \cup {NoKey}]
    /\ myLock \in [Threads -> Locks \cup {NoLock}]
    /\ claims \in [Threads -> 0..MaxClaims]

(* The threads between Register and Deregister for actor k. *)
Users(k) == {t \in Threads : pc[t] # "outside" /\ myKey[t] = k}

(* Two threads are never inside the claim of the same actor. *)
MutualExclusion ==
    \A t, u \in Threads :
        pc[t] = "inside" /\ pc[u] = "inside" /\ myKey[t] = myKey[u] => t = u

(* The reference count is exact, so an entry is dropped by its last user
   and no earlier, and an unused actor leaves nothing behind.              *)
CountIsExact ==
    \A k \in Keys :
        /\ pendingByActor[k] = Cardinality(Users(k))
        /\ lockByActor[k] = NoLock <=> Users(k) = {}

(* With finitely many competing claims every claim is granted. *)
ClaimGranted ==
    \A t \in Threads : pc[t] = "waiting" ~> pc[t] = "inside"

(* When the claims are over, both tables are empty again: nothing leaks. *)
TablesDrain ==
    <>[](\A k \in Keys : lockByActor[k] = NoLock /\ pendingByActor[k] = 0)

-----------------------------------------------------------------------------
(* The promise: inside maps to the actor of a thread that is in the body. *)
insideActor == [t \in Threads |-> IF pc[t] = "inside" THEN myKey[t] ELSE NoKey]

Abstract == INSTANCE ActorLock WITH inside <- insideActor

ImplementsActorLock == Abstract!Spec
=============================================================================
