----------------------------- MODULE ActorLock -----------------------------
(***************************************************************************)
(* What SessionActorQueue promises its callers, with no locks, reference   *)
(* counts or tables: a thread may enter the critical section of an actor   *)
(* when nobody is inside it, and leaves it later.  Different actors never  *)
(* exclude one another.                                                    *)
(***************************************************************************)
CONSTANTS Threads, Keys, NoKey

VARIABLE inside   \* inside[t]: the actor whose critical section t is in

Init == inside = [t \in Threads |-> NoKey]

(* `with actor_queue.claim(k):` reaches its body *)
Enter(t, k) ==
    /\ inside[t] = NoKey
    /\ \A u \in Threads : inside[u] # k
    /\ inside' = [inside EXCEPT ![t] = k]

(* the body of the `with` ends *)
Exit(t) ==
    /\ inside[t] # NoKey
    /\ inside' = [inside EXCEPT ![t] = NoKey]

Next == \E t \in Threads : Exit(t) \/ \E k \in Keys : Enter(t, k)

Spec == Init /\ [][Next]_inside
=============================================================================
