----------------------------- MODULE LaneQueue -----------------------------
(***************************************************************************)
(* RuntimeLaneQueue (server_modules/runtime_lane_queue.py): background work*)
(* in named lanes, one dispatcher thread, one worker thread per running    *)
(* item, and a checkpoint in the state database that a restarted process   *)
(* reads back.                                                             *)
(*                                                                         *)
(* Every body of "with self._condition" is one step; the dispatcher gives  *)
(* up the lock between picking an item and starting its thread, and a      *)
(* worker runs without it.  A lane is its position in LANE_ORDER.  The     *)
(* restored work is the stub of _default_restore_work_factory, the only    *)
(* factory the program installs.                                           *)
(***************************************************************************)
EXTENDS Naturals, Sequences, FiniteSets, SequencesExt

CONSTANTS N,           \* number of lanes
          Items,       \* the items ever enqueued, each once (ids are uuids)
          NoItem,      \* not an item
          LaneOf,      \* LaneOf[i]: the lane of item i
          HasRunId,    \* the items whose metadata carry a run_id
          MaxTotal,    \* max_total_concurrency
          MaxLimit,    \* bound: largest concurrency a lane is given
          MaxCrashes,  \* bound: crashes of the process
          MaxFaults    \* bound: failing writes, reads and thread starts

Lanes == 0..(N - 1)

ASSUME LaneQueueAssumptions ==
    /\ N \in Nat \ {0}
    /\ NoItem \notin Items
    /\ LaneOf \in [Items -> Lanes]
    /\ HasRunId \subseteq Items
    /\ MaxTotal \in Nat \ {0} /\ MaxLimit \in Nat \ {0}
    /\ MaxCrashes \in Nat /\ MaxFaults \in Nat

VARIABLES
    pending,     \* _pending: lane -> queue of items
    active,      \* _active: lane -> items, in the order they were put in
    limit,       \* _lane_concurrency
    cursor,      \* _lane_cursor
    accepting, draining, down,   \* _accepting, _draining, _shutdown
    dispatcher,  \* "none" (not started), "scanning", "starting", "ended"
    picked,      \* the item the dispatcher is about to start
    working,     \* the items whose worker thread is running
    stub,        \* the items whose work is the restore stub
    stopping,    \* the caller of shutdown: "no", "waiting", then how it ended
    checkpoint,  \* what the state database holds, by lane
    failing,     \* _last_checkpoint_error is set
    up, crashes, faults,
    enqueued,    \* history: items accepted by enqueue, in order
    finished,    \* history: items that went through _finish_item
    runs,        \* history: runs[i], how often the real work of i was started
    bypassed,    \* history: picks that passed lane l over in a row, l dispatchable
    lossy        \* history: a checkpoint was ever not written or not read

queue == <<pending, active, cursor>>
flags == <<accepting, draining, down, stopping>>
threads == <<dispatcher, picked, working>>
disk == <<checkpoint, failing, lossy>>
process == <<up, crashes>>
history == <<enqueued, finished, runs, bypassed>>
vars == <<queue, limit, flags, threads, stub, disk, process, faults, history>>

NoItems == [l \in Lanes |-> <<>>]

Init ==
    /\ pending = NoItems /\ active = NoItems
    /\ limit = [l \in Lanes |-> 1] /\ cursor = 0
    /\ accepting = TRUE /\ draining = FALSE /\ down = FALSE /\ stopping = "no"
    /\ dispatcher = "none" /\ picked = NoItem /\ working = {} /\ stub = {}
    /\ checkpoint = NoItems /\ failing = FALSE /\ lossy = FALSE
    /\ up = TRUE /\ crashes = 0 /\ faults = 0
    /\ enqueued = <<>> /\ finished = {} /\ runs = [i \in Items |-> 0]
    /\ bypassed = [l \in Lanes |-> 0]

-----------------------------------------------------------------------------
(* [item for item in s if item.run_id] *)
RunIdsOf(s) ==
    LET Kept[k \in 0..Len(s)] ==
            IF k = 0 THEN <<>>
            ELSE IF s[k] \in HasRunId THEN Append(Kept[k - 1], s[k]) ELSE Kept[k - 1]
    IN  Kept[Len(s)]

(* Mutant: only the items not yet started are written. *)
SnapshotPendingOnly(act, pend) == [l \in Lanes |-> RunIdsOf(pend[l])]

(* What _persist_checkpoint_locked would write: lane by lane, the active
   items and then the pending ones.                                        *)
Snapshot(act, pend) == [l \in Lanes |-> RunIdsOf(act[l] \o pend[l])]

Fault == faults < MaxFaults /\ faults' = faults + 1

(* _persist_checkpoint_locked: an error is remembered and swallowed. *)
Persist ==
    \/ /\ checkpoint' = Snapshot(active', pending')
       /\ failing' = FALSE
       /\ UNCHANGED <<lossy, faults>>
    \/ /\ Fault
       /\ failing' = TRUE /\ lossy' = TRUE
       /\ UNCHANGED checkpoint

HasPending == \E l \in Lanes : pending[l] # <<>>

(* Mutant: started items do not count. *)
HasActiveNever == FALSE

HasActive == \E l \in Lanes : active[l] # <<>>
ActiveSet == UNION {ToSet(active[l]) : l \in Lanes}
TotalActive == Cardinality(ActiveSet)

-----------------------------------------------------------------------------
Enqueue(i) ==
    /\ up /\ accepting
    /\ i \notin ToSet(enqueued)
    /\ dispatcher' = IF dispatcher = "none" THEN "scanning" ELSE dispatcher
    /\ pending' = [pending EXCEPT ![LaneOf[i]] = Append(@, i)]
    /\ enqueued' = Append(enqueued, i)
    /\ UNCHANGED active
    /\ Persist
    /\ UNCHANGED <<cursor, limit, flags, picked, working, stub, process,
                   finished, runs, bypassed>>

(* A queue that is shutting down refuses the item, after start(). *)
EnqueueRefused ==
    /\ up /\ ~accepting
    /\ dispatcher = "none"
    /\ dispatcher' = "scanning"
    /\ UNCHANGED <<queue, limit, flags, picked, working, stub, disk, process,
                   faults, history>>

SetLaneConcurrency(l, n) ==
    /\ up
    /\ limit[l] # n
    /\ limit' = [limit EXCEPT ![l] = n]
    /\ UNCHANGED <<queue, flags, threads, stub, disk, process, faults, history>>

(* Mutant: the item to be started already counts as active. *)
DispatchableStrict(l) == pending[l] # <<>> /\ Len(active[l]) + 1 < limit[l]

Dispatchable(l) == pending[l] # <<>> /\ Len(active[l]) < limit[l]

(* How far the scan goes from the cursor before it looks at lane l. *)
Offset(l) == IF l >= cursor THEN l - cursor ELSE l + N - cursor

(* The scan stops at the first dispatchable lane. *)
NextLane(l) ==
    /\ Dispatchable(l)
    /\ \A m \in Lanes : Dispatchable(m) => Offset(l) <= Offset(m)

(* Mutant: the modulus is forgotten. *)
CursorNoWrap(l) == l + 1

(* Mutant: the scan always starts at the first lane. *)
CursorStays(l) == 0

(* (cursor + offset + 1) % N *)
CursorAfter(l) == IF l = N - 1 THEN 0 ELSE l + 1

(* Mutant: the total limit is off by one. *)
BelowTotalOffByOne == TotalActive <= MaxTotal

BelowTotal == TotalActive < MaxTotal

(* Mutant: the newest item of the lane is taken (pop for popleft). *)
PickNewest(s) == <<Last(s), Front(s)>>

(* popleft: the item taken, and what stays. *)
Pick(s) == <<Head(s), Tail(s)>>

(* _next_dispatchable_item_locked *)
Dispatch(l) ==
    /\ dispatcher = "scanning" /\ ~down
    /\ BelowTotal
    /\ NextLane(l)
    /\ picked' = Pick(pending[l])[1]
    /\ pending' = [pending EXCEPT ![l] = Pick(@)[2]]
    /\ active' = [active EXCEPT ![l] = Append(@, picked')]
    /\ Persist
    /\ cursor' = CursorAfter(l)
    /\ bypassed' = [m \in Lanes |->
                      IF m # l /\ Dispatchable(m) THEN bypassed[m] + 1 ELSE 0]
    /\ dispatcher' = "starting"
    /\ UNCHANGED <<limit, flags, working, stub, process, enqueued, finished, runs>>

(* _start_item, and _run_item up to the call of item.work() *)
StartItem ==
    /\ dispatcher = "starting"
    /\ working' = working \cup {picked}
    /\ runs' = IF picked \in stub THEN runs ELSE [runs EXCEPT ![picked] = @ + 1]
    /\ dispatcher' = "scanning" /\ picked' = NoItem
    /\ UNCHANGED <<queue, limit, flags, stub, disk, process, faults,
                   enqueued, finished, bypassed>>

(* worker.start() raises (no thread to be had): the dispatcher dies with it. *)
StartRaises ==
    /\ dispatcher = "starting"
    /\ Fault
    /\ dispatcher' = "ended" /\ picked' = NoItem
    /\ UNCHANGED <<queue, limit, flags, working, stub, disk, process, history>>

(* The dispatcher returns: shutdown was called, or the drain is complete. *)
DispatcherEnds ==
    /\ dispatcher = "scanning"
    /\ down \/ (draining /\ ~HasPending /\ ~HasActive)
    /\ down' = TRUE
    /\ dispatcher' = "ended"
    /\ UNCHANGED <<queue, limit, accepting, draining, stopping, picked, working,
                   stub, disk, process, faults, history>>

(* active.pop(item_id, None) *)
Without(s, i) == IF i \in ToSet(s) THEN RemoveAt(s, CHOOSE k \in DOMAIN s : s[k] = i)
                 ELSE s

ActiveWithout(i) == [active EXCEPT ![LaneOf[i]] = Without(@, i)]

(* The work returned or raised an Exception: _finish_item. *)
Finish(i) ==
    /\ i \in working
    /\ working' = working \ {i}
    /\ active' = ActiveWithout(i)
    /\ UNCHANGED pending
    /\ finished' = finished \cup {i}
    /\ Persist
    /\ UNCHANGED <<cursor, limit, flags, dispatcher, picked, stub, process,
                   enqueued, runs, bypassed>>

(* The work raised past "except Exception" (SystemExit): nothing is undone. *)
WorkEscapes(i) ==
    /\ i \in working
    /\ Fault
    /\ working' = working \ {i}
    /\ UNCHANGED <<queue, limit, flags, dispatcher, picked, stub, disk, process,
                   history>>

(* shutdown: stop accepting and wait ... *)
ShutdownBegins ==
    /\ up /\ stopping = "no"
    /\ stopping' = "waiting" /\ accepting' = FALSE /\ draining' = TRUE
    /\ UNCHANGED <<queue, limit, down, threads, stub, disk, process, faults, history>>

(* ... until nothing is pending or active, or the deadline has passed. *)
ShutdownEnds ==
    /\ up /\ stopping = "waiting"
    /\ stopping' = IF HasPending \/ HasActive THEN "timed_out" ELSE "drained"
    /\ down' = TRUE
    /\ UNCHANGED <<queue, accepting, draining>>
    /\ Persist
    /\ UNCHANGED <<limit, threads, stub, process, history>>

(* The process dies or exits: threads and memory are gone. *)
Crash ==
    /\ up /\ crashes < MaxCrashes
    /\ up' = FALSE /\ crashes' = crashes + 1
    /\ dispatcher' = "none" /\ picked' = NoItem /\ working' = {}
    /\ pending' = NoItems /\ active' = NoItems
    /\ UNCHANGED <<cursor, limit, flags, stub, disk, faults, history>>

FreshProcess ==
    /\ ~up /\ up' = TRUE
    /\ active' = NoItems /\ limit' = [l \in Lanes |-> 1] /\ cursor' = 0
    /\ accepting' = TRUE /\ draining' = FALSE /\ down' = FALSE /\ stopping' = "no"
    /\ bypassed' = [l \in Lanes |-> 0]
    /\ UNCHANGED <<threads, crashes, enqueued, finished, runs, checkpoint>>

(* Mutant: restored items get their real work back. *)
StubbedNone == {}

Stubbed == UNION {ToSet(checkpoint[l]) : l \in Lanes}

(* __init__ and _restore_checkpoint: everything comes back as queued.  No
   dispatcher is started before the next enqueue.                          *)
Restart ==
    /\ FreshProcess
    /\ pending' = checkpoint
    /\ stub' = Stubbed
    /\ failing' = FALSE
    /\ UNCHANGED <<lossy, faults>>

(* The checkpoint cannot be read: start empty. *)
RestartEmpty ==
    /\ FreshProcess
    /\ Fault
    /\ pending' = NoItems
    /\ stub' = {}
    /\ failing' = TRUE /\ lossy' = TRUE

DispatcherStep == (\E l \in Lanes : Dispatch(l)) \/ StartItem \/ DispatcherEnds

Next ==
    \/ \E i \in Items : Enqueue(i) \/ Finish(i) \/ WorkEscapes(i)
    \/ \E l \in Lanes, n \in 1..MaxLimit : SetLaneConcurrency(l, n)
    \/ EnqueueRefused \/ DispatcherStep \/ StartRaises
    \/ ShutdownBegins \/ ShutdownEnds
    \/ Crash \/ Restart \/ RestartEmpty

Spec == Init /\ [][Next]_vars

(* The dispatcher and the workers are threads of the interpreter; that a work
   item returns is the callers' promise.                                   *)
FairSpec == Spec /\ WF_vars(DispatcherStep)
                 /\ \A i \in Items : WF_vars(Finish(i))

-----------------------------------------------------------------------------
(* The type invariant: what each field of the code may hold. *)
TypeOK ==
    /\ \A l \in Lanes : \A s \in {pending[l], active[l], checkpoint[l]} :
          /\ s \in Seq(Items)
          /\ \A k \in DOMAIN s : LaneOf[s[k]] = l
    /\ limit \in [Lanes -> 1..MaxLimit] /\ cursor \in Lanes
    /\ {accepting, draining, down, failing, up, lossy} \subseteq BOOLEAN
    /\ dispatcher \in {"none", "scanning", "starting", "ended"}
    /\ stopping \in {"no", "waiting", "timed_out", "drained"}
    /\ picked \in Items \cup {NoItem} /\ working \subseteq Items /\ stub \subseteq Items
    /\ enqueued \in Seq(Items) /\ finished \subseteq Items
    /\ runs \in [Items -> Nat] /\ bypassed \in [Lanes -> Nat]
    /\ crashes \in 0..MaxCrashes /\ faults \in 0..MaxFaults

(* Running threads, not just table entries, respect max_total_concurrency:
   the dispatcher counts _active, and every thread's item stays there from
   before the thread starts until its work is over.                        *)
ThreadsWithinLimit == Cardinality(working) <= MaxTotal

(* A shutdown that ended because nothing was left (and not on its deadline)
   leaves no work running, nothing picked and nothing queued.               *)
DrainedMeansQuiet ==
    stopping = "drained" => working = {} /\ picked = NoItem /\ ~HasPending

Before(i, j) == \E a, b \in DOMAIN enqueued : a < b /\ enqueued[a] = i /\ enqueued[b] = j

(* A lane is first in, first out, over crashes and restarts from a checkpoint
   of any age: nothing waiting was enqueued before something its lane has
   already started, and what waits, waits in the order of enqueue.          *)
LaneFIFO ==
    \A l \in Lanes :
        LET s == active[l] \o pending[l]
        IN  \A a, b \in DOMAIN s : a < b => Before(s[a], s[b])

(* As long as every checkpoint was written and read back, an accepted item
   with a run_id is finished or on disk, whatever the moment of a crash.     *)
NothingLost ==
    ~lossy => \A i \in ToSet(enqueued) \cap HasRunId :
                 i \in finished \/ i \in ToSet(checkpoint[LaneOf[i]])

(* The work an item was enqueued with runs at most once, over any number of
   restarts and whatever state the checkpoint is in.                        *)
RunsAtMostOnce == \A i \in Items : runs[i] <= 1

(* Round robin: a lane with work and a free slot is passed over at most N - 1
   times, so a busy lane cannot starve another.                             *)
BoundedBypass == \A l \in Lanes : bypassed[l] <= N - 1

(* A started item whose thread is gone keeps its slot. *)
SlotLost == ~(ActiveSet \subseteq working \cup {picked})

(* A queued item is finished, one restored after a crash too once the dispatcher
   runs again, unless the process dies, the queue is shut down, the dispatcher
   dies or a slot is lost.  A failing checkpoint stops nothing.              *)
QueuedIsServed ==
    \A i \in Items :
        (up /\ dispatcher = "scanning" /\ i \in ToSet(pending[LaneOf[i]]))
            ~> (i \in finished \/ ~up \/ down \/ dispatcher = "ended" \/ SlotLost)
=============================================================================
