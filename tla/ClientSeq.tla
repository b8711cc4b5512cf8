----------------------------- MODULE ClientSeq -----------------------------
(***************************************************************************)
(* The outbound frame numbers of the on-premises gateway                   *)
(* (empyralis-gateway/src/state/checkpoints.ts): allocateClientSeq, the    *)
(* save() calls of everyone else on the same checkpoints.json, the 100 ms  *)
(* debounce of its write, and restarts.                                    *)
(*                                                                         *)
(* A step ends at an await.  Of the snapshot only lastClientSeq is kept;   *)
(* Absent is a snapshot without the key.                                   *)
(***************************************************************************)
EXTENDS Integers, Sequences

CONSTANTS Savers,      \* save() calls that do not set lastClientSeq
          Absent,      \* the snapshot has no lastClientSeq
          None,        \* no snapshot, no number
          MaxSeq,      \* bound: numbers a process allocates
          MaxRestarts, \* bound: restarts
          MaxWrites,   \* bound: writes waiting on the file's mutex
          Faults       \* whether reads and writes may fail, and the process
                       \* may stop with work outstanding

ASSUME ClientSeqAssumptions ==
    /\ MaxSeq \in Nat /\ MaxRestarts \in Nat /\ MaxWrites \in Nat
    /\ Faults \in BOOLEAN
    /\ None \notin Nat /\ Absent \notin Nat /\ None # Absent

VARIABLES
    mirror,    \* lastKnownClientSeq
    allocator, \* the allocation the gate lets run: "idle", "seeding", "loading", "merging"
    saver,     \* where another save() is: "idle", "merging"
    loaded,    \* the snapshot it, or the allocation, has read
    pending,   \* pendingWrites: the snapshot the timer will write
    writes,    \* writeJson calls waiting on the file's mutex
    disk,      \* checkpoints.json
    restarts,
    issued,    \* history: numbers returned to callers, in order
    life       \* history: how many of them were returned to earlier processes

vars == <<mirror, allocator, saver, loaded, pending, writes, disk, restarts, issued, life>>

Allocation == None   \* the allocation's own save() in loaded

Init ==
    /\ mirror = None /\ allocator = "idle"
    /\ saver = [s \in Savers |-> "idle"]
    /\ loaded = [s \in Savers \cup {Allocation} |-> Absent]
    /\ pending = None /\ writes = <<>> /\ disk = Absent
    /\ restarts = 0 /\ issued = <<>> /\ life = 0

-----------------------------------------------------------------------------
Number(snapshot) == IF snapshot = Absent THEN 0 ELSE snapshot

(* Mutant: every allocation starts from the file, as it once did. *)
UnseededAlways == TRUE

Unseeded == mirror = None

(* allocateClientSeq, once the gate is its own *)
Allocate ==
    /\ allocator = "idle"
    /\ Len(issued) - life < MaxSeq
    /\ IF Unseeded
         THEN allocator' = "seeding" /\ UNCHANGED mirror
         ELSE allocator' = "loading" /\ mirror' = mirror + 1
    /\ UNCHANGED <<saver, loaded, pending, writes, disk, restarts, issued, life>>

Seed ==
    /\ allocator = "seeding"
    /\ mirror' = Number(disk) + 1
    /\ allocator' = "loading"
    /\ UNCHANGED <<saver, loaded, pending, writes, disk, restarts, issued, life>>

(* The file cannot be read: the allocation is rejected. *)
SeedRaises ==
    /\ Faults
    /\ allocator = "seeding"
    /\ allocator' = "idle"
    /\ UNCHANGED <<mirror, saver, loaded, pending, writes, disk, restarts, issued, life>>

(* save(): await this.load() *)
AllocationLoads ==
    /\ allocator = "loading"
    /\ loaded' = [loaded EXCEPT ![Allocation] = disk]
    /\ allocator' = "merging"
    /\ UNCHANGED <<mirror, saver, pending, writes, disk, restarts, issued, life>>

(* The load raises; save's error is swallowed and the number returned. *)
AllocationLoadRaises ==
    /\ Faults
    /\ allocator = "loading"
    /\ allocator' = "idle"
    /\ issued' = Append(issued, mirror)
    /\ UNCHANGED <<mirror, saver, loaded, pending, writes, disk, restarts, life>>

(* debouncedWrite: {...existing.snapshot, ...snapshot}, or a new pending write *)
Merge(snapshot) ==
    pending' = IF pending # None /\ snapshot = Absent THEN pending ELSE snapshot

AllocationMerges ==
    /\ allocator = "merging"
    /\ Merge(mirror)
    /\ allocator' = "idle"
    /\ issued' = Append(issued, mirror)
    /\ UNCHANGED <<mirror, saver, loaded, writes, disk, restarts, life>>

(* save() of an acknowledgement, a session or a health state *)
SaverLoads(s) ==
    /\ saver[s] = "idle"
    /\ loaded' = [loaded EXCEPT ![s] = disk]
    /\ saver' = [saver EXCEPT ![s] = "merging"]
    /\ UNCHANGED <<mirror, allocator, pending, writes, disk, restarts, issued, life>>

SaverMerges(s) ==
    /\ saver[s] = "merging"
    /\ Merge(loaded[s])
    /\ saver' = [saver EXCEPT ![s] = "idle"]
    /\ UNCHANGED <<mirror, allocator, loaded, writes, disk, restarts, issued, life>>

(* The debounce timer *)
TimerFires ==
    /\ pending # None
    /\ Len(writes) < MaxWrites
    /\ writes' = Append(writes, pending)
    /\ pending' = None
    /\ UNCHANGED <<mirror, allocator, saver, loaded, disk, restarts, issued, life>>

(* Mutant: what is pending by then is written, not what the timer took. *)
WriteLandsPending ==
    /\ writes # <<>>
    /\ disk' = pending
    /\ writes' = Tail(writes)
    /\ UNCHANGED <<mirror, allocator, saver, loaded, pending, restarts, issued, life>>

(* writeJson: rename into place, in the order of the mutex *)
WriteLands ==
    /\ writes # <<>>
    /\ disk' = Head(writes)
    /\ writes' = Tail(writes)
    /\ UNCHANGED <<mirror, allocator, saver, loaded, pending, restarts, issued, life>>

WriteFails ==
    /\ Faults
    /\ writes # <<>>
    /\ writes' = Tail(writes)
    /\ UNCHANGED <<mirror, allocator, saver, loaded, pending, disk, restarts, issued, life>>

Outstanding == pending # None \/ writes # <<>> \/ allocator # "idle"

(* The process ends and another starts; nothing in memory is left. *)
Restart ==
    /\ restarts < MaxRestarts
    /\ Outstanding => Faults
    /\ restarts' = restarts + 1
    /\ mirror' = None /\ allocator' = "idle"
    /\ saver' = [s \in Savers |-> "idle"]
    /\ pending' = None /\ writes' = <<>>
    /\ life' = Len(issued)
    /\ UNCHANGED <<loaded, disk, issued>>

Next ==
    \/ Allocate \/ Seed \/ SeedRaises \/ AllocationLoads \/ AllocationLoadRaises
    \/ AllocationMerges
    \/ \E s \in Savers : SaverLoads(s) \/ SaverMerges(s)
    \/ TimerFires \/ WriteLands \/ WriteFails \/ Restart

Spec == Init /\ [][Next]_vars

-----------------------------------------------------------------------------
(* The type invariant: what each field of the code may hold. *)
TypeOK ==
    /\ mirror \in Nat \cup {None}
    /\ allocator \in {"idle", "seeding", "loading", "merging"}
    /\ saver \in [Savers -> {"idle", "merging"}]
    /\ loaded \in [Savers \cup {Allocation} -> Nat \cup {Absent}]
    /\ pending \in Nat \cup {Absent, None}
    /\ writes \in Seq(Nat \cup {Absent})
    /\ disk \in Nat \cup {Absent}
    /\ restarts \in 0..MaxRestarts
    /\ issued \in Seq(Nat) /\ life \in 0..Len(issued)

(* Within one process no two frames get one number, and a later frame a larger
   one, whatever saves, timers and writes run in between.                   *)
IncreasingInOneLife ==
    \A a, b \in DOMAIN issued : life < a /\ a < b => issued[a] < issued[b]

(* "THE INVARIANT: every value this returns is strictly greater than every
   value returned before it, for the life of the process and across a restart." *)
StrictlyIncreasing ==
    \A a, b \in DOMAIN issued : a < b => issued[a] < issued[b]
=============================================================================
