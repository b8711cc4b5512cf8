--------------------------- MODULE ClientSeqProofs ---------------------------
(* That the numbers one gateway process hands out grow, for any number of
   allocations, saves, timers, failing reads and writes, and restarts; and what it
   would take for them to grow from one process to the next.                *)
EXTENDS ClientSeq, TLAPS

(* Inductive: the mirror is seeded before the first number of a life is handed
   out, covers every number of that life, and is ahead of them while a number
   is being prepared.                                                       *)
MirrorInv ==
    /\ mirror \in Nat \cup {None}
    /\ issued \in Seq(Nat)
    /\ life \in Nat
    /\ allocator \in {"idle", "seeding", "loading", "merging"}
    /\ (mirror = None) => Len(issued) <= life
    /\ allocator = "seeding" => mirror = None
    /\ allocator \in {"loading", "merging"} => mirror # None
    /\ \A k \in 1..Len(issued) : life < k =>
          /\ mirror # None => issued[k] <= mirror
          /\ allocator \in {"loading", "merging"} => issued[k] < mirror
    /\ IncreasingInOneLife

(* A fresh process has issued nothing and has no mirror. *)
LEMMA InitMirrorInv == Init => MirrorInv
BY DEF Init, MirrorInv, IncreasingInOneLife

(* Taking a number: it is larger than all of this life. *)
LEMMA TakeMirrorInv ==
    ASSUME MirrorInv, disk \in Nat \cup {Absent}, Allocate \/ Seed
    PROVE  MirrorInv'
<1>1. CASE Allocate
  BY <1>1, ClientSeqAssumptions DEF Allocate, Unseeded, MirrorInv, IncreasingInOneLife
<1>2. CASE Seed
  BY <1>2, ClientSeqAssumptions DEF Seed, Number, MirrorInv, IncreasingInOneLife
<1> QED BY <1>1, <1>2

(* Handing it out. *)
LEMMA IssueMirrorInv ==
    ASSUME MirrorInv, AllocationMerges \/ AllocationLoadRaises
    PROVE  MirrorInv'
<1>1. mirror \in Nat /\ allocator \in {"loading", "merging"}
  BY DEF MirrorInv, AllocationMerges, AllocationLoadRaises
<1>2. issued' = Append(issued, mirror) /\ UNCHANGED <<mirror, life>> /\ allocator' = "idle"
  BY DEF AllocationMerges, AllocationLoadRaises
<1>3. /\ issued' \in Seq(Nat)
      /\ Len(issued') = Len(issued) + 1
      /\ \A k \in 1..Len(issued) : issued'[k] = issued[k]
      /\ issued'[Len(issued) + 1] = mirror
  BY <1>1, <1>2 DEF MirrorInv
<1>4. \A k \in 1..Len(issued') : life' < k => issued'[k] <= mirror'
  BY <1>1, <1>2, <1>3 DEF MirrorInv
<1>5. IncreasingInOneLife'
  <2> SUFFICES ASSUME NEW a \in 1..Len(issued'), NEW b \in 1..Len(issued'),
                      life < a, a < b
               PROVE  issued'[a] < issued'[b]
    <3>1. DOMAIN issued' = 1..Len(issued') BY <1>3
    <3> QED BY <1>2, <3>1 DEF IncreasingInOneLife
  <2>0. Len(issued) \in Nat /\ DOMAIN issued = 1..Len(issued) /\ life \in Nat
    BY DEF MirrorInv
  <2>1. a \in 1..Len(issued) BY <1>3, <2>0
  <2>2. CASE b \in 1..Len(issued)
    <3>1. issued[a] < issued[b] BY <2>0, <2>1, <2>2 DEF MirrorInv, IncreasingInOneLife
    <3> QED BY <1>3, <2>1, <2>2, <3>1
  <2>3. CASE b = Len(issued) + 1
    <3>1. issued[a] < mirror BY <1>1, <2>0, <2>1 DEF MirrorInv
    <3> QED BY <1>3, <2>1, <2>3, <3>1
  <2> QED BY <1>3, <2>0, <2>2, <2>3
<1> QED BY <1>1, <1>2, <1>3, <1>4, <1>5 DEF MirrorInv

(* What a snapshot may hold: the file is read back as a number or nothing. *)
DiskInv ==
    /\ disk \in Nat \cup {Absent}
    /\ loaded \in [Savers \cup {Allocation} -> Nat \cup {Absent}]
    /\ pending \in Nat \cup {Absent, None}
    /\ writes \in Seq(Nat \cup {Absent})

(* A gateway's first start finds no checkpoint. *)
LEMMA InitDiskInv == Init => DiskInv
BY DEF Init, DiskInv

(* Whatever is loaded, debounced, queued or written is a snapshot. *)
LEMMA NextDiskInv == MirrorInv /\ DiskInv /\ [Next]_vars => DiskInv'
<1> SUFFICES ASSUME MirrorInv, DiskInv, [Next]_vars PROVE DiskInv'
  OBVIOUS
<1> USE DEF DiskInv
<1>1. CASE Allocate \/ Seed \/ SeedRaises \/ AllocationLoadRaises \/ UNCHANGED vars
  BY <1>1 DEF Allocate, Seed, SeedRaises, AllocationLoadRaises, vars
<1>2. CASE AllocationLoads
  BY <1>2 DEF AllocationLoads, Allocation
<1>3. CASE AllocationMerges
  BY <1>3, ClientSeqAssumptions DEF AllocationMerges, Merge, MirrorInv
<1>4. ASSUME NEW s \in Savers, SaverLoads(s) PROVE DiskInv'
  BY <1>4 DEF SaverLoads
<1>5. ASSUME NEW s \in Savers, SaverMerges(s) PROVE DiskInv'
  BY <1>5 DEF SaverMerges, Merge
<1>6. CASE TimerFires
  BY <1>6 DEF TimerFires
<1>7. CASE WriteLands \/ WriteFails
  <2>1. writes # <<>> BY <1>7 DEF WriteLands, WriteFails
  <2>2. Head(writes) \in Nat \cup {Absent} /\ Tail(writes) \in Seq(Nat \cup {Absent})
    BY <2>1
  <2> QED BY <1>7, <2>2 DEF WriteLands, WriteFails
<1>8. CASE Restart
  BY <1>8 DEF Restart
<1> QED BY <1>1, <1>2, <1>3, <1>4, <1>5, <1>6, <1>7, <1>8 DEF Next

(* Every step of an allocation, a save or a restart keeps MirrorInv. *)
LEMMA NextMirrorInv == MirrorInv /\ DiskInv /\ [Next]_vars => MirrorInv'
<1> SUFFICES ASSUME MirrorInv, DiskInv, [Next]_vars PROVE MirrorInv'
  OBVIOUS
<1>1. CASE Allocate \/ Seed
  BY <1>1, TakeMirrorInv DEF DiskInv
<1>2. CASE AllocationMerges \/ AllocationLoadRaises
  BY <1>2, IssueMirrorInv
<1>3. CASE SeedRaises \/ AllocationLoads
  BY <1>3 DEF SeedRaises, AllocationLoads, MirrorInv, IncreasingInOneLife
<1>4. ASSUME NEW s \in Savers, SaverLoads(s) \/ SaverMerges(s) PROVE MirrorInv'
  BY <1>4 DEF SaverLoads, SaverMerges, MirrorInv, IncreasingInOneLife
<1>5. CASE TimerFires \/ WriteLands \/ WriteFails \/ UNCHANGED vars
  BY <1>5 DEF TimerFires, WriteLands, WriteFails, vars, MirrorInv, IncreasingInOneLife
<1>6. CASE Restart
  BY <1>6 DEF Restart, MirrorInv, IncreasingInOneLife
<1> QED BY <1>1, <1>2, <1>3, <1>4, <1>5, <1>6 DEF Next

(* allocateClientSeq hands out growing numbers for the life of a process. *)
THEOREM IncreasingInOneLifeHolds == Spec => []IncreasingInOneLife
<1>1. MirrorInv => IncreasingInOneLife BY DEF MirrorInv
<1>2. Init => MirrorInv /\ DiskInv BY InitMirrorInv, InitDiskInv
<1>3. MirrorInv /\ DiskInv /\ [Next]_vars => (MirrorInv /\ DiskInv)'
  BY NextMirrorInv, NextDiskInv
<1> QED BY <1>1, <1>2, <1>3, PTL DEF Spec

(* The restarts stay within their bound, and a life begins with what earlier ones
   issued.                                                                  *)
CountInv ==
    /\ saver \in [Savers -> {"idle", "merging"}]
    /\ restarts \in 0..MaxRestarts
    /\ life <= Len(issued)

(* The counts hold at the start ... *)
LEMMA InitCountInv == Init => CountInv
BY ClientSeqAssumptions DEF Init, CountInv

(* ... and in every step: numbers are only added. *)
LEMMA NextCountInv == MirrorInv /\ CountInv /\ [Next]_vars => CountInv'
<1> SUFFICES ASSUME MirrorInv, CountInv, [Next]_vars PROVE CountInv'
  OBVIOUS
<1> USE DEF CountInv
<1>1. CASE \/ Allocate \/ Seed \/ SeedRaises \/ AllocationLoads
           \/ TimerFires \/ WriteLands \/ WriteFails \/ UNCHANGED vars
  BY <1>1 DEF Allocate, Seed, SeedRaises, AllocationLoads, TimerFires, WriteLands,
              WriteFails, vars
<1>2. CASE AllocationMerges \/ AllocationLoadRaises
  <2>1. mirror \in Nat
    BY <1>2 DEF AllocationMerges, AllocationLoadRaises, MirrorInv
  <2>2. Len(issued') = Len(issued) + 1
    BY <1>2, <2>1 DEF AllocationMerges, AllocationLoadRaises, MirrorInv
  <2> QED BY <1>2, <2>2 DEF AllocationMerges, AllocationLoadRaises, MirrorInv
<1>3. ASSUME NEW s \in Savers, SaverLoads(s) \/ SaverMerges(s) PROVE CountInv'
  BY <1>3 DEF SaverLoads, SaverMerges
<1>4. CASE Restart
  BY <1>4, ClientSeqAssumptions DEF Restart, MirrorInv
<1> QED BY <1>1, <1>2, <1>3, <1>4 DEF Next

(* Every field of the gateway's checkpoint store keeps its type: a snapshot that
   is read back, merged or written is a number or has none.                 *)
THEOREM TypeCorrect == Spec => []TypeOK
<1>1. Init => MirrorInv /\ DiskInv /\ CountInv
  BY InitMirrorInv, InitDiskInv, InitCountInv
<1>2. MirrorInv /\ DiskInv /\ CountInv /\ [Next]_vars => (MirrorInv /\ DiskInv /\ CountInv)'
  BY NextMirrorInv, NextDiskInv, NextCountInv
<1>3. MirrorInv /\ DiskInv /\ CountInv => TypeOK
  BY DEF MirrorInv, DiskInv, CountInv, TypeOK
<1> QED BY <1>1, <1>2, <1>3, PTL DEF Spec

-----------------------------------------------------------------------------
(* The number of the newest snapshot on its way to the file, or in it. *)
Newest ==
    Number(IF pending # None THEN pending
           ELSE IF writes # <<>> THEN writes[Len(writes)] ELSE disk)

(* What save() does not guarantee: the snapshot it read before its await still has
   the newest number when it is merged into the pending write.              *)
NoStaleSave == \A s \in Savers : SaverMerges(s) => Newest' = Newest

(* Inductive under NoStaleSave and without faults: the newest snapshot covers every
   number handed out in any life, is the mirror once that is seeded, and is the
   only one there is before.                                                *)
NewestInv ==
    /\ \A k \in DOMAIN issued : issued[k] <= Newest
    /\ mirror = None =>
          /\ Number(disk) = Newest
          /\ \A j \in DOMAIN writes : Number(writes[j]) = Newest
    /\ mirror # None /\ allocator = "idle" => mirror = Newest
    /\ allocator \in {"loading", "merging"} => Newest < mirror
    /\ StrictlyIncreasing

(* Newest is a number. *)
LEMMA NewestType ==
    ASSUME DiskInv
    PROVE  Newest \in Nat
<1>1. writes # <<>> => writes[Len(writes)] \in Nat \cup {Absent}
  BY DEF DiskInv
<1> QED BY <1>1 DEF Newest, Number, DiskInv

(* The timer and the mutex move the newest snapshot on, and no other becomes it. *)
LEMMA NewestMoves ==
    ASSUME DiskInv, TimerFires \/ WriteLands
    PROVE  Newest' = Newest
<1>1. CASE TimerFires
  <2>1. /\ pending # None /\ pending' = None /\ writes' = Append(writes, pending)
        /\ pending \in Nat \cup {Absent} /\ writes \in Seq(Nat \cup {Absent})
    BY <1>1 DEF TimerFires, DiskInv
  <2>2. writes' # <<>> /\ writes'[Len(writes')] = pending
    BY <2>1
  <2> QED BY <2>1, <2>2 DEF Newest
<1>2. CASE WriteLands
  <2>1. /\ writes # <<>> /\ pending' = pending /\ writes' = Tail(writes)
        /\ disk' = Head(writes) /\ writes \in Seq(Nat \cup {Absent})
    BY <1>2 DEF WriteLands, DiskInv
  <2>2. CASE Tail(writes) = <<>>
    <3>0. Len(Tail(writes)) = Len(writes) - 1 /\ Len(writes) \in Nat
      BY <2>1
    <3>1. Len(Tail(writes)) = 0
      <4>1. Len(<<>>) = 0
        OBVIOUS
      <4> QED BY <2>2, <4>1, Zenon
    <3>2. Len(writes) = 1
      BY <3>0, <3>1
    <3>3. disk' = writes[Len(writes)]
      BY <2>1, <3>2
    <3> QED BY <2>1, <2>2, <3>3 DEF Newest
  <2>3. CASE Tail(writes) # <<>>
    <3>1. Len(Tail(writes)) = Len(writes) - 1 /\ Len(Tail(writes)) \in Nat \ {0}
      BY <2>1, <2>3
    <3>2. Tail(writes)[Len(Tail(writes))] = writes[Len(writes)]
      BY <2>1, <3>1
    <3> QED BY <2>1, <2>3, <3>2 DEF Newest
  <2> QED BY <2>2, <2>3
<1> QED BY <1>1, <1>2

(* Handing a number out makes its snapshot the newest. *)
LEMMA IssueNewest ==
    ASSUME MirrorInv, DiskInv, NewestInv, AllocationMerges
    PROVE  NewestInv'
<1>1. /\ mirror \in Nat /\ allocator = "merging" /\ allocator' = "idle"
      /\ mirror' = mirror /\ issued' = Append(issued, mirror) /\ issued \in Seq(Nat)
  BY DEF MirrorInv, AllocationMerges
<1>2. pending' = mirror /\ Newest' = mirror
  BY <1>1, ClientSeqAssumptions DEF AllocationMerges, Merge, Newest, Number
<1>3. /\ issued' \in Seq(Nat) /\ Len(issued') = Len(issued) + 1 /\ Len(issued) \in Nat
      /\ \A k \in 1..Len(issued) : issued'[k] = issued[k]
      /\ issued'[Len(issued) + 1] = mirror
  BY <1>1
<1>4. \A k \in 1..Len(issued) : issued[k] \in Nat /\ issued[k] < mirror
  <2>1. Newest < mirror /\ Newest \in Nat
    BY <1>1, NewestType DEF NewestInv
  <2>2. \A k \in 1..Len(issued) : issued[k] \in Nat /\ issued[k] <= Newest
    BY <1>1 DEF NewestInv
  <2> QED BY <1>1, <2>1, <2>2
<1>5. \A k \in 1..Len(issued') : issued'[k] <= mirror
  BY <1>1, <1>3, <1>4
<1>6. StrictlyIncreasing'
  <2> SUFFICES ASSUME NEW a \in 1..Len(issued'), NEW b \in 1..Len(issued'), a < b
               PROVE  issued'[a] < issued'[b]
    BY <1>3 DEF StrictlyIncreasing
  <2>1. a \in 1..Len(issued)
    BY <1>3
  <2>2. CASE b \in 1..Len(issued)
    BY <1>1, <1>3, <2>1, <2>2 DEF NewestInv, StrictlyIncreasing
  <2>3. CASE b = Len(issued) + 1
    BY <1>3, <1>4, <2>1, <2>3
  <2> QED BY <1>3, <2>2, <2>3
<1>7. mirror' # None
  BY <1>1, ClientSeqAssumptions
<1>8. DOMAIN issued' = 1..Len(issued')
  BY <1>3
<1> QED BY <1>1, <1>2, <1>5, <1>6, <1>7, <1>8 DEF NewestInv

(* Every step without a fault keeps NewestInv, if no save() merges a stale snapshot. *)
LEMMA NextNewest ==
    ~Faults => (MirrorInv /\ DiskInv /\ NewestInv /\ [Next]_vars /\ [NoStaleSave]_vars
                  => NewestInv')
<1> SUFFICES ASSUME ~Faults, MirrorInv, DiskInv, NewestInv, [Next]_vars, [NoStaleSave]_vars
             PROVE  NewestInv'
  OBVIOUS
<1>0. Newest \in Nat
  BY NewestType
<1>a. ASSUME UNCHANGED <<pending, writes, disk>> PROVE Newest' = Newest
  BY <1>a DEF Newest
<1>1. CASE Allocate
  <2>1. Newest' = Newest /\ UNCHANGED <<writes, disk, issued>> /\ allocator = "idle"
    BY <1>1, <1>a DEF Allocate
  <2>2. CASE mirror = None
    BY <1>1, <2>1, <2>2 DEF Allocate, Unseeded, NewestInv, StrictlyIncreasing
  <2>3. CASE mirror # None
    <3>1. mirror' = mirror + 1 /\ allocator' = "loading" /\ mirror = Newest
      BY <1>1, <2>1, <2>3 DEF Allocate, Unseeded, NewestInv
    <3>2. mirror' # None /\ Newest < mirror'
      BY <1>0, <3>1, ClientSeqAssumptions
    <3> QED BY <2>1, <3>1, <3>2 DEF NewestInv, StrictlyIncreasing
  <2> QED BY <2>2, <2>3
<1>2. CASE Seed
  <2>1. Newest' = Newest /\ UNCHANGED issued /\ allocator' = "loading"
        /\ mirror' = Number(disk) + 1
    BY <1>2, <1>a DEF Seed
  <2>2. Number(disk) = Newest
    BY <1>2 DEF Seed, MirrorInv, NewestInv
  <2>3. mirror' # None /\ Newest < mirror'
    BY <1>0, <2>1, <2>2, ClientSeqAssumptions
  <2> QED BY <2>1, <2>3 DEF NewestInv, StrictlyIncreasing
<1>3. CASE AllocationLoads
  <2>1. Newest' = Newest
    BY <1>3, <1>a DEF AllocationLoads
  <2> QED BY <1>3, <2>1 DEF AllocationLoads, NewestInv, StrictlyIncreasing
<1>4. CASE AllocationMerges
  BY <1>4, IssueNewest
<1>5. ASSUME NEW s \in Savers, SaverLoads(s) PROVE NewestInv'
  <2>1. Newest' = Newest
    BY <1>5, <1>a DEF SaverLoads
  <2> QED BY <1>5, <2>1 DEF SaverLoads, NewestInv, StrictlyIncreasing
<1>6. ASSUME NEW s \in Savers, SaverMerges(s) PROVE NewestInv'
  <2>1. Newest' = Newest
    <3>1. CASE NoStaleSave
      BY <1>6, <3>1 DEF NoStaleSave
    <3>2. CASE UNCHANGED vars
      BY <1>a, <3>2 DEF vars
    <3> QED BY <3>1, <3>2
  <2> QED BY <1>6, <2>1 DEF SaverMerges, NewestInv, StrictlyIncreasing
<1>7. CASE TimerFires
  <2>1. /\ pending # None /\ pending' = None /\ writes' = Append(writes, pending)
        /\ pending \in Nat \cup {Absent} /\ writes \in Seq(Nat \cup {Absent})
        /\ UNCHANGED <<mirror, allocator, disk, issued>>
    BY <1>7 DEF TimerFires, DiskInv
  <2>2. Newest' = Newest /\ Number(pending) = Newest
    BY <1>7, <2>1, NewestMoves DEF Newest
  <2>3. ASSUME mirror = None, NEW j \in DOMAIN writes' PROVE Number(writes'[j]) = Newest
    <3>1. /\ j \in 1..(Len(writes) + 1) /\ writes'[Len(writes) + 1] = pending
          /\ \A k \in 1..Len(writes) : writes'[k] = writes[k]
      BY <2>1
    <3>2. CASE j \in 1..Len(writes)
      BY <2>1, <2>3, <3>1, <3>2 DEF NewestInv
    <3>3. CASE j = Len(writes) + 1
      BY <2>2, <3>1, <3>3
    <3> QED BY <2>1, <3>1, <3>2, <3>3
  <2> QED BY <2>1, <2>2, <2>3 DEF NewestInv, StrictlyIncreasing
<1>8. CASE WriteLands
  <2>1. /\ writes # <<>> /\ writes' = Tail(writes) /\ disk' = Head(writes)
        /\ writes \in Seq(Nat \cup {Absent})
        /\ UNCHANGED <<mirror, allocator, pending, issued>>
    BY <1>8 DEF WriteLands, DiskInv
  <2>2. Newest' = Newest
    BY <1>8, NewestMoves
  <2>3. ASSUME mirror = None
        PROVE  Number(disk') = Newest /\ \A j \in DOMAIN writes' : Number(writes'[j]) = Newest
    <3>1. 1 \in DOMAIN writes /\ disk' = writes[1]
      BY <2>1
    <3>2. \A j \in DOMAIN writes' : j + 1 \in DOMAIN writes /\ writes'[j] = writes[j + 1]
      BY <2>1
    <3> QED BY <2>3, <3>1, <3>2 DEF NewestInv
  <2> QED BY <2>1, <2>2, <2>3 DEF NewestInv, StrictlyIncreasing
<1>9. CASE Restart
  <2>1. /\ pending = None /\ writes = <<>> /\ pending' = None /\ writes' = <<>>
        /\ UNCHANGED <<disk, issued>> /\ mirror' = None /\ allocator' = "idle"
    BY <1>9 DEF Restart, Outstanding
  <2>2. Newest' = Newest /\ Newest = Number(disk)
    BY <2>1 DEF Newest
  <2> QED BY <2>1, <2>2 DEF NewestInv, StrictlyIncreasing
<1>10. CASE UNCHANGED vars
  <2>1. Newest' = Newest
    BY <1>10, <1>a DEF vars
  <2> QED BY <1>10, <2>1 DEF vars, NewestInv, StrictlyIncreasing
<1> QED BY <1>1, <1>2, <1>3, <1>4, <1>5, <1>6, <1>7, <1>8, <1>9, <1>10
        DEF Next, SeedRaises, AllocationLoadRaises, WriteFails

(* No number was handed out, and none is on disk. *)
LEMMA InitNewest == Init => NewestInv
BY ClientSeqAssumptions DEF Init, NewestInv, Newest, Number, StrictlyIncreasing

(* What checkpoints.ts claims of its numbers, and the code does not keep (the finding
   of the run ClientSeqRestart), holds over any number of orderly restarts as soon
   as no save() merges a snapshot that was overtaken while it waited: the stale
   merge is the only cause of a number that comes twice.                    *)
THEOREM IncreasingWithoutStaleSaves ==
    ~Faults => (Spec /\ [][NoStaleSave]_vars => []StrictlyIncreasing)
<1> SUFFICES ASSUME ~Faults
             PROVE  Spec /\ [][NoStaleSave]_vars => []StrictlyIncreasing
  OBVIOUS
<1>1. Init => MirrorInv /\ DiskInv /\ NewestInv
  BY InitMirrorInv, InitDiskInv, InitNewest
<1>2. /\ MirrorInv /\ DiskInv /\ NewestInv
      /\ [Next]_vars /\ [NoStaleSave]_vars
      => (MirrorInv /\ DiskInv /\ NewestInv)'
  BY NextMirrorInv, NextDiskInv, NextNewest
<1>3. NewestInv => StrictlyIncreasing
  BY DEF NewestInv
<1> QED BY <1>1, <1>2, <1>3, PTL DEF Spec
=============================================================================
