-------------------------- MODULE LocalRunsProofs --------------------------
(***************************************************************************)
(* Proofs about LocalRuns, for any set of runs and workers.                 *)
(***************************************************************************)
EXTENDS LocalRuns, TLAPS

(* A run that was never handed out has left no trace but its place in the
   queue, and its row is as new as the run.                                 *)
FreshInv ==
    \A r \in Runs :
        /\ status[r] = "new" <=> durable[r] = "new"
        /\ status[r] = "new" => handed[r] = 0
        /\ handed[r] = 0 => /\ claim[r] = NoClaim /\ recovery[r] = "no"
                            /\ \A w \in Workers : job[w] # r

(* No copy of the tables is worse than the tables were, but for the runs that
   were saved half-way through a claim.                                     *)
CopySound(t) ==
    \A r \in Runs : t.claim[r] # NoClaim => /\ handed[r] # 0
                                            /\ r \in t.pending => r \in torn

CopyInv == \A t \in late \cup {disk} : CopySound(t)

Open(r) == status[r] \in {"queued_local", "running_local"}

(* Each place in the queue, and each one promised, is paid for. *)
Paid(r) ==
    handed[r] + (IF r \in pending THEN 1 ELSE 0) + (IF recovery[r] = "queued" THEN 1 ELSE 0)
        <= 1 + retries[r] + restarts

(* A run whose claim was not half saved is in one place at a time. *)
Placed(r) ==
    /\ Paid(r)
    /\ r \notin torn =>
          /\ r \in pending => claim[r] = NoClaim /\ recovery[r] = "no"
          /\ claim[r] # NoClaim => recovery[r] = "no"

(* A run that was not disturbed has the status of its place. *)
Standing(r) ==
    /\ r \in pending => status[r] \in {"queued_local", "cancelled"}
    /\ claim[r] # NoClaim => Open(r)
    /\ recovery[r] \in {"popped", "deciding"} => Open(r)
    /\ recovery[r] = "queued" => status[r] = "queued_local"
    /\ recovery[r] = "ending" => status[r] = "failed"
    /\ durable[r] \in Terminal => status[r] = durable[r]

(* What a request about such a run may rely on. *)
Served(r) ==
    \A w \in Workers : job[w] = r =>
        /\ stage[w] \in {"claiming", "read", "passed"} => claim[r].worker = w
        /\ stage[w] = "passed" => status[r] = "running_local" /\ result[r] = w
        /\ stage[w] \in {"released", "ending"} =>
              r \notin pending /\ claim[r] = NoClaim /\ recovery[r] = "no"
        /\ stage[w] = "ending" => status[r] = "completed"
        /\ stage[w] = "released" =>
              /\ status[r] = "running_local" /\ result[r] = w
              /\ \A v \in Workers : job[v] = r /\ stage[v] = "released" => v = w

InHands(r) ==
    Open(r) => \/ r \in pending \/ claim[r] # NoClaim \/ recovery[r] # "no"
               \/ r \in dropped
               \/ \E w \in Workers : job[w] = r /\ stage[w] = "released"

Finished(r) == status[r] = "completed" => result[r] = doneBy[r]

Sound(r) == Standing(r) /\ Served(r) /\ InHands(r) /\ Finished(r)

IInv == /\ TypeOK /\ FreshInv /\ CopyInv
        /\ \A r \in Runs : Placed(r)
        /\ \A r \in Runs \ Disturbed : Sound(r)

(* What is still to be shown of a step once the types are preserved: that it
   preserves FreshInv and Placed, and Sound for each run not disturbed by it.  *)
StepSound == /\ FreshInv'
             /\ \A r \in Runs : Placed(r)'
             /\ \A r \in Runs \ Disturbed' : Sound(r)'

RunTyped ==
    /\ status \in [Runs -> Statuses] /\ durable \in [Runs -> Statuses]
    /\ result \in [Runs -> Workers \cup {NoWorker}]
    /\ retries \in [Runs -> 0..MaxRetries] /\ handed \in [Runs -> Leases]

TablesTyped ==
    pending \subseteq Runs /\ claim \in [Runs -> Claims] /\ stale \subseteq Claimed

SavedTyped ==
    disk \in TableCopies /\ late \subseteq TableCopies

WorkersTyped ==
    /\ stage \in [Workers ->
                    {"idle", "claiming", "working", "read", "passed", "released", "ending",
                     "failing"}]
    /\ job \in [Workers -> Runs \cup {NoRun}]
    /\ \A w \in Workers : job[w] = NoRun <=> stage[w] = "idle"

RestTyped ==
    /\ recovery \in [Runs -> {"no", "popped", "deciding", "queued", "ending"}]
    /\ restarts \in 0..MaxRestarts /\ faults \in 0..MaxFaults
    /\ overtaken \subseteq Runs /\ dropped \subseteq Runs /\ torn \subseteq Runs
    /\ doneBy \in [Runs -> Workers \cup {NoWorker}]


-----------------------------------------------------------------------------
(* The type invariant in parts. *)
LEMMA TypeParts ==
    TypeOK <=> /\ RunTyped /\ TablesTyped /\ SavedTyped /\ WorkersTyped /\ RestTyped
               /\ wedged \in BOOLEAN
  <1>1. Tables \in TableCopies <=> pending \subseteq Runs /\ claim \in [Runs -> Claims]
    BY DEF Tables, TableCopies
  <1> QED
    BY <1>1, Zenon DEF TypeOK, RunTyped, TablesTyped, SavedTyped, WorkersTyped,
       RestTyped

(* Persist keeps the types of the copies, and makes no copy but of the tables
   before and after each of the step's changes.                              *)
LEMMA PersistCopies ==
    ASSUME NEW mids, TypeOK, Persist(mids), Tables' \in TableCopies,
           mids \subseteq TableCopies
    PROVE  /\ disk' \in TableCopies /\ late' \subseteq TableCopies
           /\ faults' \in 0..MaxFaults
           /\ \A t \in late' \cup {disk'} :
                 t \in late \cup {disk} \/ t = Tables' \/ t \in mids
  BY LocalRunsAssumptions DEF TypeOK, Persist, Fault

(* The copies stay sound in a step that makes only sound copies besides one of
   the tables.                                                               *)
LEMMA CopyStep ==
    ASSUME IInv, StepSound, torn \subseteq torn',
           \A r \in Runs : handed[r] # 0 => handed'[r] # 0,
           \A t \in late' \cup {disk'} :
               t \in late \cup {disk} \/ t = Tables' \/ CopySound(t)'
    PROVE  CopyInv'
  <1>1. \A r \in Runs : claim'[r] # NoClaim =>
            handed'[r] # 0 /\ (r \in pending' => r \in torn')
    BY DEF StepSound, FreshInv, Placed, NoClaim
  <1>2. SUFFICES ASSUME NEW t \in late' \cup {disk'} PROVE CopySound(t)'
    BY DEF CopyInv
  <1>3. CASE t \in late \cup {disk}
    BY <1>3 DEF IInv, CopyInv, CopySound, NoClaim
  <1>4. CASE t = Tables'
    BY <1>1, <1>4 DEF CopySound, Tables, NoClaim
  <1> QED BY <1>2, <1>3, <1>4

(* The initial state is sound. *)
LEMMA InitIInv == Init => IInv
  <1> SUFFICES ASSUME Init PROVE IInv OBVIOUS
  <1>1. TypeOK
    <2>1. RunTyped /\ TablesTyped /\ WorkersTyped /\ RestTyped
      BY LocalRunsAssumptions DEF Init, RunTyped, TablesTyped, WorkersTyped,
         RestTyped, Claims, Leases, Statuses, Claimed, NoClaim
    <2>2. SavedTyped
      BY LocalRunsAssumptions DEF Init, SavedTyped, Tables, TableCopies, Claims,
         NoClaim
    <2>3. wedged \in BOOLEAN
      BY DEF Init
    <2> QED BY <2>1, <2>2, <2>3, TypeParts
  <1>2. FreshInv
    BY LocalRunsAssumptions DEF Init, FreshInv, NoClaim
  <1>3. CopyInv
    BY DEF Init, CopyInv, CopySound, Tables, NoClaim
  <1>4. \A r \in Runs : Placed(r) /\ Sound(r)
    BY LocalRunsAssumptions DEF Init, Sound, Placed, Paid, Standing, Served, InHands,
       Finished, Open, Terminal, NoClaim
  <1> QED BY <1>1, <1>2, <1>3, <1>4 DEF IInv

(* A step preserves the invariant if it preserves the types, makes only sound
   copies, forgets no claim and keeps every run sound.                        *)
LEMMA Combine ==
    ASSUME IInv, RunTyped', TablesTyped', SavedTyped', WorkersTyped', RestTyped',
           (wedged \in BOOLEAN)', StepSound, torn \subseteq torn',
           \A r \in Runs : handed[r] # 0 => handed'[r] # 0,
           \A t \in late' \cup {disk'} :
               t \in late \cup {disk} \/ t = Tables' \/ CopySound(t)'
    PROVE  IInv'
  <1>1. CopyInv'
    BY CopyStep
  <1>2. Tables' \in TableCopies
    BY DEF TablesTyped, Tables, TableCopies
  <1>3. TypeOK'
    BY <1>2, Zenon DEF TypeOK, RunTyped, TablesTyped, SavedTyped, WorkersTyped,
       RestTyped
  <1> QED BY <1>1, <1>3 DEF StepSound, IInv

(* A new run was never claimed, so it can be offered. *)
LEMMA EnqueueStep ==
    ASSUME IInv, NEW r0 \in Runs, Enqueue(r0)
    PROVE  IInv'
  <1> USE LocalRunsAssumptions, TypeParts
  <1>1. TablesTyped'
    BY DEF IInv, Enqueue, workers, history, TablesTyped, Claimed
  <1>2. /\ SavedTyped' /\ faults' \in 0..MaxFaults
        /\ \A t \in late' \cup {disk'} :
              t \in late \cup {disk} \/ t = Tables' \/ CopySound(t)'
    <2>1. Tables' \in TableCopies
      BY <1>1 DEF TablesTyped, Tables, TableCopies
    <2> QED
      BY <2>1, PersistCopies DEF IInv, Enqueue, workers, history, SavedTyped,
         RestTyped
  <1>3. RunTyped' /\ WorkersTyped'
    BY DEF IInv, Enqueue, workers, history, RunTyped, WorkersTyped, Statuses
  <1>4. RestTyped'
    BY <1>2 DEF IInv, Enqueue, workers, history, RestTyped
  <1>5. (wedged \in BOOLEAN)'
    BY Zenon DEF IInv, Enqueue, workers, history
  <1>6. FreshInv'
    BY DEF IInv, FreshInv, Enqueue, workers, history, RunTyped
  <1>7. ASSUME NEW r \in Runs PROVE Placed(r)'
    BY DEF IInv, Placed, Paid, Enqueue, workers, history, FreshInv, RunTyped,
       RestTyped, Leases
  <1>8. ASSUME NEW r \in Runs, r \notin Disturbed' PROVE Sound(r)'
    <2>1. r \notin torn /\ Sound(r)
      BY <1>8 DEF IInv, Disturbed, Enqueue, workers, history
    <2>2. Standing(r)'
      BY <1>8, <2>1 DEF IInv, Sound, Standing, Open, Enqueue, workers, history,
         RunTyped, Statuses, Terminal, FreshInv
    <2>3. Served(r)'
      BY <1>8, <2>1 DEF IInv, Sound, Served, Enqueue, workers, history, RunTyped,
         FreshInv
    <2>4. InHands(r)'
      BY <1>8, <2>1 DEF IInv, Sound, InHands, Open, Enqueue, workers, history,
         RunTyped
    <2>5. Finished(r)'
      BY <1>8, <2>1 DEF IInv, Sound, Finished, Enqueue, workers, history, RunTyped
    <2> QED BY <2>2, <2>3, <2>4, <2>5 DEF Sound
  <1>9. torn \subseteq torn' /\ \A r \in Runs : handed[r] # 0 => handed'[r] # 0
    BY DEF IInv, Enqueue, workers, history
  <1>10. StepSound
    BY <1>6, <1>7, <1>8 DEF StepSound
  <1> QED BY <1>1, <1>2, <1>3, <1>4, <1>5, <1>9, <1>10, Combine

(* The run leaves the queue as it is claimed, and pays with its place in it. *)
LEMMA ClaimStep ==
    ASSUME IInv, NEW w \in Workers, NEW r0 \in Runs, Claim(w, r0)
    PROVE  IInv'
  <1> USE LocalRunsAssumptions, TypeParts
  <1>1. TablesTyped'
    BY DEF IInv, Claim, Eligible, TablesTyped, Claimed, RunTyped, Claims, Leases
  <1>2. /\ SavedTyped' /\ faults' \in 0..MaxFaults
        /\ \A t \in late' \cup {disk'} :
              t \in late \cup {disk} \/ t = Tables' \/ CopySound(t)'
    <2> DEFINE halfway == [pending |-> pending, claim |-> claim']
    <2>1. Tables' \in TableCopies /\ halfway \in TableCopies
      BY <1>1 DEF IInv, TablesTyped, Tables, TableCopies
    <2>2. disk' = halfway => \A t : t = halfway => CopySound(t)'
      BY DEF IInv, Claim, Placed, FreshInv, CopySound, TablesTyped, RunTyped,
         Leases, NoClaim
    <2>3. Persist({halfway})
      BY DEF Claim
    <2> HIDE DEF halfway
    <2>4. /\ disk' \in TableCopies /\ late' \subseteq TableCopies
          /\ faults' \in 0..MaxFaults
          /\ late' \subseteq late \cup {Tables'}
          /\ disk' = Tables' \/ disk' = halfway \/ disk' = disk
      BY <2>1, <2>3 DEF IInv, Persist, Fault, SavedTyped, RestTyped
    <2> QED BY <2>2, <2>4 DEF SavedTyped
  <1>3. RunTyped' /\ WorkersTyped'
    BY DEF IInv, Claim, Eligible, RunTyped, WorkersTyped, Leases
  <1>4. RestTyped'
    BY <1>2 DEF IInv, Claim, Eligible, RestTyped
  <1>5. (wedged \in BOOLEAN)'
    BY Zenon DEF IInv, Claim, Eligible
  <1>6. FreshInv'
    BY DEF IInv, FreshInv, Claim, Eligible, RunTyped, Leases, TablesTyped
  <1>7. ASSUME NEW r \in Runs PROVE Placed(r)'
    BY DEF IInv, Placed, Paid, Claim, Eligible, RunTyped, RestTyped, Leases,
       TablesTyped
  <1>8. ASSUME NEW r \in Runs, r \notin Disturbed' PROVE Sound(r)'
    <2>1. r \notin torn /\ Sound(r)
      BY <1>8 DEF IInv, Disturbed, Claim, Eligible
    <2>2. Standing(r)'
      BY <1>8, <2>1 DEF IInv, Sound, Standing, Open, Claim, Eligible, TablesTyped,
         NoClaim, Terminal, Placed
    <2>3. Served(r)'
      BY <1>8, <2>1 DEF IInv, Sound, Served, Claim, Eligible, Placed, TablesTyped,
         WorkersTyped, NoClaim
    <2>4. InHands(r)'
      BY <1>8, <2>1 DEF IInv, Sound, InHands, Open, Claim, Eligible, Placed,
         Standing, MayAcquire, TablesTyped, NoClaim
    <2>5. Finished(r)'
      BY <1>8, <2>1 DEF IInv, Sound, Finished, Claim, Eligible
    <2> QED BY <2>2, <2>3, <2>4, <2>5 DEF Sound
  <1>9. torn \subseteq torn' /\ \A r \in Runs : handed[r] # 0 => handed'[r] # 0
    BY DEF IInv, Claim, Eligible, RunTyped, Leases
  <1>10. StepSound
    BY <1>6, <1>7, <1>8 DEF StepSound
  <1> QED BY <1>1, <1>2, <1>3, <1>4, <1>5, <1>9, <1>10, Combine

(* Nothing is pruned but runs that nobody waits for. *)
LEMMA PollPrunesStep ==
    ASSUME IInv, NEW w \in Workers, PollPrunes(w)
    PROVE  IInv'
  <1> USE LocalRunsAssumptions, TypeParts
  <1>1. TablesTyped'
    BY DEF IInv, PollPrunes, run, workers, history, TablesTyped, Claimed
  <1>2. /\ SavedTyped' /\ faults' \in 0..MaxFaults
        /\ \A t \in late' \cup {disk'} :
              t \in late \cup {disk} \/ t = Tables' \/ CopySound(t)'
    <2>1. Tables' \in TableCopies
      BY <1>1 DEF TablesTyped, Tables, TableCopies
    <2> QED
      BY <2>1, PersistCopies DEF IInv, PollPrunes, run, workers, history,
         SavedTyped, RestTyped
  <1>3. RunTyped' /\ WorkersTyped'
    BY DEF IInv, PollPrunes, run, workers, history, RunTyped, WorkersTyped
  <1>4. RestTyped'
    BY <1>2 DEF IInv, PollPrunes, run, workers, history, RestTyped
  <1>5. (wedged \in BOOLEAN)'
    BY Zenon DEF IInv, PollPrunes, run, workers, history
  <1>6. FreshInv'
    BY DEF IInv, FreshInv, PollPrunes, run, workers, history
  <1>7. ASSUME NEW r \in Runs PROVE Placed(r)'
    BY DEF IInv, Placed, Paid, PollPrunes, run, workers, history, RunTyped,
       RestTyped, Leases
  <1>8. ASSUME NEW r \in Runs, r \notin Disturbed' PROVE Sound(r)'
    <2>1. r \notin torn /\ Sound(r)
      BY <1>8 DEF IInv, Disturbed, PollPrunes, run, workers, history
    <2>2. Standing(r)'
      BY <1>8, <2>1 DEF IInv, Sound, Standing, Open, PollPrunes, run, workers,
         history
    <2>3. Served(r)'
      BY <1>8, <2>1 DEF IInv, Sound, Served, PollPrunes, run, workers, history
    <2>4. InHands(r)'
      BY <1>8, <2>1 DEF IInv, Sound, InHands, Open, PollPrunes, run, workers,
         history, Standing, Eligible
    <2>5. Finished(r)'
      BY <1>8, <2>1 DEF IInv, Sound, Finished, PollPrunes, run, workers, history
    <2> QED BY <2>2, <2>3, <2>4, <2>5 DEF Sound
  <1>9. torn \subseteq torn' /\ \A r \in Runs : handed[r] # 0 => handed'[r] # 0
    BY DEF IInv, PollPrunes, run, workers, history
  <1>10. StepSound
    BY <1>6, <1>7, <1>8 DEF StepSound
  <1> QED BY <1>1, <1>2, <1>3, <1>4, <1>5, <1>9, <1>10, Combine

(* The claim a run is bound under is still its worker's, or was overtaken. *)
LEMMA BindStep ==
    ASSUME IInv, NEW w \in Workers, Bind(w)
    PROVE  IInv'
  <1> USE LocalRunsAssumptions, TypeParts
  <1>1. TablesTyped'
    BY DEF IInv, Bind, tables, saved, bounds, history, TablesTyped, Claimed
  <1>2. /\ SavedTyped' /\ faults' \in 0..MaxFaults
        /\ \A t \in late' \cup {disk'} :
              t \in late \cup {disk} \/ t = Tables' \/ CopySound(t)'
    BY DEF IInv, Bind, tables, saved, bounds, history, SavedTyped, RestTyped
  <1>3. RunTyped' /\ WorkersTyped'
    BY DEF IInv, Bind, tables, saved, bounds, history, RunTyped, WorkersTyped,
       Statuses
  <1>4. RestTyped'
    BY <1>2 DEF IInv, Bind, tables, saved, bounds, history, RestTyped
  <1>5. (wedged \in BOOLEAN)'
    BY Zenon DEF IInv, Bind, tables, saved, bounds, history
  <1>6. FreshInv'
    BY DEF IInv, FreshInv, Bind, tables, saved, bounds, history, RunTyped,
       WorkersTyped
  <1>7. ASSUME NEW r \in Runs PROVE Placed(r)'
    BY DEF IInv, Placed, Paid, Bind, tables, saved, bounds, history
  <1>8. ASSUME NEW r \in Runs, r \notin Disturbed' PROVE Sound(r)'
    <2>1. r \notin torn /\ Sound(r)
      BY <1>8 DEF IInv, Disturbed, Bind, tables, saved, bounds, history
    <2>2. Standing(r)'
      BY <1>8, <2>1 DEF IInv, Sound, Standing, Open, Bind, tables, saved, bounds,
         history, Placed, Served, RunTyped, WorkersTyped, NoClaim, Terminal
    <2>3. Served(r)'
      BY <1>8, <2>1 DEF IInv, Sound, Served, Bind, tables, saved, bounds, history,
         Standing, RunTyped, WorkersTyped, NoClaim, Open
    <2>4. InHands(r)'
      BY <1>8, <2>1 DEF IInv, Sound, InHands, Open, Bind, tables, saved, bounds,
         history, Served, RunTyped, WorkersTyped, NoClaim
    <2>5. Finished(r)'
      BY <1>8, <2>1 DEF IInv, Sound, Finished, Bind, tables, saved, bounds, history,
         RunTyped, WorkersTyped
    <2> QED BY <2>2, <2>3, <2>4, <2>5 DEF Sound
  <1>9. torn \subseteq torn' /\ \A r \in Runs : handed[r] # 0 => handed'[r] # 0
    BY DEF IInv, Bind, tables, saved, bounds, history
  <1>10. StepSound
    BY <1>6, <1>7, <1>8 DEF StepSound
  <1> QED BY <1>1, <1>2, <1>3, <1>4, <1>5, <1>9, <1>10, Combine

(* A heartbeat only makes a claim young again. *)
LEMMA HeartbeatStep ==
    ASSUME IInv, NEW w \in Workers, Heartbeat(w)
    PROVE  IInv'
  <1> USE LocalRunsAssumptions, TypeParts
  <1>1. TablesTyped'
    BY DEF IInv, Heartbeat, run, tables, workers, saved, bounds, history,
       TablesTyped, Claimed
  <1>2. /\ SavedTyped' /\ faults' \in 0..MaxFaults
        /\ \A t \in late' \cup {disk'} :
              t \in late \cup {disk} \/ t = Tables' \/ CopySound(t)'
    BY DEF IInv, Heartbeat, run, tables, workers, saved, bounds, history,
       SavedTyped, RestTyped
  <1>3. RunTyped' /\ WorkersTyped'
    BY DEF IInv, Heartbeat, run, tables, workers, saved, bounds, history, RunTyped,
       WorkersTyped
  <1>4. RestTyped'
    BY <1>2 DEF IInv, Heartbeat, run, tables, workers, saved, bounds, history,
       RestTyped
  <1>5. (wedged \in BOOLEAN)'
    BY Zenon DEF IInv, Heartbeat, run, tables, workers, saved, bounds, history
  <1>6. FreshInv'
    BY DEF IInv, FreshInv, Heartbeat, run, tables, workers, saved, bounds, history
  <1>7. ASSUME NEW r \in Runs PROVE Placed(r)'
    BY DEF IInv, Placed, Paid, Heartbeat, run, tables, workers, saved, bounds,
       history
  <1>8. ASSUME NEW r \in Runs, r \notin Disturbed' PROVE Sound(r)'
    <2>1. r \notin torn /\ Sound(r)
      BY <1>8 DEF IInv, Disturbed, Heartbeat, run, tables, workers, saved, bounds,
         history
    <2>2. Standing(r)'
      BY <1>8, <2>1 DEF IInv, Sound, Standing, Open, Heartbeat, run, tables,
         workers, saved, bounds, history
    <2>3. Served(r)'
      BY <1>8, <2>1 DEF IInv, Sound, Served, Heartbeat, run, tables, workers, saved,
         bounds, history
    <2>4. InHands(r)'
      BY <1>8, <2>1 DEF IInv, Sound, InHands, Open, Heartbeat, run, tables, workers,
         saved, bounds, history
    <2>5. Finished(r)'
      BY <1>8, <2>1 DEF IInv, Sound, Finished, Heartbeat, run, tables, workers,
         saved, bounds, history
    <2> QED BY <2>2, <2>3, <2>4, <2>5 DEF Sound
  <1>9. torn \subseteq torn' /\ \A r \in Runs : handed[r] # 0 => handed'[r] # 0
    BY DEF IInv, Heartbeat, run, tables, workers, saved, bounds, history
  <1>10. StepSound
    BY <1>6, <1>7, <1>8 DEF StepSound
  <1> QED BY <1>1, <1>2, <1>3, <1>4, <1>5, <1>9, <1>10, Combine

(* Time only makes a claim old. *)
LEMMA SilenceStep ==
    ASSUME IInv, NEW r0 \in Runs, Silence(r0)
    PROVE  IInv'
  <1> USE LocalRunsAssumptions, TypeParts
  <1>1. TablesTyped'
    BY DEF IInv, Silence, run, tables, workers, saved, bounds, history, TablesTyped,
       Claimed
  <1>2. /\ SavedTyped' /\ faults' \in 0..MaxFaults
        /\ \A t \in late' \cup {disk'} :
              t \in late \cup {disk} \/ t = Tables' \/ CopySound(t)'
    BY DEF IInv, Silence, run, tables, workers, saved, bounds, history, SavedTyped,
       RestTyped
  <1>3. RunTyped' /\ WorkersTyped'
    BY DEF IInv, Silence, run, tables, workers, saved, bounds, history, RunTyped,
       WorkersTyped
  <1>4. RestTyped'
    BY <1>2 DEF IInv, Silence, run, tables, workers, saved, bounds, history,
       RestTyped
  <1>5. (wedged \in BOOLEAN)'
    BY Zenon DEF IInv, Silence, run, tables, workers, saved, bounds, history
  <1>6. FreshInv'
    BY DEF IInv, FreshInv, Silence, run, tables, workers, saved, bounds, history
  <1>7. ASSUME NEW r \in Runs PROVE Placed(r)'
    BY DEF IInv, Placed, Paid, Silence, run, tables, workers, saved, bounds, history
  <1>8. ASSUME NEW r \in Runs, r \notin Disturbed' PROVE Sound(r)'
    <2>1. r \notin torn /\ Sound(r)
      BY <1>8 DEF IInv, Disturbed, Silence, run, tables, workers, saved, bounds,
         history
    <2>2. Standing(r)'
      BY <1>8, <2>1 DEF IInv, Sound, Standing, Open, Silence, run, tables, workers,
         saved, bounds, history
    <2>3. Served(r)'
      BY <1>8, <2>1 DEF IInv, Sound, Served, Silence, run, tables, workers, saved,
         bounds, history
    <2>4. InHands(r)'
      BY <1>8, <2>1 DEF IInv, Sound, InHands, Open, Silence, run, tables, workers,
         saved, bounds, history
    <2>5. Finished(r)'
      BY <1>8, <2>1 DEF IInv, Sound, Finished, Silence, run, tables, workers, saved,
         bounds, history
    <2> QED BY <2>2, <2>3, <2>4, <2>5 DEF Sound
  <1>9. torn \subseteq torn' /\ \A r \in Runs : handed[r] # 0 => handed'[r] # 0
    BY DEF IInv, Silence, run, tables, workers, saved, bounds, history
  <1>10. StepSound
    BY <1>6, <1>7, <1>8 DEF StepSound
  <1> QED BY <1>1, <1>2, <1>3, <1>4, <1>5, <1>9, <1>10, Combine

(* The request remembers a claim that is its worker's. *)
LEMMA CompleteReadsStep ==
    ASSUME IInv, NEW w \in Workers, CompleteReads(w)
    PROVE  IInv'
  <1> USE LocalRunsAssumptions, TypeParts
  <1>1. TablesTyped'
    BY DEF IInv, CompleteReads, Goto, run, tables, saved, bounds, history,
       TablesTyped, Claimed
  <1>2. /\ SavedTyped' /\ faults' \in 0..MaxFaults
        /\ \A t \in late' \cup {disk'} :
              t \in late \cup {disk} \/ t = Tables' \/ CopySound(t)'
    BY DEF IInv, CompleteReads, Goto, run, tables, saved, bounds, history,
       SavedTyped, RestTyped
  <1>3. RunTyped' /\ WorkersTyped'
    BY DEF IInv, CompleteReads, Goto, run, tables, saved, bounds, history, RunTyped,
       WorkersTyped
  <1>4. RestTyped'
    BY <1>2 DEF IInv, CompleteReads, Goto, run, tables, saved, bounds, history,
       RestTyped
  <1>5. (wedged \in BOOLEAN)'
    BY Zenon DEF IInv, CompleteReads, Goto, run, tables, saved, bounds, history
  <1>6. FreshInv'
    BY DEF IInv, FreshInv, CompleteReads, Goto, run, tables, saved, bounds, history
  <1>7. ASSUME NEW r \in Runs PROVE Placed(r)'
    BY DEF IInv, Placed, Paid, CompleteReads, Goto, run, tables, saved, bounds,
       history
  <1>8. ASSUME NEW r \in Runs, r \notin Disturbed' PROVE Sound(r)'
    <2>1. r \notin torn /\ Sound(r)
      BY <1>8 DEF IInv, Disturbed, CompleteReads, Goto, run, tables, saved, bounds,
         history
    <2>2. Standing(r)'
      BY <1>8, <2>1 DEF IInv, Sound, Standing, Open, CompleteReads, Goto, run,
         tables, saved, bounds, history
    <2>3. Served(r)'
      BY <1>8, <2>1 DEF IInv, Sound, Served, CompleteReads, Goto, run, tables,
         saved, bounds, history, Owns, WorkersTyped
    <2>4. InHands(r)'
      BY <1>8, <2>1 DEF IInv, Sound, InHands, Open, CompleteReads, Goto, run,
         tables, saved, bounds, history, WorkersTyped
    <2>5. Finished(r)'
      BY <1>8, <2>1 DEF IInv, Sound, Finished, CompleteReads, Goto, run, tables,
         saved, bounds, history
    <2> QED BY <2>2, <2>3, <2>4, <2>5 DEF Sound
  <1>9. torn \subseteq torn' /\ \A r \in Runs : handed[r] # 0 => handed'[r] # 0
    BY DEF IInv, CompleteReads, Goto, run, tables, saved, bounds, history
  <1>10. StepSound
    BY <1>6, <1>7, <1>8 DEF StepSound
  <1> QED BY <1>1, <1>2, <1>3, <1>4, <1>5, <1>9, <1>10, Combine

(* The result is written by the worker that holds the claim. *)
LEMMA CompletePassesStep ==
    ASSUME IInv, NEW w \in Workers, CompletePasses(w)
    PROVE  IInv'
  <1> USE LocalRunsAssumptions, TypeParts
  <1>1. TablesTyped'
    BY DEF IInv, CompletePasses, Goto, tables, saved, bounds, history, TablesTyped,
       Claimed
  <1>2. /\ SavedTyped' /\ faults' \in 0..MaxFaults
        /\ \A t \in late' \cup {disk'} :
              t \in late \cup {disk} \/ t = Tables' \/ CopySound(t)'
    BY DEF IInv, CompletePasses, Goto, tables, saved, bounds, history, SavedTyped,
       RestTyped
  <1>3. RunTyped' /\ WorkersTyped'
    BY DEF IInv, CompletePasses, Goto, tables, saved, bounds, history, RunTyped,
       WorkersTyped
  <1>4. RestTyped'
    BY <1>2 DEF IInv, CompletePasses, Goto, tables, saved, bounds, history,
       RestTyped
  <1>5. (wedged \in BOOLEAN)'
    BY Zenon DEF IInv, CompletePasses, Goto, tables, saved, bounds, history
  <1>6. FreshInv'
    BY DEF IInv, FreshInv, CompletePasses, Goto, tables, saved, bounds, history
  <1>7. ASSUME NEW r \in Runs PROVE Placed(r)'
    BY DEF IInv, Placed, Paid, CompletePasses, Goto, tables, saved, bounds, history
  <1>8. ASSUME NEW r \in Runs, r \notin Disturbed' PROVE Sound(r)'
    <2>1. r \notin torn /\ Sound(r)
      BY <1>8 DEF IInv, Disturbed, CompletePasses, Goto, tables, saved, bounds,
         history
    <2>2. Standing(r)'
      BY <1>8, <2>1 DEF IInv, Sound, Standing, Open, CompletePasses, Goto, tables,
         saved, bounds, history
    <2>3. Served(r)'
      BY <1>8, <2>1 DEF IInv, Sound, Served, CompletePasses, Goto, tables, saved,
         bounds, history, RunTyped, WorkersTyped, NoClaim
    <2>4. InHands(r)'
      BY <1>8, <2>1 DEF IInv, Sound, InHands, Open, CompletePasses, Goto, tables,
         saved, bounds, history, WorkersTyped
    <2>5. Finished(r)'
      BY <1>8, <2>1 DEF IInv, Sound, Finished, CompletePasses, Goto, tables, saved,
         bounds, history, RunTyped, WorkersTyped
    <2> QED BY <2>2, <2>3, <2>4, <2>5 DEF Sound
  <1>9. torn \subseteq torn' /\ \A r \in Runs : handed[r] # 0 => handed'[r] # 0
    BY DEF IInv, CompletePasses, Goto, tables, saved, bounds, history
  <1>10. StepSound
    BY <1>6, <1>7, <1>8 DEF StepSound
  <1> QED BY <1>1, <1>2, <1>3, <1>4, <1>5, <1>9, <1>10, Combine

(* From the release to the new status the run is in its request's hands. *)
LEMMA CompleteReleasesStep ==
    ASSUME IInv, NEW w \in Workers, CompleteReleases(w)
    PROVE  IInv'
  <1> USE LocalRunsAssumptions, TypeParts
  <1>1. TablesTyped'
    BY DEF IInv, CompleteReleases, Goto, Unclaim, Without, run, tables, saved,
       history, TablesTyped, Claimed, Claims
  <1>2. /\ SavedTyped' /\ faults' \in 0..MaxFaults
        /\ \A t \in late' \cup {disk'} :
              t \in late \cup {disk} \/ t = Tables' \/ CopySound(t)'
    <2>1. Tables' \in TableCopies
      BY <1>1 DEF TablesTyped, Tables, TableCopies
    <2> QED
      BY <2>1, PersistCopies DEF IInv, CompleteReleases, Goto, Unclaim, Without,
         run, tables, saved, history, SavedTyped, RestTyped
  <1>3. RunTyped' /\ WorkersTyped'
    BY DEF IInv, CompleteReleases, Goto, Unclaim, Without, run, tables, saved,
       history, RunTyped, WorkersTyped
  <1>4. RestTyped'
    BY <1>2 DEF IInv, CompleteReleases, Goto, Unclaim, Without, run, tables, saved,
       history, RestTyped
  <1>5. (wedged \in BOOLEAN)'
    BY Zenon DEF IInv, CompleteReleases, Goto, Unclaim, Without, run, tables, saved,
       history
  <1>6. FreshInv'
    BY DEF IInv, FreshInv, CompleteReleases, Goto, Unclaim, Without, run, tables,
       saved, history
  <1>7. ASSUME NEW r \in Runs PROVE Placed(r)'
    BY DEF IInv, Placed, Paid, CompleteReleases, Goto, Unclaim, Without, run,
       tables, saved, history, TablesTyped
  <1>8. ASSUME NEW r \in Runs, r \notin Disturbed' PROVE Sound(r)'
    <2>1. r \notin torn /\ Sound(r)
      BY <1>8 DEF IInv, Disturbed, CompleteReleases, Goto, Unclaim, Without, run,
         tables, saved, history
    <2>2. Standing(r)'
      BY <1>8, <2>1 DEF IInv, Sound, Standing, Open, CompleteReleases, Goto,
         Unclaim, Without, run, tables, saved, history, TablesTyped
    <2>3. Served(r)'
      BY <1>8, <2>1 DEF IInv, Sound, Served, CompleteReleases, Goto, Unclaim,
         Without, run, tables, saved, history, Placed, Owns, TablesTyped, WorkersTyped,
         NoClaim
    <2>4. InHands(r)'
      BY <1>8, <2>1 DEF IInv, Sound, InHands, Open, CompleteReleases, Goto, Unclaim,
         Without, run, tables, saved, history, WorkersTyped, TablesTyped
    <2>5. Finished(r)'
      BY <1>8, <2>1 DEF IInv, Sound, Finished, CompleteReleases, Goto, Unclaim,
         Without, run, tables, saved, history
    <2> QED BY <2>2, <2>3, <2>4, <2>5 DEF Sound
  <1>9. torn \subseteq torn' /\ \A r \in Runs : handed[r] # 0 => handed'[r] # 0
    BY DEF IInv, CompleteReleases, Goto, Unclaim, Without, run, tables, saved,
       history
  <1>10. StepSound
    BY <1>6, <1>7, <1>8 DEF StepSound
  <1> QED BY <1>1, <1>2, <1>3, <1>4, <1>5, <1>9, <1>10, Combine

(* A run that its request has released is completed with the result it wrote. *)
LEMMA CompleteSetsStep ==
    ASSUME IInv, NEW w \in Workers, CompleteSets(w)
    PROVE  IInv'
  <1> USE LocalRunsAssumptions, TypeParts
  <1>1. TablesTyped'
    BY DEF IInv, CompleteSets, Goto, tables, saved, bounds, TablesTyped, Claimed
  <1>2. /\ SavedTyped' /\ faults' \in 0..MaxFaults
        /\ \A t \in late' \cup {disk'} :
              t \in late \cup {disk} \/ t = Tables' \/ CopySound(t)'
    BY DEF IInv, CompleteSets, Goto, tables, saved, bounds, SavedTyped, RestTyped
  <1>3. RunTyped' /\ WorkersTyped'
    BY DEF IInv, CompleteSets, Goto, tables, saved, bounds, RunTyped, WorkersTyped,
       Statuses, Terminal
  <1>4. RestTyped'
    BY <1>2 DEF IInv, CompleteSets, Goto, tables, saved, bounds, RestTyped
  <1>5. (wedged \in BOOLEAN)'
    BY Zenon DEF IInv, CompleteSets, Goto, tables, saved, bounds
  <1>6. FreshInv'
    BY DEF IInv, FreshInv, CompleteSets, Goto, tables, saved, bounds, RunTyped,
       WorkersTyped
  <1>7. ASSUME NEW r \in Runs PROVE Placed(r)'
    BY DEF IInv, Placed, Paid, CompleteSets, Goto, tables, saved, bounds
  <1>8. ASSUME NEW r \in Runs, r \notin Disturbed' PROVE Sound(r)'
    <2>1. r \notin torn /\ Sound(r)
      BY <1>8 DEF IInv, Disturbed, CompleteSets, Goto, tables, saved, bounds,
         history
    <2>2. Standing(r)'
      BY <1>8, <2>1 DEF IInv, Sound, Standing, Open, CompleteSets, Goto, tables,
         saved, bounds, Served, RunTyped, WorkersTyped, Terminal, NoClaim
    <2>3. Served(r)'
      BY <1>8, <2>1 DEF IInv, Sound, Served, CompleteSets, Goto, tables, saved,
         bounds, RunTyped, WorkersTyped
    <2>4. InHands(r)'
      BY <1>8, <2>1 DEF IInv, Sound, InHands, Open, CompleteSets, Goto, tables,
         saved, bounds, RunTyped, WorkersTyped, Served
    <2>5. Finished(r)'
      BY <1>8, <2>1 DEF IInv, Sound, Finished, CompleteSets, Goto, tables, saved,
         bounds, Served, RunTyped, WorkersTyped, RestTyped
    <2> QED BY <2>2, <2>3, <2>4, <2>5 DEF Sound
  <1>9. torn \subseteq torn' /\ \A r \in Runs : handed[r] # 0 => handed'[r] # 0
    BY DEF IInv, CompleteSets, Goto, tables, saved, bounds
  <1>10. StepSound
    BY <1>6, <1>7, <1>8 DEF StepSound
  <1> QED BY <1>1, <1>2, <1>3, <1>4, <1>5, <1>9, <1>10, Combine

(* Nothing is left in the tables of a run that was completed undisturbed. *)
LEMMA CompleteEndsStep ==
    ASSUME IInv, NEW w \in Workers, CompleteEnds(w)
    PROVE  IInv'
  <1> USE LocalRunsAssumptions, TypeParts
  <1>1. TablesTyped'
    BY DEF IInv, CompleteEnds, Reconcile, Drop, Unclaim, Without, run, saved,
       history, TablesTyped, Claimed, Claims
  <1>2. /\ SavedTyped' /\ faults' \in 0..MaxFaults
        /\ \A t \in late' \cup {disk'} :
              t \in late \cup {disk} \/ t = Tables' \/ CopySound(t)'
    <2> DEFINE halfway == [pending |-> pending', claim |-> claim]
    <2>1. Tables' \in TableCopies
      BY <1>1 DEF TablesTyped, Tables, TableCopies
    <2>2. \A t \in {halfway} : t \in TableCopies /\ CopySound(t)'
      BY <1>1 DEF IInv, CompleteEnds, Reconcile, Placed, FreshInv, CopySound, TableCopies,
         TablesTyped, NoClaim, run, history
    <2>3. Persist({halfway}) \/ UNCHANGED <<saved, faults>>
      BY Zenon DEF CompleteEnds, Reconcile
    <2> HIDE DEF halfway
    <2>4. CASE Persist({halfway})
      BY <2>1, <2>2, <2>4, PersistCopies DEF IInv, SavedTyped
    <2>5. CASE UNCHANGED <<saved, faults>>
      BY <2>5 DEF IInv, SavedTyped, RestTyped, saved
    <2> QED BY <2>3, <2>4, <2>5
  <1>3. RunTyped' /\ WorkersTyped'
    BY DEF IInv, CompleteEnds, Reconcile, Drop, Unclaim, Without, run, saved,
       history, RunTyped, WorkersTyped
  <1>4. RestTyped'
    BY <1>2 DEF IInv, CompleteEnds, Reconcile, Drop, Unclaim, Without, run, saved,
       history, RestTyped
  <1>5. (wedged \in BOOLEAN)'
    BY Zenon DEF IInv, CompleteEnds, Reconcile, Drop, Unclaim, Without, run, saved,
       history
  <1>6. FreshInv'
    BY DEF IInv, FreshInv, CompleteEnds, Reconcile, Drop, Unclaim, Without, run,
       saved, history
  <1>7. ASSUME NEW r \in Runs PROVE Placed(r)'
    BY DEF IInv, Placed, Paid, CompleteEnds, Reconcile, Drop, Unclaim, Without, run,
       saved, history, RunTyped, RestTyped, Leases, TablesTyped
  <1>8. ASSUME NEW r \in Runs, r \notin Disturbed' PROVE Sound(r)'
    <2>1. r \notin torn /\ Sound(r)
      BY <1>8 DEF IInv, Disturbed, CompleteEnds, Reconcile, Drop, Unclaim, Without,
         run, saved, history
    <2>2. Standing(r)'
      BY <1>8, <2>1 DEF IInv, Sound, Standing, Open, CompleteEnds, Reconcile, Drop,
         Unclaim, Without, run, saved, history, TablesTyped
    <2>3. Served(r)'
      BY <1>8, <2>1 DEF IInv, Sound, Served, CompleteEnds, Reconcile, Drop, Unclaim,
         Without, run, saved, history, TablesTyped, WorkersTyped, NoClaim
    <2>4. InHands(r)'
      BY <1>8, <2>1 DEF IInv, Sound, InHands, Open, CompleteEnds, Reconcile, Drop,
         Unclaim, Without, run, saved, history, Served, TablesTyped, WorkersTyped
    <2>5. Finished(r)'
      BY <1>8, <2>1 DEF IInv, Sound, Finished, CompleteEnds, Reconcile, Drop,
         Unclaim, Without, run, saved, history
    <2> QED BY <2>2, <2>3, <2>4, <2>5 DEF Sound
  <1>9. torn \subseteq torn' /\ \A r \in Runs : handed[r] # 0 => handed'[r] # 0
    BY DEF IInv, CompleteEnds, Reconcile, Drop, Unclaim, Without, run, saved,
       history
  <1>10. StepSound
    BY <1>6, <1>7, <1>8 DEF StepSound
  <1> QED BY <1>1, <1>2, <1>3, <1>4, <1>5, <1>9, <1>10, Combine

(* A request that is cut short leaves its claim, or drops the run. *)
LEMMA RequestRaisesStep ==
    ASSUME IInv, NEW w \in Workers, RequestRaises(w)
    PROVE  IInv'
  <1> USE LocalRunsAssumptions, TypeParts
  <1>1. TablesTyped'
    BY DEF IInv, RequestRaises, Goto, Drop, Fault, run, tables, saved, TablesTyped,
       Claimed
  <1>2. /\ SavedTyped' /\ faults' \in 0..MaxFaults
        /\ \A t \in late' \cup {disk'} :
              t \in late \cup {disk} \/ t = Tables' \/ CopySound(t)'
    BY DEF IInv, RequestRaises, Goto, Drop, Fault, run, tables, saved, SavedTyped,
       RestTyped
  <1>3. RunTyped' /\ WorkersTyped'
    BY DEF IInv, RequestRaises, Goto, Drop, Fault, run, tables, saved, RunTyped,
       WorkersTyped
  <1>4. RestTyped'
    BY <1>2 DEF IInv, RequestRaises, Goto, Drop, Fault, run, tables, saved,
       RestTyped, WorkersTyped
  <1>5. (wedged \in BOOLEAN)'
    BY Zenon DEF IInv, RequestRaises, Goto, Drop, Fault, run, tables, saved
  <1>6. FreshInv'
    BY DEF IInv, FreshInv, RequestRaises, Goto, Drop, Fault, run, tables, saved,
       WorkersTyped
  <1>7. ASSUME NEW r \in Runs PROVE Placed(r)'
    BY DEF IInv, Placed, Paid, RequestRaises, Goto, Drop, Fault, run, tables, saved
  <1>8. ASSUME NEW r \in Runs, r \notin Disturbed' PROVE Sound(r)'
    <2>1. r \notin torn /\ Sound(r)
      BY <1>8 DEF IInv, Disturbed, RequestRaises, Goto, Drop, Fault, run, tables,
         saved
    <2>2. Standing(r)'
      BY <1>8, <2>1 DEF IInv, Sound, Standing, Open, RequestRaises, Goto, Drop,
         Fault, run, tables, saved
    <2>3. Served(r)'
      BY <1>8, <2>1 DEF IInv, Sound, Served, RequestRaises, Goto, Drop, Fault, run,
         tables, saved, WorkersTyped
    <2>4. InHands(r)'
      BY <1>8, <2>1 DEF IInv, Sound, InHands, Open, RequestRaises, Goto, Drop,
         Fault, run, tables, saved, WorkersTyped
    <2>5. Finished(r)'
      BY <1>8, <2>1 DEF IInv, Sound, Finished, RequestRaises, Goto, Drop, Fault,
         run, tables, saved
    <2> QED BY <2>2, <2>3, <2>4, <2>5 DEF Sound
  <1>9. torn \subseteq torn' /\ \A r \in Runs : handed[r] # 0 => handed'[r] # 0
    BY DEF IInv, RequestRaises, Goto, Drop, Fault, run, tables, saved
  <1>10. StepSound
    BY <1>6, <1>7, <1>8 DEF StepSound
  <1> QED BY <1>1, <1>2, <1>3, <1>4, <1>5, <1>9, <1>10, Combine

(* A request that is refused had not released its claim. *)
LEMMA GiveUpStep ==
    ASSUME IInv, NEW w \in Workers, GiveUp(w)
    PROVE  IInv'
  <1> USE LocalRunsAssumptions, TypeParts
  <1>1. TablesTyped'
    BY DEF IInv, GiveUp, Drop, run, tables, saved, bounds, history, TablesTyped,
       Claimed
  <1>2. /\ SavedTyped' /\ faults' \in 0..MaxFaults
        /\ \A t \in late' \cup {disk'} :
              t \in late \cup {disk} \/ t = Tables' \/ CopySound(t)'
    BY DEF IInv, GiveUp, Drop, run, tables, saved, bounds, history, SavedTyped,
       RestTyped
  <1>3. RunTyped' /\ WorkersTyped'
    BY DEF IInv, GiveUp, Drop, run, tables, saved, bounds, history, RunTyped,
       WorkersTyped
  <1>4. RestTyped'
    BY <1>2 DEF IInv, GiveUp, Drop, run, tables, saved, bounds, history, RestTyped
  <1>5. (wedged \in BOOLEAN)'
    BY Zenon DEF IInv, GiveUp, Drop, run, tables, saved, bounds, history
  <1>6. FreshInv'
    BY DEF IInv, FreshInv, GiveUp, Drop, run, tables, saved, bounds, history,
       WorkersTyped
  <1>7. ASSUME NEW r \in Runs PROVE Placed(r)'
    BY DEF IInv, Placed, Paid, GiveUp, Drop, run, tables, saved, bounds, history
  <1>8. ASSUME NEW r \in Runs, r \notin Disturbed' PROVE Sound(r)'
    <2>1. r \notin torn /\ Sound(r)
      BY <1>8 DEF IInv, Disturbed, GiveUp, Drop, run, tables, saved, bounds, history
    <2>2. Standing(r)'
      BY <1>8, <2>1 DEF IInv, Sound, Standing, Open, GiveUp, Drop, run, tables,
         saved, bounds, history
    <2>3. Served(r)'
      BY <1>8, <2>1 DEF IInv, Sound, Served, GiveUp, Drop, run, tables, saved,
         bounds, history, WorkersTyped
    <2>4. InHands(r)'
      BY <1>8, <2>1 DEF IInv, Sound, InHands, Open, GiveUp, Drop, run, tables,
         saved, bounds, history, WorkersTyped
    <2>5. Finished(r)'
      BY <1>8, <2>1 DEF IInv, Sound, Finished, GiveUp, Drop, run, tables, saved,
         bounds, history
    <2> QED BY <2>2, <2>3, <2>4, <2>5 DEF Sound
  <1>9. torn \subseteq torn' /\ \A r \in Runs : handed[r] # 0 => handed'[r] # 0
    BY DEF IInv, GiveUp, Drop, run, tables, saved, bounds, history
  <1>10. StepSound
    BY <1>6, <1>7, <1>8 DEF StepSound
  <1> QED BY <1>1, <1>2, <1>3, <1>4, <1>5, <1>9, <1>10, Combine

(* A report of a failure changes nothing yet. *)
LEMMA FailReportedStep ==
    ASSUME IInv, NEW w \in Workers, FailReported(w)
    PROVE  IInv'
  <1> USE LocalRunsAssumptions, TypeParts
  <1>1. TablesTyped'
    BY DEF IInv, FailReported, Goto, run, tables, saved, bounds, history,
       TablesTyped, Claimed
  <1>2. /\ SavedTyped' /\ faults' \in 0..MaxFaults
        /\ \A t \in late' \cup {disk'} :
              t \in late \cup {disk} \/ t = Tables' \/ CopySound(t)'
    BY DEF IInv, FailReported, Goto, run, tables, saved, bounds, history,
       SavedTyped, RestTyped
  <1>3. RunTyped' /\ WorkersTyped'
    BY DEF IInv, FailReported, Goto, run, tables, saved, bounds, history, RunTyped,
       WorkersTyped
  <1>4. RestTyped'
    BY <1>2 DEF IInv, FailReported, Goto, run, tables, saved, bounds, history,
       RestTyped
  <1>5. (wedged \in BOOLEAN)'
    BY Zenon DEF IInv, FailReported, Goto, run, tables, saved, bounds, history
  <1>6. FreshInv'
    BY DEF IInv, FreshInv, FailReported, Goto, run, tables, saved, bounds, history,
       WorkersTyped
  <1>7. ASSUME NEW r \in Runs PROVE Placed(r)'
    BY DEF IInv, Placed, Paid, FailReported, Goto, run, tables, saved, bounds,
       history
  <1>8. ASSUME NEW r \in Runs, r \notin Disturbed' PROVE Sound(r)'
    <2>1. r \notin torn /\ Sound(r)
      BY <1>8 DEF IInv, Disturbed, FailReported, Goto, run, tables, saved, bounds,
         history
    <2>2. Standing(r)'
      BY <1>8, <2>1 DEF IInv, Sound, Standing, Open, FailReported, Goto, run,
         tables, saved, bounds, history
    <2>3. Served(r)'
      BY <1>8, <2>1 DEF IInv, Sound, Served, FailReported, Goto, run, tables, saved,
         bounds, history, WorkersTyped
    <2>4. InHands(r)'
      BY <1>8, <2>1 DEF IInv, Sound, InHands, Open, FailReported, Goto, run, tables,
         saved, bounds, history, WorkersTyped
    <2>5. Finished(r)'
      BY <1>8, <2>1 DEF IInv, Sound, Finished, FailReported, Goto, run, tables,
         saved, bounds, history
    <2> QED BY <2>2, <2>3, <2>4, <2>5 DEF Sound
  <1>9. torn \subseteq torn' /\ \A r \in Runs : handed[r] # 0 => handed'[r] # 0
    BY DEF IInv, FailReported, Goto, run, tables, saved, bounds, history
  <1>10. StepSound
    BY <1>6, <1>7, <1>8 DEF StepSound
  <1> QED BY <1>1, <1>2, <1>3, <1>4, <1>5, <1>9, <1>10, Combine

(* A refused report changes nothing. *)
LEMMA FailRefusedStep ==
    ASSUME IInv, NEW w \in Workers, FailRefused(w)
    PROVE  IInv'
  <1> USE LocalRunsAssumptions, TypeParts
  <1>1. TablesTyped'
    BY DEF IInv, FailRefused, Drop, run, tables, saved, bounds, history,
       TablesTyped, Claimed
  <1>2. /\ SavedTyped' /\ faults' \in 0..MaxFaults
        /\ \A t \in late' \cup {disk'} :
              t \in late \cup {disk} \/ t = Tables' \/ CopySound(t)'
    BY DEF IInv, FailRefused, Drop, run, tables, saved, bounds, history, SavedTyped,
       RestTyped
  <1>3. RunTyped' /\ WorkersTyped'
    BY DEF IInv, FailRefused, Drop, run, tables, saved, bounds, history, RunTyped,
       WorkersTyped
  <1>4. RestTyped'
    BY <1>2 DEF IInv, FailRefused, Drop, run, tables, saved, bounds, history,
       RestTyped
  <1>5. (wedged \in BOOLEAN)'
    BY Zenon DEF IInv, FailRefused, Drop, run, tables, saved, bounds, history
  <1>6. FreshInv'
    BY DEF IInv, FreshInv, FailRefused, Drop, run, tables, saved, bounds, history,
       WorkersTyped
  <1>7. ASSUME NEW r \in Runs PROVE Placed(r)'
    BY DEF IInv, Placed, Paid, FailRefused, Drop, run, tables, saved, bounds,
       history
  <1>8. ASSUME NEW r \in Runs, r \notin Disturbed' PROVE Sound(r)'
    <2>1. r \notin torn /\ Sound(r)
      BY <1>8 DEF IInv, Disturbed, FailRefused, Drop, run, tables, saved, bounds,
         history
    <2>2. Standing(r)'
      BY <1>8, <2>1 DEF IInv, Sound, Standing, Open, FailRefused, Drop, run, tables,
         saved, bounds, history
    <2>3. Served(r)'
      BY <1>8, <2>1 DEF IInv, Sound, Served, FailRefused, Drop, run, tables, saved,
         bounds, history, WorkersTyped
    <2>4. InHands(r)'
      BY <1>8, <2>1 DEF IInv, Sound, InHands, Open, FailRefused, Drop, run, tables,
         saved, bounds, history, WorkersTyped
    <2>5. Finished(r)'
      BY <1>8, <2>1 DEF IInv, Sound, Finished, FailRefused, Drop, run, tables,
         saved, bounds, history
    <2> QED BY <2>2, <2>3, <2>4, <2>5 DEF Sound
  <1>9. torn \subseteq torn' /\ \A r \in Runs : handed[r] # 0 => handed'[r] # 0
    BY DEF IInv, FailRefused, Drop, run, tables, saved, bounds, history
  <1>10. StepSound
    BY <1>6, <1>7, <1>8 DEF StepSound
  <1> QED BY <1>1, <1>2, <1>3, <1>4, <1>5, <1>9, <1>10, Combine

(* Claims that are swept are up for recovery; requests that hold one are
   overtaken. *)
LEMMA SweepStep ==
    ASSUME IInv, Sweep
    PROVE  IInv'
  <1> USE LocalRunsAssumptions, TypeParts
  <1>1. TablesTyped'
    BY DEF IInv, Sweep, Unclaim, Without, run, workers, TablesTyped, Claimed, Claims
  <1>2. /\ SavedTyped' /\ faults' \in 0..MaxFaults
        /\ \A t \in late' \cup {disk'} :
              t \in late \cup {disk} \/ t = Tables' \/ CopySound(t)'
    <2>1. Tables' \in TableCopies
      BY <1>1 DEF TablesTyped, Tables, TableCopies
    <2>2. \A t \in {[pending |-> pending, claim |-> Without(S)] : S \in SUBSET stale} :
              t \in TableCopies /\ CopySound(t)'
      BY <1>1 DEF IInv, Sweep, Unclaim, Without, run, workers, Placed, FreshInv,
         CopySound, TableCopies, TablesTyped, NoClaim, Claims
    <2> QED
      BY <2>1, <2>2, PersistCopies DEF IInv, Sweep, Unclaim, Without, run, workers,
         SavedTyped, RestTyped
  <1>3. RunTyped' /\ WorkersTyped'
    BY DEF IInv, Sweep, Unclaim, Without, run, workers, RunTyped, WorkersTyped
  <1>4. RestTyped'
    BY <1>2 DEF IInv, Sweep, Unclaim, Without, run, workers, RestTyped, TablesTyped,
       Claimed
  <1>5. (wedged \in BOOLEAN)'
    BY Zenon DEF IInv, Sweep, Unclaim, Without, run, workers
  <1>6. FreshInv'
    BY DEF IInv, FreshInv, Sweep, Unclaim, Without, run, workers, TablesTyped,
       Claimed
  <1>7. ASSUME NEW r \in Runs PROVE Placed(r)'
    BY DEF IInv, Placed, Paid, Sweep, Unclaim, Without, run, workers, RunTyped,
       RestTyped, Leases, TablesTyped, Claimed
  <1>8. ASSUME NEW r \in Runs, r \notin Disturbed' PROVE Sound(r)'
    <2>1. r \notin torn /\ Sound(r)
      BY <1>8 DEF IInv, Disturbed, Sweep, Unclaim, Without, run, workers
    <2>2. Standing(r)'
      BY <1>8, <2>1 DEF IInv, Sound, Standing, Open, Sweep, Unclaim, Without, run,
         workers, TablesTyped, Claimed
    <2>3. Served(r)'
      BY <1>8, <2>1 DEF IInv, Sound, Served, Sweep, Unclaim, Without, run, workers,
         InFlight, TablesTyped, Disturbed, Claimed, NoClaim
    <2>4. InHands(r)'
      BY <1>8, <2>1 DEF IInv, Sound, InHands, Open, Sweep, Unclaim, Without, run,
         workers, TablesTyped, Claimed
    <2>5. Finished(r)'
      BY <1>8, <2>1 DEF IInv, Sound, Finished, Sweep, Unclaim, Without, run, workers
    <2> QED BY <2>2, <2>3, <2>4, <2>5 DEF Sound
  <1>9. torn \subseteq torn' /\ \A r \in Runs : handed[r] # 0 => handed'[r] # 0
    BY DEF IInv, Sweep, Unclaim, Without, run, workers
  <1>10. StepSound
    BY <1>6, <1>7, <1>8 DEF StepSound
  <1> QED BY <1>1, <1>2, <1>3, <1>4, <1>5, <1>9, <1>10, Combine

(* Claims whose runs are forgotten count as overtaken. *)
LEMMA SweepAbortsStep ==
    ASSUME IInv, NEW S \in SUBSET Runs, SweepAborts(S)
    PROVE  IInv'
  <1> USE LocalRunsAssumptions, TypeParts
  <1>1. TablesTyped'
    BY DEF IInv, SweepAborts, Unclaim, Without, run, workers, TablesTyped, Claimed,
       Claims
  <1>2. /\ SavedTyped' /\ faults' \in 0..MaxFaults
        /\ \A t \in late' \cup {disk'} :
              t \in late \cup {disk} \/ t = Tables' \/ CopySound(t)'
    <2>1. Tables' \in TableCopies
      BY <1>1 DEF TablesTyped, Tables, TableCopies
    <2> QED
      BY <2>1 DEF IInv, SweepAborts, Unclaim, Without, run, workers, Fault,
         SavedTyped, RestTyped
  <1>3. RunTyped' /\ WorkersTyped'
    BY DEF IInv, SweepAborts, Unclaim, Without, run, workers, RunTyped, WorkersTyped
  <1>4. RestTyped'
    BY <1>2 DEF IInv, SweepAborts, Unclaim, Without, run, workers, RestTyped, Fault
  <1>5. (wedged \in BOOLEAN)'
    BY Zenon DEF IInv, SweepAborts, Unclaim, Without, run, workers
  <1>6. FreshInv'
    BY DEF IInv, FreshInv, SweepAborts, Unclaim, Without, run, workers
  <1>7. ASSUME NEW r \in Runs PROVE Placed(r)'
    BY DEF IInv, Placed, Paid, SweepAborts, Unclaim, Without, run, workers,
       TablesTyped
  <1>8. ASSUME NEW r \in Runs, r \notin Disturbed' PROVE Sound(r)'
    <2>1. r \notin torn /\ Sound(r)
      BY <1>8 DEF IInv, Disturbed, SweepAborts, Unclaim, Without, run, workers
    <2>2. Standing(r)'
      BY <1>8, <2>1 DEF IInv, Sound, Standing, Open, SweepAborts, Unclaim, Without,
         run, workers, TablesTyped
    <2>3. Served(r)'
      BY <1>8, <2>1 DEF IInv, Sound, Served, SweepAborts, Unclaim, Without, run,
         workers, TablesTyped, Disturbed
    <2>4. InHands(r)'
      BY <1>8, <2>1 DEF IInv, Sound, InHands, Open, SweepAborts, Unclaim, Without,
         run, workers, TablesTyped, Disturbed
    <2>5. Finished(r)'
      BY <1>8, <2>1 DEF IInv, Sound, Finished, SweepAborts, Unclaim, Without, run,
         workers
    <2> QED BY <2>2, <2>3, <2>4, <2>5 DEF Sound
  <1>9. torn \subseteq torn' /\ \A r \in Runs : handed[r] # 0 => handed'[r] # 0
    BY DEF IInv, SweepAborts, Unclaim, Without, run, workers
  <1>10. StepSound
    BY <1>6, <1>7, <1>8 DEF StepSound
  <1> QED BY <1>1, <1>2, <1>3, <1>4, <1>5, <1>9, <1>10, Combine

(* A run that ended is not recovered. *)
LEMMA RecoverReadsStep ==
    ASSUME IInv, NEW r0 \in Runs, RecoverReads(r0)
    PROVE  IInv'
  <1> USE LocalRunsAssumptions, TypeParts
  <1>1. TablesTyped'
    BY DEF IInv, RecoverReads, run, tables, workers, saved, bounds, history,
       TablesTyped, Claimed
  <1>2. /\ SavedTyped' /\ faults' \in 0..MaxFaults
        /\ \A t \in late' \cup {disk'} :
              t \in late \cup {disk} \/ t = Tables' \/ CopySound(t)'
    BY DEF IInv, RecoverReads, run, tables, workers, saved, bounds, history,
       SavedTyped, RestTyped
  <1>3. RunTyped' /\ WorkersTyped'
    BY DEF IInv, RecoverReads, run, tables, workers, saved, bounds, history,
       RunTyped, WorkersTyped
  <1>4. RestTyped'
    BY <1>2 DEF IInv, RecoverReads, run, tables, workers, saved, bounds, history,
       RestTyped
  <1>5. (wedged \in BOOLEAN)'
    BY Zenon DEF IInv, RecoverReads, run, tables, workers, saved, bounds, history
  <1>6. FreshInv'
    BY DEF IInv, FreshInv, RecoverReads, run, tables, workers, saved, bounds,
       history
  <1>7. ASSUME NEW r \in Runs PROVE Placed(r)'
    BY DEF IInv, Placed, Paid, RecoverReads, run, tables, workers, saved, bounds,
       history
  <1>8. ASSUME NEW r \in Runs, r \notin Disturbed' PROVE Sound(r)'
    <2>1. r \notin torn /\ Sound(r)
      BY <1>8 DEF IInv, Disturbed, RecoverReads, run, tables, workers, saved,
         bounds, history
    <2>2. Standing(r)'
      BY <1>8, <2>1 DEF IInv, Sound, Standing, Open, RecoverReads, run, tables,
         workers, saved, bounds, history
    <2>3. Served(r)'
      BY <1>8, <2>1 DEF IInv, Sound, Served, RecoverReads, run, tables, workers,
         saved, bounds, history, RestTyped
    <2>4. InHands(r)'
      BY <1>8, <2>1 DEF IInv, Sound, InHands, Open, RecoverReads, run, tables,
         workers, saved, bounds, history, Standing, RestTyped
    <2>5. Finished(r)'
      BY <1>8, <2>1 DEF IInv, Sound, Finished, RecoverReads, run, tables, workers,
         saved, bounds, history
    <2> QED BY <2>2, <2>3, <2>4, <2>5 DEF Sound
  <1>9. torn \subseteq torn' /\ \A r \in Runs : handed[r] # 0 => handed'[r] # 0
    BY DEF IInv, RecoverReads, run, tables, workers, saved, bounds, history
  <1>10. StepSound
    BY <1>6, <1>7, <1>8 DEF StepSound
  <1> QED BY <1>1, <1>2, <1>3, <1>4, <1>5, <1>9, <1>10, Combine

(* A retry is paid for a new place in the queue. *)
LEMMA RecoverRequeuesStep ==
    ASSUME IInv, NEW r0 \in Runs, RecoverRequeues(r0)
    PROVE  IInv'
  <1> USE LocalRunsAssumptions, TypeParts
  <1>1. TablesTyped'
    BY DEF IInv, RecoverRequeues, tables, workers, saved, bounds, history,
       TablesTyped, Claimed
  <1>2. /\ SavedTyped' /\ faults' \in 0..MaxFaults
        /\ \A t \in late' \cup {disk'} :
              t \in late \cup {disk} \/ t = Tables' \/ CopySound(t)'
    BY DEF IInv, RecoverRequeues, tables, workers, saved, bounds, history,
       SavedTyped, RestTyped
  <1>3. RunTyped' /\ WorkersTyped'
    BY DEF IInv, RecoverRequeues, tables, workers, saved, bounds, history, RunTyped,
       WorkersTyped, Statuses
  <1>4. RestTyped'
    BY <1>2 DEF IInv, RecoverRequeues, tables, workers, saved, bounds, history,
       RestTyped
  <1>5. (wedged \in BOOLEAN)'
    BY Zenon DEF IInv, RecoverRequeues, tables, workers, saved, bounds, history
  <1>6. FreshInv'
    BY DEF IInv, FreshInv, RecoverRequeues, tables, workers, saved, bounds, history,
       RunTyped
  <1>7. ASSUME NEW r \in Runs PROVE Placed(r)'
    BY DEF IInv, Placed, Paid, RecoverRequeues, tables, workers, saved, bounds,
       history, RunTyped, RestTyped, Leases
  <1>8. ASSUME NEW r \in Runs, r \notin Disturbed' PROVE Sound(r)'
    <2>1. r \notin torn /\ Sound(r)
      BY <1>8 DEF IInv, Disturbed, RecoverRequeues, tables, workers, saved, bounds,
         history
    <2>2. Standing(r)'
      BY <1>8, <2>1 DEF IInv, Sound, Standing, Open, RecoverRequeues, tables,
         workers, saved, bounds, history, Placed, RunTyped, RestTyped, Terminal
    <2>3. Served(r)'
      BY <1>8, <2>1 DEF IInv, Sound, Served, RecoverRequeues, tables, workers,
         saved, bounds, history, RunTyped, RestTyped, Placed, NoClaim
    <2>4. InHands(r)'
      BY <1>8, <2>1 DEF IInv, Sound, InHands, Open, RecoverRequeues, tables,
         workers, saved, bounds, history, RunTyped, RestTyped
    <2>5. Finished(r)'
      BY <1>8, <2>1 DEF IInv, Sound, Finished, RecoverRequeues, tables, workers,
         saved, bounds, history, RunTyped
    <2> QED BY <2>2, <2>3, <2>4, <2>5 DEF Sound
  <1>9. torn \subseteq torn' /\ \A r \in Runs : handed[r] # 0 => handed'[r] # 0
    BY DEF IInv, RecoverRequeues, tables, workers, saved, bounds, history
  <1>10. StepSound
    BY <1>6, <1>7, <1>8 DEF StepSound
  <1> QED BY <1>1, <1>2, <1>3, <1>4, <1>5, <1>9, <1>10, Combine

(* The run takes the place it has paid for. *)
LEMMA RecoverAppendsStep ==
    ASSUME IInv, NEW r0 \in Runs, RecoverAppends(r0)
    PROVE  IInv'
  <1> USE LocalRunsAssumptions, TypeParts
  <1>1. TablesTyped'
    BY DEF IInv, RecoverAppends, run, workers, history, TablesTyped, Claimed
  <1>2. /\ SavedTyped' /\ faults' \in 0..MaxFaults
        /\ \A t \in late' \cup {disk'} :
              t \in late \cup {disk} \/ t = Tables' \/ CopySound(t)'
    <2>1. Tables' \in TableCopies
      BY <1>1 DEF TablesTyped, Tables, TableCopies
    <2> QED
      BY <2>1, PersistCopies DEF IInv, RecoverAppends, run, workers, history,
         SavedTyped, RestTyped
  <1>3. RunTyped' /\ WorkersTyped'
    BY DEF IInv, RecoverAppends, run, workers, history, RunTyped, WorkersTyped
  <1>4. RestTyped'
    BY <1>2 DEF IInv, RecoverAppends, run, workers, history, RestTyped
  <1>5. (wedged \in BOOLEAN)'
    BY Zenon DEF IInv, RecoverAppends, run, workers, history
  <1>6. FreshInv'
    BY DEF IInv, FreshInv, RecoverAppends, run, workers, history
  <1>7. ASSUME NEW r \in Runs PROVE Placed(r)'
    BY DEF IInv, Placed, Paid, RecoverAppends, run, workers, history, RunTyped,
       RestTyped, Leases
  <1>8. ASSUME NEW r \in Runs, r \notin Disturbed' PROVE Sound(r)'
    <2>1. r \notin torn /\ Sound(r)
      BY <1>8 DEF IInv, Disturbed, RecoverAppends, run, workers, history
    <2>2. Standing(r)'
      BY <1>8, <2>1 DEF IInv, Sound, Standing, Open, RecoverAppends, run, workers,
         history, RestTyped
    <2>3. Served(r)'
      BY <1>8, <2>1 DEF IInv, Sound, Served, RecoverAppends, run, workers, history,
         RestTyped
    <2>4. InHands(r)'
      BY <1>8, <2>1 DEF IInv, Sound, InHands, Open, RecoverAppends, run, workers,
         history, RestTyped
    <2>5. Finished(r)'
      BY <1>8, <2>1 DEF IInv, Sound, Finished, RecoverAppends, run, workers, history
    <2> QED BY <2>2, <2>3, <2>4, <2>5 DEF Sound
  <1>9. torn \subseteq torn' /\ \A r \in Runs : handed[r] # 0 => handed'[r] # 0
    BY DEF IInv, RecoverAppends, run, workers, history
  <1>10. StepSound
    BY <1>6, <1>7, <1>8 DEF StepSound
  <1> QED BY <1>1, <1>2, <1>3, <1>4, <1>5, <1>9, <1>10, Combine

(* A run out of retries ends, and only then. *)
LEMMA RecoverFailsStep ==
    ASSUME IInv, NEW r0 \in Runs, RecoverFails(r0)
    PROVE  IInv'
  <1> USE LocalRunsAssumptions, TypeParts
  <1>1. TablesTyped'
    BY DEF IInv, RecoverFails, tables, workers, saved, bounds, history, TablesTyped,
       Claimed
  <1>2. /\ SavedTyped' /\ faults' \in 0..MaxFaults
        /\ \A t \in late' \cup {disk'} :
              t \in late \cup {disk} \/ t = Tables' \/ CopySound(t)'
    BY DEF IInv, RecoverFails, tables, workers, saved, bounds, history, SavedTyped,
       RestTyped
  <1>3. RunTyped' /\ WorkersTyped'
    BY DEF IInv, RecoverFails, tables, workers, saved, bounds, history, RunTyped,
       WorkersTyped, Statuses, Terminal
  <1>4. RestTyped'
    BY <1>2 DEF IInv, RecoverFails, tables, workers, saved, bounds, history,
       RestTyped
  <1>5. (wedged \in BOOLEAN)'
    BY Zenon DEF IInv, RecoverFails, tables, workers, saved, bounds, history
  <1>6. FreshInv'
    BY DEF IInv, FreshInv, RecoverFails, tables, workers, saved, bounds, history,
       RunTyped
  <1>7. ASSUME NEW r \in Runs PROVE Placed(r)'
    BY DEF IInv, Placed, Paid, RecoverFails, tables, workers, saved, bounds,
       history, RestTyped
  <1>8. ASSUME NEW r \in Runs, r \notin Disturbed' PROVE Sound(r)'
    <2>1. r \notin torn /\ Sound(r)
      BY <1>8 DEF IInv, Disturbed, RecoverFails, tables, workers, saved, bounds,
         history
    <2>2. Standing(r)'
      BY <1>8, <2>1 DEF IInv, Sound, Standing, Open, RecoverFails, tables, workers,
         saved, bounds, history, Placed, RunTyped, RestTyped, Terminal, NoClaim
    <2>3. Served(r)'
      BY <1>8, <2>1 DEF IInv, Sound, Served, RecoverFails, tables, workers, saved,
         bounds, history, RunTyped, RestTyped, Placed, NoClaim
    <2>4. InHands(r)'
      BY <1>8, <2>1 DEF IInv, Sound, InHands, Open, RecoverFails, tables, workers,
         saved, bounds, history, RunTyped, RestTyped
    <2>5. Finished(r)'
      BY <1>8, <2>1 DEF IInv, Sound, Finished, RecoverFails, tables, workers, saved,
         bounds, history, RunTyped
    <2> QED BY <2>2, <2>3, <2>4, <2>5 DEF Sound
  <1>9. torn \subseteq torn' /\ \A r \in Runs : handed[r] # 0 => handed'[r] # 0
    BY DEF IInv, RecoverFails, tables, workers, saved, bounds, history
  <1>10. StepSound
    BY <1>6, <1>7, <1>8 DEF StepSound
  <1> QED BY <1>1, <1>2, <1>3, <1>4, <1>5, <1>9, <1>10, Combine

(* A failed run is in neither table. *)
LEMMA RecoverEndsStep ==
    ASSUME IInv, NEW r0 \in Runs, RecoverEnds(r0)
    PROVE  IInv'
  <1> USE LocalRunsAssumptions, TypeParts
  <1>1. TablesTyped'
    BY DEF IInv, RecoverEnds, Reconcile, Unclaim, Without, run, workers, saved,
       history, TablesTyped, Claimed, Claims
  <1>2. /\ SavedTyped' /\ faults' \in 0..MaxFaults
        /\ \A t \in late' \cup {disk'} :
              t \in late \cup {disk} \/ t = Tables' \/ CopySound(t)'
    <2> DEFINE halfway == [pending |-> pending', claim |-> claim]
    <2>1. Tables' \in TableCopies
      BY <1>1 DEF TablesTyped, Tables, TableCopies
    <2>2. \A t \in {halfway} : t \in TableCopies /\ CopySound(t)'
      BY <1>1 DEF IInv, RecoverEnds, Reconcile, Placed, FreshInv, CopySound, TableCopies,
         TablesTyped, NoClaim, run, history
    <2>3. Persist({halfway}) \/ UNCHANGED <<saved, faults>>
      BY Zenon DEF RecoverEnds, Reconcile
    <2> HIDE DEF halfway
    <2>4. CASE Persist({halfway})
      BY <2>1, <2>2, <2>4, PersistCopies DEF IInv, SavedTyped
    <2>5. CASE UNCHANGED <<saved, faults>>
      BY <2>5 DEF IInv, SavedTyped, RestTyped, saved
    <2> QED BY <2>3, <2>4, <2>5
  <1>3. RunTyped' /\ WorkersTyped'
    BY DEF IInv, RecoverEnds, Reconcile, Unclaim, Without, run, workers, saved,
       history, RunTyped, WorkersTyped
  <1>4. RestTyped'
    BY <1>2 DEF IInv, RecoverEnds, Reconcile, Unclaim, Without, run, workers, saved,
       history, RestTyped
  <1>5. (wedged \in BOOLEAN)'
    BY Zenon DEF IInv, RecoverEnds, Reconcile, Unclaim, Without, run, workers,
       saved, history
  <1>6. FreshInv'
    BY DEF IInv, FreshInv, RecoverEnds, Reconcile, Unclaim, Without, run, workers,
       saved, history
  <1>7. ASSUME NEW r \in Runs PROVE Placed(r)'
    BY DEF IInv, Placed, Paid, RecoverEnds, Reconcile, Unclaim, Without, run,
       workers, saved, history, RunTyped, RestTyped, Leases, TablesTyped
  <1>8. ASSUME NEW r \in Runs, r \notin Disturbed' PROVE Sound(r)'
    <2>1. r \notin torn /\ Sound(r)
      BY <1>8 DEF IInv, Disturbed, RecoverEnds, Reconcile, Unclaim, Without, run,
         workers, saved, history
    <2>2. Standing(r)'
      BY <1>8, <2>1 DEF IInv, Sound, Standing, Open, RecoverEnds, Reconcile,
         Unclaim, Without, run, workers, saved, history, TablesTyped, RestTyped
    <2>3. Served(r)'
      BY <1>8, <2>1 DEF IInv, Sound, Served, RecoverEnds, Reconcile, Unclaim,
         Without, run, workers, saved, history, TablesTyped, RestTyped, Placed
    <2>4. InHands(r)'
      BY <1>8, <2>1 DEF IInv, Sound, InHands, Open, RecoverEnds, Reconcile, Unclaim,
         Without, run, workers, saved, history, Standing, TablesTyped, RestTyped
    <2>5. Finished(r)'
      BY <1>8, <2>1 DEF IInv, Sound, Finished, RecoverEnds, Reconcile, Unclaim,
         Without, run, workers, saved, history
    <2> QED BY <2>2, <2>3, <2>4, <2>5 DEF Sound
  <1>9. torn \subseteq torn' /\ \A r \in Runs : handed[r] # 0 => handed'[r] # 0
    BY DEF IInv, RecoverEnds, Reconcile, Unclaim, Without, run, workers, saved,
       history
  <1>10. StepSound
    BY <1>6, <1>7, <1>8 DEF StepSound
  <1> QED BY <1>1, <1>2, <1>3, <1>4, <1>5, <1>9, <1>10, Combine

(* Runs whose recovery is cut short count as dropped. *)
LEMMA RecoveryRaisesStep ==
    ASSUME IInv, NEW S \in SUBSET Runs, RecoveryRaises(S)
    PROVE  IInv'
  <1> USE LocalRunsAssumptions, TypeParts
  <1>1. TablesTyped'
    BY DEF IInv, RecoveryRaises, Fault, run, tables, workers, saved, TablesTyped,
       Claimed
  <1>2. /\ SavedTyped' /\ faults' \in 0..MaxFaults
        /\ \A t \in late' \cup {disk'} :
              t \in late \cup {disk} \/ t = Tables' \/ CopySound(t)'
    BY DEF IInv, RecoveryRaises, Fault, run, tables, workers, saved, SavedTyped,
       RestTyped
  <1>3. RunTyped' /\ WorkersTyped'
    BY DEF IInv, RecoveryRaises, Fault, run, tables, workers, saved, RunTyped,
       WorkersTyped
  <1>4. RestTyped'
    BY <1>2 DEF IInv, RecoveryRaises, Fault, run, tables, workers, saved, RestTyped
  <1>5. (wedged \in BOOLEAN)'
    BY Zenon DEF IInv, RecoveryRaises, Fault, run, tables, workers, saved
  <1>6. FreshInv'
    BY DEF IInv, FreshInv, RecoveryRaises, Fault, run, tables, workers, saved
  <1>7. ASSUME NEW r \in Runs PROVE Placed(r)'
    BY DEF IInv, Placed, Paid, RecoveryRaises, Fault, run, tables, workers, saved,
       RunTyped, RestTyped, Leases
  <1>8. ASSUME NEW r \in Runs, r \notin Disturbed' PROVE Sound(r)'
    <2>1. r \notin torn /\ Sound(r)
      BY <1>8 DEF IInv, Disturbed, RecoveryRaises, Fault, run, tables, workers,
         saved
    <2>2. Standing(r)'
      BY <1>8, <2>1 DEF IInv, Sound, Standing, Open, RecoveryRaises, Fault, run,
         tables, workers, saved
    <2>3. Served(r)'
      BY <1>8, <2>1 DEF IInv, Sound, Served, RecoveryRaises, Fault, run, tables,
         workers, saved
    <2>4. InHands(r)'
      BY <1>8, <2>1 DEF IInv, Sound, InHands, Open, RecoveryRaises, Fault, run,
         tables, workers, saved
    <2>5. Finished(r)'
      BY <1>8, <2>1 DEF IInv, Sound, Finished, RecoveryRaises, Fault, run, tables,
         workers, saved
    <2> QED BY <2>2, <2>3, <2>4, <2>5 DEF Sound
  <1>9. torn \subseteq torn' /\ \A r \in Runs : handed[r] # 0 => handed'[r] # 0
    BY DEF IInv, RecoveryRaises, Fault, run, tables, workers, saved
  <1>10. StepSound
    BY <1>6, <1>7, <1>8 DEF StepSound
  <1> QED BY <1>1, <1>2, <1>3, <1>4, <1>5, <1>9, <1>10, Combine

(* A claim that goes with its row counts as overtaken. *)
LEMMA RowExpiresStep ==
    ASSUME IInv, NEW r0 \in Runs, RowExpires(r0)
    PROVE  IInv'
  <1> USE LocalRunsAssumptions, TypeParts
  <1>1. TablesTyped'
    BY DEF IInv, RowExpires, Unclaim, Without, run, workers, TablesTyped, Claimed,
       Claims
  <1>2. /\ SavedTyped' /\ faults' \in 0..MaxFaults
        /\ \A t \in late' \cup {disk'} :
              t \in late \cup {disk} \/ t = Tables' \/ CopySound(t)'
    <2>1. Tables' \in TableCopies
      BY <1>1 DEF TablesTyped, Tables, TableCopies
    <2> QED
      BY <2>1 DEF IInv, RowExpires, Unclaim, Without, run, workers, Fault,
         SavedTyped, RestTyped
  <1>3. RunTyped' /\ WorkersTyped'
    BY DEF IInv, RowExpires, Unclaim, Without, run, workers, RunTyped, WorkersTyped
  <1>4. RestTyped'
    BY <1>2 DEF IInv, RowExpires, Unclaim, Without, run, workers, RestTyped, Fault
  <1>5. (wedged \in BOOLEAN)'
    BY Zenon DEF IInv, RowExpires, Unclaim, Without, run, workers
  <1>6. FreshInv'
    BY DEF IInv, FreshInv, RowExpires, Unclaim, Without, run, workers
  <1>7. ASSUME NEW r \in Runs PROVE Placed(r)'
    BY DEF IInv, Placed, Paid, RowExpires, Unclaim, Without, run, workers,
       TablesTyped
  <1>8. ASSUME NEW r \in Runs, r \notin Disturbed' PROVE Sound(r)'
    <2>1. r \notin torn /\ Sound(r)
      BY <1>8 DEF IInv, Disturbed, RowExpires, Unclaim, Without, run, workers
    <2>2. Standing(r)'
      BY <1>8, <2>1 DEF IInv, Sound, Standing, Open, RowExpires, Unclaim, Without,
         run, workers, TablesTyped
    <2>3. Served(r)'
      BY <1>8, <2>1 DEF IInv, Sound, Served, RowExpires, Unclaim, Without, run,
         workers, TablesTyped, Disturbed
    <2>4. InHands(r)'
      BY <1>8, <2>1 DEF IInv, Sound, InHands, Open, RowExpires, Unclaim, Without,
         run, workers, TablesTyped, Disturbed
    <2>5. Finished(r)'
      BY <1>8, <2>1 DEF IInv, Sound, Finished, RowExpires, Unclaim, Without, run,
         workers
    <2> QED BY <2>2, <2>3, <2>4, <2>5 DEF Sound
  <1>9. torn \subseteq torn' /\ \A r \in Runs : handed[r] # 0 => handed'[r] # 0
    BY DEF IInv, RowExpires, Unclaim, Without, run, workers
  <1>10. StepSound
    BY <1>6, <1>7, <1>8 DEF StepSound
  <1> QED BY <1>1, <1>2, <1>3, <1>4, <1>5, <1>9, <1>10, Combine

(* Only runs that wait in the queue are cancelled. *)
LEMMA OperatorCleanupStep ==
    ASSUME IInv, NEW S \in SUBSET Runs, OperatorCleanup(S)
    PROVE  IInv'
  <1> USE LocalRunsAssumptions, TypeParts
  <1>1. TablesTyped'
    BY DEF IInv, OperatorCleanup, Cancel, Cancellable, Eligible, workers, history,
       TablesTyped, Claimed
  <1>2. /\ SavedTyped' /\ faults' \in 0..MaxFaults
        /\ \A t \in late' \cup {disk'} :
              t \in late \cup {disk} \/ t = Tables' \/ CopySound(t)'
    <2>1. Tables' \in TableCopies
      BY <1>1 DEF TablesTyped, Tables, TableCopies
    <2>2. \A t \in {[pending |-> pending \ T, claim |-> claim] : T \in SUBSET S} :
              t \in TableCopies /\ CopySound(t)'
      BY <1>1 DEF IInv, OperatorCleanup, Cancel, Cancellable, Eligible, workers,
         history, Placed, FreshInv, CopySound, TableCopies, TablesTyped, NoClaim
    <2> QED
      BY <2>1, <2>2, PersistCopies DEF IInv, OperatorCleanup, Cancel, Cancellable,
         Eligible, workers, history, SavedTyped, RestTyped
  <1>3. RunTyped' /\ WorkersTyped'
    BY DEF IInv, OperatorCleanup, Cancel, Cancellable, Eligible, workers, history,
       RunTyped, WorkersTyped, Statuses, Terminal
  <1>4. RestTyped'
    BY <1>2 DEF IInv, OperatorCleanup, Cancel, Cancellable, Eligible, workers,
       history, RestTyped
  <1>5. (wedged \in BOOLEAN)'
    BY Zenon DEF IInv, OperatorCleanup, Cancel, Cancellable, Eligible, workers,
       history
  <1>6. FreshInv'
    BY DEF IInv, FreshInv, OperatorCleanup, Cancel, Cancellable, Eligible, workers,
       history, RunTyped
  <1>7. ASSUME NEW r \in Runs PROVE Placed(r)'
    BY DEF IInv, Placed, Paid, OperatorCleanup, Cancel, Cancellable, Eligible,
       workers, history, RunTyped, RestTyped, Leases
  <1>8. ASSUME NEW r \in Runs, r \notin Disturbed' PROVE Sound(r)'
    <2>1. r \notin torn /\ Sound(r)
      BY <1>8 DEF IInv, Disturbed, OperatorCleanup, Cancel, Cancellable, Eligible,
         workers, history
    <2>2. Standing(r)'
      BY <1>8, <2>1 DEF IInv, Sound, Standing, Open, OperatorCleanup, Cancel,
         Cancellable, Eligible, workers, history, Placed, Terminal, Claimed, RunTyped
    <2>3. Served(r)'
      BY <1>8, <2>1 DEF IInv, Sound, Served, OperatorCleanup, Cancel, Cancellable,
         Eligible, workers, history, Claimed, NoClaim, RunTyped
    <2>4. InHands(r)'
      BY <1>8, <2>1 DEF IInv, Sound, InHands, Open, OperatorCleanup, Cancel,
         Cancellable, Eligible, workers, history, RunTyped
    <2>5. Finished(r)'
      BY <1>8, <2>1 DEF IInv, Sound, Finished, OperatorCleanup, Cancel, Cancellable,
         Eligible, workers, history, RunTyped
    <2> QED BY <2>2, <2>3, <2>4, <2>5 DEF Sound
  <1>9. torn \subseteq torn' /\ \A r \in Runs : handed[r] # 0 => handed'[r] # 0
    BY DEF IInv, OperatorCleanup, Cancel, Cancellable, Eligible, workers, history
  <1>10. StepSound
    BY <1>6, <1>7, <1>8 DEF StepSound
  <1> QED BY <1>1, <1>2, <1>3, <1>4, <1>5, <1>9, <1>10, Combine

(* A run that is cancelled in memory only still waits in the queue. *)
LEMMA CleanupRaisesStep ==
    ASSUME IInv, NEW S \in SUBSET Runs, NEW q \in Runs, CleanupRaises(S, q)
    PROVE  IInv'
  <1> USE LocalRunsAssumptions, TypeParts
  <1>1. TablesTyped'
    BY DEF IInv, CleanupRaises, Cancel, Cancellable, Eligible, workers, history,
       TablesTyped, Claimed
  <1>2. /\ SavedTyped' /\ faults' \in 0..MaxFaults
        /\ \A t \in late' \cup {disk'} :
              t \in late \cup {disk} \/ t = Tables' \/ CopySound(t)'
    <2>1. Tables' \in TableCopies
      BY <1>1 DEF TablesTyped, Tables, TableCopies
    <2> QED
      BY <2>1 DEF IInv, CleanupRaises, Cancel, Cancellable, Eligible, workers,
         history, Fault, SavedTyped, RestTyped
  <1>3. RunTyped' /\ WorkersTyped'
    BY DEF IInv, CleanupRaises, Cancel, Cancellable, Eligible, workers, history,
       RunTyped, WorkersTyped, Statuses, Terminal
  <1>4. RestTyped'
    BY <1>2 DEF IInv, CleanupRaises, Cancel, Cancellable, Eligible, workers,
       history, RestTyped, Fault
  <1>5. (wedged \in BOOLEAN)'
    BY Zenon DEF IInv, CleanupRaises, Cancel, Cancellable, Eligible, workers,
       history
  <1>6. FreshInv'
    BY DEF IInv, FreshInv, CleanupRaises, Cancel, Cancellable, Eligible, workers,
       history, RunTyped
  <1>7. ASSUME NEW r \in Runs PROVE Placed(r)'
    BY DEF IInv, Placed, Paid, CleanupRaises, Cancel, Cancellable, Eligible,
       workers, history, RunTyped, RestTyped, Leases
  <1>8. ASSUME NEW r \in Runs, r \notin Disturbed' PROVE Sound(r)'
    <2>1. r \notin torn /\ Sound(r)
      BY <1>8 DEF IInv, Disturbed, CleanupRaises, Cancel, Cancellable, Eligible,
         workers, history
    <2>2. Standing(r)'
      BY <1>8, <2>1 DEF IInv, Sound, Standing, Open, CleanupRaises, Cancel,
         Cancellable, Eligible, workers, history, Placed, Terminal, Claimed, RunTyped
    <2>3. Served(r)'
      BY <1>8, <2>1 DEF IInv, Sound, Served, CleanupRaises, Cancel, Cancellable,
         Eligible, workers, history, Claimed, NoClaim, RunTyped
    <2>4. InHands(r)'
      BY <1>8, <2>1 DEF IInv, Sound, InHands, Open, CleanupRaises, Cancel,
         Cancellable, Eligible, workers, history, RunTyped
    <2>5. Finished(r)'
      BY <1>8, <2>1 DEF IInv, Sound, Finished, CleanupRaises, Cancel, Cancellable,
         Eligible, workers, history, RunTyped
    <2> QED BY <2>2, <2>3, <2>4, <2>5 DEF Sound
  <1>9. torn \subseteq torn' /\ \A r \in Runs : handed[r] # 0 => handed'[r] # 0
    BY DEF IInv, CleanupRaises, Cancel, Cancellable, Eligible, workers, history
  <1>10. StepSound
    BY <1>6, <1>7, <1>8 DEF StepSound
  <1> QED BY <1>1, <1>2, <1>3, <1>4, <1>5, <1>9, <1>10, Combine

(* A late copy was a sound one. *)
LEMMA LateSaveStep ==
    ASSUME IInv, NEW t0 \in late, LateSave(t0)
    PROVE  IInv'
  <1> USE LocalRunsAssumptions, TypeParts
  <1>1. TablesTyped'
    BY DEF IInv, LateSave, run, tables, workers, bounds, history, TablesTyped,
       Claimed
  <1>2. /\ SavedTyped' /\ faults' \in 0..MaxFaults
        /\ \A t \in late' \cup {disk'} :
              t \in late \cup {disk} \/ t = Tables' \/ CopySound(t)'
    BY DEF IInv, LateSave, run, tables, workers, bounds, history, SavedTyped,
       RestTyped
  <1>3. RunTyped' /\ WorkersTyped'
    BY DEF IInv, LateSave, run, tables, workers, bounds, history, RunTyped,
       WorkersTyped
  <1>4. RestTyped'
    BY <1>2 DEF IInv, LateSave, run, tables, workers, bounds, history, RestTyped
  <1>5. (wedged \in BOOLEAN)'
    BY Zenon DEF IInv, LateSave, run, tables, workers, bounds, history
  <1>6. FreshInv'
    BY DEF IInv, FreshInv, LateSave, run, tables, workers, bounds, history
  <1>7. ASSUME NEW r \in Runs PROVE Placed(r)'
    BY DEF IInv, Placed, Paid, LateSave, run, tables, workers, bounds, history
  <1>8. ASSUME NEW r \in Runs, r \notin Disturbed' PROVE Sound(r)'
    <2>1. r \notin torn /\ Sound(r)
      BY <1>8 DEF IInv, Disturbed, LateSave, run, tables, workers, bounds, history
    <2>2. Standing(r)'
      BY <1>8, <2>1 DEF IInv, Sound, Standing, Open, LateSave, run, tables, workers,
         bounds, history
    <2>3. Served(r)'
      BY <1>8, <2>1 DEF IInv, Sound, Served, LateSave, run, tables, workers, bounds,
         history
    <2>4. InHands(r)'
      BY <1>8, <2>1 DEF IInv, Sound, InHands, Open, LateSave, run, tables, workers,
         bounds, history
    <2>5. Finished(r)'
      BY <1>8, <2>1 DEF IInv, Sound, Finished, LateSave, run, tables, workers,
         bounds, history
    <2> QED BY <2>2, <2>3, <2>4, <2>5 DEF Sound
  <1>9. torn \subseteq torn' /\ \A r \in Runs : handed[r] # 0 => handed'[r] # 0
    BY DEF IInv, LateSave, run, tables, workers, bounds, history
  <1>10. StepSound
    BY <1>6, <1>7, <1>8 DEF StepSound
  <1> QED BY <1>1, <1>2, <1>3, <1>4, <1>5, <1>9, <1>10, Combine

(* The row gets the status that the run has. *)
LEMMA RecordStep ==
    ASSUME IInv, NEW r0 \in Runs, Record(r0)
    PROVE  IInv'
  <1> USE LocalRunsAssumptions, TypeParts
  <1>1. TablesTyped'
    BY DEF IInv, Record, tables, workers, saved, bounds, history, TablesTyped,
       Claimed
  <1>2. /\ SavedTyped' /\ faults' \in 0..MaxFaults
        /\ \A t \in late' \cup {disk'} :
              t \in late \cup {disk} \/ t = Tables' \/ CopySound(t)'
    BY DEF IInv, Record, tables, workers, saved, bounds, history, SavedTyped,
       RestTyped
  <1>3. RunTyped' /\ WorkersTyped'
    BY DEF IInv, Record, tables, workers, saved, bounds, history, RunTyped,
       WorkersTyped
  <1>4. RestTyped'
    BY <1>2 DEF IInv, Record, tables, workers, saved, bounds, history, RestTyped
  <1>5. (wedged \in BOOLEAN)'
    BY Zenon DEF IInv, Record, tables, workers, saved, bounds, history
  <1>6. FreshInv'
    BY DEF IInv, FreshInv, Record, tables, workers, saved, bounds, history, RunTyped
  <1>7. ASSUME NEW r \in Runs PROVE Placed(r)'
    BY DEF IInv, Placed, Paid, Record, tables, workers, saved, bounds, history
  <1>8. ASSUME NEW r \in Runs, r \notin Disturbed' PROVE Sound(r)'
    <2>1. r \notin torn /\ Sound(r)
      BY <1>8 DEF IInv, Disturbed, Record, tables, workers, saved, bounds, history
    <2>2. Standing(r)'
      BY <1>8, <2>1 DEF IInv, Sound, Standing, Open, Record, tables, workers, saved,
         bounds, history, RunTyped
    <2>3. Served(r)'
      BY <1>8, <2>1 DEF IInv, Sound, Served, Record, tables, workers, saved, bounds,
         history
    <2>4. InHands(r)'
      BY <1>8, <2>1 DEF IInv, Sound, InHands, Open, Record, tables, workers, saved,
         bounds, history
    <2>5. Finished(r)'
      BY <1>8, <2>1 DEF IInv, Sound, Finished, Record, tables, workers, saved,
         bounds, history
    <2> QED BY <2>2, <2>3, <2>4, <2>5 DEF Sound
  <1>9. torn \subseteq torn' /\ \A r \in Runs : handed[r] # 0 => handed'[r] # 0
    BY DEF IInv, Record, tables, workers, saved, bounds, history
  <1>10. StepSound
    BY <1>6, <1>7, <1>8 DEF StepSound
  <1> QED BY <1>1, <1>2, <1>3, <1>4, <1>5, <1>9, <1>10, Combine

(* A restart finds every open run queued or claimed in what was saved, and pays
   for its new place. *)
LEMMA RestartStep ==
    ASSUME IInv, NEW expired \in SUBSET Runs, Restart(expired)
    PROVE  IInv'
  <1> USE LocalRunsAssumptions, TypeParts
  <1>0. /\ disk.pending \subseteq Runs /\ disk.claim \in [Runs -> Claims]
        /\ \A r \in Runs : disk.claim[r] # NoClaim => handed[r] # 0
        /\ \A r \in Runs : r \in disk.pending /\ disk.claim[r] # NoClaim => r \in torn
    BY DEF IInv, SavedTyped, TableCopies, CopyInv, CopySound
  <1>1. TablesTyped'
    BY <1>0 DEF IInv, Restart, Requeued, StillPending, TablesTyped, Claims, Claimed
  <1>2. /\ SavedTyped' /\ faults' \in 0..MaxFaults
        /\ \A t \in late' \cup {disk'} :
              t \in late \cup {disk} \/ t = Tables' \/ CopySound(t)'
    <2>1. Tables' \in TableCopies
      BY <1>1 DEF TablesTyped, Tables, TableCopies
    <2> QED
      BY <2>1 DEF IInv, Restart, Kept, Requeued, StillPending, history, Fault,
         SavedTyped, RestTyped
  <1>3. RunTyped' /\ WorkersTyped'
    BY DEF IInv, Restart, RunTyped, WorkersTyped, Statuses
  <1>4. RestTyped'
    BY <1>2 DEF IInv, Restart, Kept, Requeued, StillPending, history, RestTyped
  <1>5. (wedged \in BOOLEAN)'
    BY Zenon DEF IInv, Restart
  <1>6. FreshInv'
    BY <1>0 DEF IInv, FreshInv, Restart, Requeued, RunTyped, Statuses, Terminal
  <1>7. ASSUME NEW r \in Runs PROVE Placed(r)'
    <2>1. r \notin torn' /\ r \in pending' => claim'[r] = NoClaim
      BY <1>0 DEF Restart, Requeued, StillPending, history
    <2>2. recovery'[r] = "no"
      BY DEF Restart
    <2>3. Paid(r)'
      BY <2>2 DEF Restart, Paid, Placed, IInv, RunTyped, RestTyped, Leases
    <2> QED BY <2>1, <2>2, <2>3 DEF Placed
  <1>8. ASSUME NEW r \in Runs, r \notin Disturbed' PROVE Sound(r)'
    <2>1. r \notin torn /\ Sound(r)
      BY <1>8 DEF IInv, Disturbed, Restart, Kept, Requeued, StillPending, history
    <2>2. Standing(r)'
      <3>1. durable[r] = "new" => disk.claim[r] = NoClaim /\ r \notin expired
        BY <1>0 DEF IInv, FreshInv, Restart
      <3>2. r \in pending' => status'[r] = "queued_local"
        BY <1>8 DEF Restart, StillPending, IInv
      <3>3. claim'[r] # NoClaim => Open(r)'
        BY <3>1, <1>8 DEF Restart, Kept, Open, IInv, RunTyped, Statuses
      <3>4. recovery'[r] = "no"
        BY DEF Restart
      <3>5. durable'[r] \in Terminal => status'[r] = durable'[r]
        BY DEF Restart, Requeued, Terminal
      <3> QED BY <3>2, <3>3, <3>4, <3>5 DEF Standing
    <2>3. Served(r)'
      BY <1>0, <1>8, <2>1 DEF IInv, Served, Restart
    <2>4. InHands(r)'
      BY <1>0, <1>8, <2>1 DEF IInv, InHands, Open, Restart, Kept, Requeued
    <2>5. Finished(r)'
      BY <1>0, <1>8, <2>1 DEF IInv, Sound, Standing, Finished, Restart, Terminal,
         history
    <2> QED BY <2>2, <2>3, <2>4, <2>5 DEF Sound
  <1>9. torn \subseteq torn' /\ \A r \in Runs : handed[r] # 0 => handed'[r] # 0
    BY DEF IInv, Restart, history
  <1>10. StepSound
    BY <1>6, <1>7, <1>8 DEF StepSound
  <1> QED BY <1>1, <1>2, <1>3, <1>4, <1>5, <1>9, <1>10, Combine

(* Every step preserves the invariant. *)
LEMMA NextIInv == IInv /\ [Next]_vars => IInv'
  <1> SUFFICES ASSUME IInv, [Next]_vars PROVE IInv' OBVIOUS
  <1>1. ASSUME NEW w \in Workers, WorkerStep(w) \/ Heartbeat(w) \/ RequestRaises(w)
        PROVE  IInv'
    <2>1. CASE \E r \in Runs : Claim(w, r)
      BY <2>1, ClaimStep
    <2>2. CASE PollPrunes(w) \/ Bind(w)
      BY <2>2, PollPrunesStep, BindStep
    <2>3. CASE CompleteReads(w) \/ CompletePasses(w) \/ CompleteReleases(w)
      BY <2>3, CompleteReadsStep, CompletePassesStep, CompleteReleasesStep
    <2>4. CASE CompleteSets(w) \/ CompleteEnds(w) \/ RequestRaises(w)
      BY <2>4, CompleteSetsStep, CompleteEndsStep, RequestRaisesStep
    <2>5. CASE GiveUp(w) \/ FailReported(w) \/ FailRefused(w) \/ Heartbeat(w)
      BY <2>5, GiveUpStep, FailReportedStep, FailRefusedStep, HeartbeatStep
    <2> QED BY <1>1, <2>1, <2>2, <2>3, <2>4, <2>5 DEF WorkerStep
  <1>2. ASSUME NEW r \in Runs,
               Enqueue(r) \/ RecoveryStep(r) \/ Record(r) \/ Silence(r) \/ RowExpires(r)
        PROVE  IInv'
    <2>1. CASE RecoveryStep(r)
      BY <2>1, RecoverReadsStep, RecoverRequeuesStep, RecoverAppendsStep,
         RecoverFailsStep, RecoverEndsStep DEF RecoveryStep
    <2> QED BY <1>2, <2>1, EnqueueStep, RecordStep, SilenceStep, RowExpiresStep
  <1>3. ASSUME NEW S \in SUBSET Runs,
               \/ SweepAborts(S) \/ RecoveryRaises(S) \/ OperatorCleanup(S) \/ Restart(S)
               \/ \E q \in Runs : CleanupRaises(S, q)
        PROVE  IInv'
    BY <1>3, SweepAbortsStep, RecoveryRaisesStep, OperatorCleanupStep,
       CleanupRaisesStep, RestartStep
  <1>4. CASE UNCHANGED vars
    BY <1>4 DEF vars, run, tables, workers, saved, bounds, history, IInv, TypeOK,
       FreshInv, CopyInv, CopySound, Sound, Placed, Paid, Standing, Served, InHands,
       Finished, Open, Disturbed, Tables, Claimed
  <1> QED BY <1>1, <1>2, <1>3, <1>4, SweepStep, LateSaveStep DEF Next

(* The invariant holds in every state. *)
LEMMA InvariantHolds == Spec => []IInv
  BY InitIInv, NextIInv, PTL DEF Spec

(* Type correctness of the queue's state. *)
THEOREM TypeCorrect == Spec => []TypeOK
  <1>1. IInv => TypeOK
    BY DEF IInv
  <1> QED BY <1>1, InvariantHolds, PTL

(* No run is left to nobody by any interleaving of polls, completions, sweeps,
   saves, exceptions and restarts, unless its claim was overtaken or half saved,
   or an exception cut its recovery or completion short.                     *)
THEOREM NotStranded == Spec => []NoRunIsStranded
  <1>1. IInv => NoRunIsStranded
    BY DEF IInv, NoRunIsStranded, Sound, InHands, Open, Claimed
  <1> QED BY <1>1, InvariantHolds, PTL

(* A run is offered to a second worker while one holds it only after a restart
   from a copy of the tables that was saved half-way through a claim of it.   *)
THEOREM OfferedIsUnclaimed == Spec => []QueuedIsUnclaimed
  <1>1. IInv => QueuedIsUnclaimed
    BY TypeParts DEF IInv, TablesTyped, QueuedIsUnclaimed, Placed, Claimed
  <1> QED BY <1>1, InvariantHolds, PTL

(* Handing a run out again costs a retry of its budget, or a restart. *)
THEOREM RetriesAreBounded == Spec => []RetryBudget
  <1>1. IInv => RetryBudget
    BY TypeParts, LocalRunsAssumptions DEF IInv, RetryBudget, Placed, Paid, RunTyped,
       RestTyped, Leases
  <1> QED BY <1>1, InvariantHolds, PTL

(* The recorded result is the one of the request that completed the run. *)
THEOREM ResultOfFinisher == Spec => []ResultIsFinishers
  <1>1. IInv => ResultIsFinishers
    BY DEF IInv, ResultIsFinishers, Sound, Finished
  <1> QED BY <1>1, InvariantHolds, PTL

(* A step that changes a run's status is a step of a request, a recovery or an
   operator that found the run open, or a restart that found its row so.      *)
LEMMA EndedStep ==
    ASSUME IInv, [Next]_vars, NEW r \in Runs \ Disturbed', status[r] \in Terminal,
           durable[r] = status[r]
    PROVE  status'[r] = status[r]
  <1> SUFFICES ASSUME status'[r] # status[r] PROVE FALSE OBVIOUS
  <1>1. TypeOK /\ (r \notin Disturbed => Sound(r))
    BY DEF IInv
  <1>2. ASSUME NEW w \in Workers, Bind(w) PROVE FALSE
    BY <1>1, <1>2, TypeParts, LocalRunsAssumptions DEF Bind, RunTyped, WorkersTyped,
       Disturbed, history, Sound, Served, Standing, Open, Terminal, NoClaim
  <1>3. ASSUME NEW w \in Workers, CompleteSets(w) PROVE FALSE
    BY <1>1, <1>3, TypeParts DEF CompleteSets, RunTyped, WorkersTyped, Disturbed,
       Sound, Served, Terminal
  <1>4. ASSUME NEW q \in Runs, RecoverRequeues(q) \/ RecoverFails(q) PROVE FALSE
    BY <1>1, <1>4, TypeParts DEF RecoverRequeues, RecoverFails, RunTyped, Disturbed,
       history, Sound, Standing, Open, Terminal
  <1>5. ASSUME NEW q \in Runs, Enqueue(q) PROVE FALSE
    BY <1>1, <1>5, TypeParts DEF Enqueue, RunTyped, Terminal
  <1>6. ASSUME NEW S \in SUBSET Runs,
               \/ OperatorCleanup(S) \/ Restart(S)
               \/ \E q \in Runs : CleanupRaises(S, q)
        PROVE  FALSE
    BY <1>6 DEF OperatorCleanup, CleanupRaises, Cancellable, Eligible, Restart,
       Requeued, Terminal
  <1>7. status' # status OBVIOUS
  <1> QED
    BY <1>2, <1>3, <1>4, <1>5, <1>6, <1>7 DEF Next, vars, run, WorkerStep,
       RecoveryStep, Claim, PollPrunes, Heartbeat, Silence, CompleteReads,
       CompletePasses, CompleteReleases, CompleteEnds, RequestRaises, GiveUp,
       FailReported, FailRefused, Sweep, SweepAborts, RecoverReads, RecoverAppends,
       RecoverEnds, RecoveryRaises, RowExpires, LateSave, Record

(* No sweep, late worker, stale copy or restart brings back a run whose end is in
   its row.                                                                  *)
THEOREM EndedStaysEnded == Spec => TerminalIsFinal
  <1>1. IInv /\ [Next]_vars
          => [\A r \in Runs \ Disturbed' :
                  status[r] \in Terminal /\ durable[r] = status[r]
                      => status'[r] = status[r]]_vars
    BY EndedStep
  <1> QED BY <1>1, InvariantHolds, PTL DEF Spec, TerminalIsFinal
=============================================================================
