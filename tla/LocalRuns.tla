----------------------------- MODULE LocalRuns -----------------------------
(***************************************************************************)
(* The local run queue: runs wait in LOCAL_PENDING_RUN_IDS, a worker's poll *)
(* moves one to LOCAL_CLAIMED_RUNS, and a claim whose heartbeat is older    *)
(* than LOCAL_RUN_WORKER_LOST_TIMEOUT_SECONDS is taken back and the run is  *)
(* queued again, up to its retry budget (server_modules/local_queue.py,     *)
(* machine_lease_service.py, worker_dispatch_service.py, run_service.py).   *)
(*                                                                          *)
(* LOCAL_QUEUE_LOCK covers single accesses of the two tables, never a whole *)
(* request: each handler below is split where it lets go of the lock, reads *)
(* a run's status, or may raise.  Every decision of the runtime kernel      *)
(* (local_worker.rs, queue.rs, lease.rs, state.rs) is a conjunct of the     *)
(* step that asks for it.                                                   *)
(*                                                                          *)
(* Three copies of the state live apart: the tables and the runs in memory, *)
(* the tables in SQLite, and the runs in Postgres.  The tables save         *)
(* themselves at each change, and are saved once more after the handler's   *)
(* changes, from a copy taken under the lock and written outside it.  A     *)
(* failing save is ignored, a failing write of a run raises.                *)
(*                                                                          *)
(* Each claim also has a row in Postgres (local_queue_claims).  Rows are    *)
(* written and deleted by background tasks whose failures are only logged,  *)
(* so a row may outlive its claim: which rows there are is left open.       *)
(*                                                                          *)
(* Left out: runs with a browser checkpoint, pausing a run, capabilities    *)
(* and workspaces, and a crash while the server starts.                     *)
(* Which of the eligible runs the score prefers is left open.               *)
(***************************************************************************)
EXTENDS Integers, FiniteSets

CONSTANTS Runs, Workers,
          NoRun, NoWorker,
          MaxRetries,    \* LOCAL_QUEUE_MAX_AUTO_RETRIES
          MaxHanded,     \* bound: times a run is handed out
          MaxRestarts,   \* bound: restarts of the server
          MaxFaults      \* bound: saves late or failing, handlers that raise, claims
                         \* that are taken for expired

ASSUME LocalRunsAssumptions ==
    /\ NoRun \notin Runs /\ NoWorker \notin Workers
    /\ MaxRetries \in Nat /\ MaxHanded \in Nat
    /\ MaxRestarts \in Nat /\ MaxFaults \in Nat

VARIABLES
    status,      \* runs[r]["status"]
    durable,     \* the status in the run's row of Postgres (live_runs)
    result,      \* whose text is in runs[r]["result"]: a worker's, or the server's
                 \* own (NoWorker)
    retries,     \* local_queue_retry_count
    handed,      \* claims made of r so far; the n-th has lease id n
    pending,     \* LOCAL_PENDING_RUN_IDS
    claim,       \* LOCAL_CLAIMED_RUNS
    stale,       \* runs whose claim has missed its heartbeats for too long
    recovery,    \* how far cleanup_stale_machine_leases is with r
    job,         \* the run that worker w, or its request, is about
    stage,       \* what w is doing: "idle", "working", or where its request is
    disk,        \* the tables as last written to SQLite
    late,        \* copies of the tables still to be written
    wedged,      \* a thread waits for LOCAL_QUEUE_LOCK while it holds it
    restarts, faults,
    overtaken,   \* history: runs whose claim was dropped under a request of its
                 \* worker, or without the run being put up for recovery
    dropped,     \* history: runs in the hands of a handler that raised
    torn,        \* history: runs saved half-way through a claim, as queued and claimed
    doneBy       \* history: the worker whose request completed r

run == <<status, durable, result, retries, handed>>
tables == <<pending, claim>>
workers == <<job, stage>>
saved == <<disk, late>>
bounds == <<restarts, faults>>
history == <<overtaken, dropped, torn, doneBy>>
vars == <<run, tables, stale, recovery, workers, saved, wedged, bounds, history>>

Terminal == {"completed", "failed", "cancelled"}
NoClaim == [worker |-> NoWorker, lease |-> 0]
Claimed == {r \in Runs : claim[r] # NoClaim}
Tables == [pending |-> pending, claim |-> claim]

Init ==
    /\ status = [r \in Runs |-> "new"] /\ durable = status
    /\ result = [r \in Runs |-> NoWorker]
    /\ retries = [r \in Runs |-> 0] /\ handed = [r \in Runs |-> 0]
    /\ pending = {} /\ claim = [r \in Runs |-> NoClaim] /\ stale = {}
    /\ recovery = [r \in Runs |-> "no"]
    /\ job = [w \in Workers |-> NoRun] /\ stage = [w \in Workers |-> "idle"]
    /\ disk = Tables /\ late = {}
    /\ wedged = FALSE /\ restarts = 0 /\ faults = 0
    /\ overtaken = {} /\ dropped = {} /\ torn = {}
    /\ doneBy = [r \in Runs |-> NoWorker]

Fault == faults < MaxFaults /\ faults' = faults + 1

(* The tables are saved at each of a step's changes, and after the last: mids are
   the copies made between two changes.  If the process dies between them, or a
   save fails, an older copy stays; the last one may still be written late.   *)
Persist(mids) ==
    \/ disk' = Tables' /\ UNCHANGED <<late, faults>>
    \/ disk' \in mids \cup {disk} /\ late' = late \cup {Tables'} /\ Fault

(* replace_local_runtime_state of a copy that was late. *)
LateSave(t) ==
    /\ t \in late
    /\ disk' = t /\ late' = late \ {t}
    /\ UNCHANGED <<run, tables, stale, recovery, workers, wedged, bounds, history>>

(* _persist_run_repository_snapshot: the row gets the status.  For a status that is
   not terminal the write is a background task; for one that is, it is tried four
   times, and given up.  So it may come late, or never.  A write that a newer one
   overtook is refused by the row's version.                                  *)
Record(r) ==
    /\ durable[r] # status[r]
    /\ durable' = [durable EXCEPT ![r] = status[r]]
    /\ UNCHANGED <<status, result, retries, handed, tables, stale, recovery, workers,
                   saved, wedged, bounds, history>>

(* claimed_runs without the runs of S *)
Without(S) == [r \in Runs |-> IF r \in S THEN NoClaim ELSE claim[r]]

(* claimed_runs.pop for every run of S *)
Unclaim(S) ==
    /\ claim' = Without(S)
    /\ stale' = stale \ S

-----------------------------------------------------------------------------
(* enqueue_local_companion_run: nobody but a restart, which requeues it, looks at
   a run that is marked as queued and not yet in the queue: one step.  Its row is
   there since the run was registered, as "starting", which a restart takes for
   queued_local.                                                             *)
Enqueue(r) ==
    /\ ~wedged
    /\ status[r] = "new"
    /\ status' = [status EXCEPT ![r] = "queued_local"]
    /\ durable' = [durable EXCEPT ![r] = "queued_local"]
    /\ pending' = pending \cup {r}
    /\ UNCHANGED claim
    /\ Persist({})
    /\ UNCHANGED <<result, retries, handed, stale, recovery, workers, wedged,
                   restarts, history>>

Eligible == {r \in pending : status[r] = "queued_local"}

(* lease.rs: the worker holds fewer leases than max_concurrent_sessions, 1. *)
MayAcquire(w) == \A r \in Runs : claim[r].worker # w

(* claim_local_machine_lease, its cleanup apart: under the lock the queue is
   pruned of runs that are not queued, and one run is claimed.  The claim is
   added, and saved, before the run is taken out of the queue.              *)
Claim(w, r) ==
    /\ ~wedged
    /\ stage[w] = "idle"
    /\ r \in Eligible /\ MayAcquire(w)
    /\ handed[r] < MaxHanded
    /\ handed' = [handed EXCEPT ![r] = @ + 1]
    /\ claim' = [claim EXCEPT ![r] = [worker |-> w, lease |-> handed'[r]]]
    /\ pending' = Eligible \ {r}
    /\ stale' = stale \ {r}
    /\ job' = [job EXCEPT ![w] = r] /\ stage' = [stage EXCEPT ![w] = "claiming"]
    /\ LET halfway == [pending |-> pending, claim |-> claim']
       IN  /\ Persist({halfway})
           /\ torn' = IF disk' = halfway THEN torn \cup {r} ELSE torn
    /\ UNCHANGED <<status, durable, result, retries, recovery, wedged, restarts,
                   overtaken, dropped, doneBy>>

(* A poll that finds nothing to claim still prunes the queue. *)
PollPrunes(w) ==
    /\ ~wedged
    /\ stage[w] = "idle"
    /\ Eligible = {} /\ pending # {}
    /\ pending' = {}
    /\ UNCHANGED claim
    /\ Persist({})
    /\ UNCHANGED <<run, stale, recovery, workers, wedged, restarts, history>>

(* The rest of handle_claim_local_run: whatever became of the claim since, the
   run is marked as running and handed to the worker.                       *)
Bind(w) ==
    /\ stage[w] = "claiming"
    /\ status' = [status EXCEPT ![job[w]] = "running_local"]
    /\ stage' = [stage EXCEPT ![w] = "working"]
    /\ UNCHANGED <<durable, result, retries, handed, tables, stale, recovery, job,
                   saved, wedged, bounds, history>>

(* Mutant: the claim is not compared. *)
OwnsAny(w) == TRUE

(* local_worker.rs: the claim is there and names this worker.  Its lease id
   is not asked for.                                                        *)
Owns(w) == claim[job[w]].worker = w

(* heartbeat_local_run and heartbeat_local_worker *)
Heartbeat(w) ==
    /\ ~wedged
    /\ stage[w] = "working"
    /\ Owns(w) /\ status[job[w]] \notin Terminal
    /\ job[w] \in stale
    /\ stale' = stale \ {job[w]}
    /\ UNCHANGED <<run, tables, recovery, workers, saved, wedged, bounds, history>>

(* No heartbeat has come for longer than the limit. *)
Silence(r) ==
    /\ r \in Claimed \ stale
    /\ stale' = stale \cup {r}
    /\ UNCHANGED <<run, tables, recovery, workers, saved, wedged, bounds, history>>

-----------------------------------------------------------------------------
Drop(w) == job' = [job EXCEPT ![w] = NoRun] /\ stage' = [stage EXCEPT ![w] = "idle"]
Goto(w, s) == stage' = [stage EXCEPT ![w] = s] /\ UNCHANGED job

(* complete_local_run: the claim is read under the lock, and the lock let go. *)
CompleteReads(w) ==
    /\ ~wedged
    /\ stage[w] = "working" /\ Owns(w)
    /\ Goto(w, "read")
    /\ UNCHANGED <<run, tables, stale, recovery, saved, wedged, bounds, history>>

(* The kernel allows it for a running run; then the result is written. *)
CompletePasses(w) ==
    /\ stage[w] = "read" /\ status[job[w]] = "running_local"
    /\ result' = [result EXCEPT ![job[w]] = w]
    /\ Goto(w, "passed")
    /\ UNCHANGED <<status, durable, retries, handed, tables, stale, recovery, saved,
                   wedged, bounds, history>>

(* release_machine_lease_claim: the claim is dropped if it names this worker.
   If there is none any more, the request goes on all the same.             *)
CompleteReleases(w) ==
    /\ ~wedged
    /\ stage[w] = "passed"
    /\ IF Owns(w)
       THEN Unclaim({job[w]}) /\ UNCHANGED pending /\ Persist({})
       ELSE /\ claim[job[w]] = NoClaim
            /\ UNCHANGED <<tables, stale, saved, faults>>
    /\ Goto(w, "released")
    /\ UNCHANGED <<run, recovery, wedged, restarts, history>>

(* transition_live_run_status: the run is marked as completed ... *)
CompleteSets(w) ==
    /\ stage[w] = "released"
    /\ status' = [status EXCEPT ![job[w]] = "completed"]
    /\ doneBy' = [doneBy EXCEPT ![job[w]] = w]
    /\ Goto(w, "ending")
    /\ UNCHANGED <<durable, result, retries, handed, tables, stale, recovery, saved,
                   wedged, bounds, overtaken, dropped, torn>>

(* ... and reconcile_machine_lease_release takes it out of the queue, and removes
   the claim of whoever has one by now.                                     *)
Reconcile(r) ==
    /\ pending' = pending \ {r} /\ Unclaim({r})
    /\ IF r \in pending \cup Claimed
       THEN Persist({[pending |-> pending', claim |-> claim]})
       ELSE UNCHANGED <<saved, faults>>

CompleteEnds(w) ==
    /\ ~wedged
    /\ stage[w] = "ending"
    /\ Reconcile(job[w])
    /\ Drop(w)
    /\ UNCHANGED <<run, recovery, wedged, restarts, history>>

(* A write of the run, a record of the worker or a call of the kernel raises: the
   request ends where it is.  A poll has no answer then, and a worker that sent
   its result may send it again, or stop.                                    *)
RequestRaises(w) ==
    /\ stage[w] \in {"claiming", "read", "passed", "released", "ending"}
    /\ IF stage[w] = "claiming" THEN Drop(w) ELSE Goto(w, "working")
    /\ dropped' = IF stage[w] = "released" THEN dropped \cup {job[w]} ELSE dropped
    /\ Fault
    /\ UNCHANGED <<run, tables, stale, recovery, saved, wedged, restarts, overtaken, torn,
                   doneBy>>

(* The request is refused (the run is not running, or another worker's), or
   the worker stops without one: it dies, or is told the run is not its own. *)
GiveUp(w) ==
    /\ \/ stage[w] = "working"
       \/ stage[w] = "read" /\ status[job[w]] # "running_local"
       \/ stage[w] = "passed" /\ ~Owns(w) /\ claim[job[w]] # NoClaim
    /\ Drop(w)
    /\ UNCHANGED <<run, tables, stale, recovery, saved, wedged, bounds, history>>

(* The run's work failed, and the worker reports it. *)
FailReported(w) ==
    /\ stage[w] = "working"
    /\ Goto(w, "failing")
    /\ UNCHANGED <<run, tables, stale, recovery, saved, wedged, bounds, history>>

(* fail_local_run: the kernel wants the error in its request, and the request
   fail_local_run builds has no such field, so it is always refused.         *)
FailRefused(w) ==
    /\ ~wedged
    /\ stage[w] = "failing"
    /\ Drop(w)
    /\ UNCHANGED <<run, tables, stale, recovery, saved, wedged, bounds, history>>

-----------------------------------------------------------------------------
(* A request about r is under way that found its worker's claim. *)
InFlight(r) ==
    \E w \in Workers : job[w] = r /\ stage[w] \in {"claiming", "read", "passed", "released"}

(* cleanup_stale_machine_leases, under the lock: every stale claim goes. *)
Sweep ==
    /\ ~wedged
    /\ stale # {}
    /\ Unclaim(stale) /\ UNCHANGED pending
    /\ recovery' = [r \in Runs |-> IF r \in stale THEN "popped" ELSE recovery[r]]
    /\ overtaken' = overtaken \cup {r \in stale : InFlight(r)}
    /\ Persist({[pending |-> pending, claim |-> Without(S)] : S \in SUBSET stale})
    /\ UNCHANGED <<run, workers, wedged, restarts, dropped, torn, doneBy>>

(* A call of the kernel raises: the claims removed before it stay removed, and
   the list of their runs is lost with the exception.  The claim it was called
   about may be of a run outside Runs.                                      *)
SweepAborts(S) ==
    /\ ~wedged
    /\ S \subseteq stale /\ S # {}
    /\ Unclaim(S) /\ UNCHANGED pending
    /\ overtaken' = overtaken \cup S
    /\ Fault
    /\ disk' = Tables' /\ UNCHANGED late
    /\ UNCHANGED <<run, recovery, workers, wedged, restarts, dropped, torn, doneBy>>

(* Then, without the lock, run by run: the status is read ... *)
RecoverReads(r) ==
    /\ recovery[r] = "popped"
    /\ recovery' = [recovery EXCEPT ![r] =
                        IF status[r] \in {"completed", "failed"} THEN "no" ELSE "deciding"]
    /\ UNCHANGED <<run, tables, stale, workers, saved, wedged, bounds, history>>

(* Mutant: the retry is not counted. *)
RecoverRequeuesUncounted(r) ==
    /\ recovery[r] = "deciding" /\ retries[r] < MaxRetries
    /\ status' = [status EXCEPT ![r] = "queued_local"]
    /\ result' = [result EXCEPT ![r] = NoWorker]
    /\ recovery' = [recovery EXCEPT ![r] = "queued"]
    /\ UNCHANGED <<durable, retries, handed, tables, stale, workers, saved, wedged,
                   bounds, history>>

(* ... the run is marked as queued while its retry budget lasts ... *)
RecoverRequeues(r) ==
    /\ recovery[r] = "deciding" /\ retries[r] < MaxRetries
    /\ status' = [status EXCEPT ![r] = "queued_local"]
    /\ result' = [result EXCEPT ![r] = NoWorker]
    /\ retries' = [retries EXCEPT ![r] = @ + 1]
    /\ recovery' = [recovery EXCEPT ![r] = "queued"]
    /\ UNCHANGED <<durable, handed, tables, stale, workers, saved, wedged, bounds,
                   history>>

(* ... and put in the queue, ... *)
RecoverAppends(r) ==
    /\ ~wedged
    /\ recovery[r] = "queued"
    /\ pending' = pending \cup {r} /\ UNCHANGED claim
    /\ recovery' = [recovery EXCEPT ![r] = "no"]
    /\ Persist({})
    /\ UNCHANGED <<run, stale, workers, wedged, restarts, history>>

(* ... or it goes to the dead letters, and is marked as failed ... *)
RecoverFails(r) ==
    /\ recovery[r] = "deciding" /\ retries[r] >= MaxRetries
    /\ status' = [status EXCEPT ![r] = "failed"]
    /\ result' = [result EXCEPT ![r] = NoWorker]
    /\ recovery' = [recovery EXCEPT ![r] = "ending"]
    /\ UNCHANGED <<durable, retries, handed, tables, stale, workers, saved, wedged,
                   bounds, history>>

(* ... and taken out of the tables. *)
RecoverEnds(r) ==
    /\ ~wedged
    /\ recovery[r] = "ending"
    /\ Reconcile(r)
    /\ recovery' = [recovery EXCEPT ![r] = "no"]
    /\ UNCHANGED <<run, workers, wedged, restarts, history>>

(* A write of a run raises in the loop, which has no handler of its own: the run
   it was about and the ones after it are forgotten.                          *)
RecoveryRaises(S) ==
    /\ S # {} /\ \A r \in S : recovery[r] # "no"
    /\ recovery' = [r \in Runs |-> IF r \in S THEN "no" ELSE recovery[r]]
    /\ dropped' = dropped \cup S
    /\ Fault
    /\ UNCHANGED <<run, tables, stale, workers, saved, wedged, restarts, overtaken, torn,
                   doneBy>>

-----------------------------------------------------------------------------
(* _cleanup_stale_local_claims: the row of r's claim is found expired and is
   deleted, and the claim goes with it; the run is not requeued.  (A row of an
   older lease goes without a trace.)                                        *)
RowExpires(r) ==
    /\ ~wedged
    /\ r \in Claimed
    /\ Unclaim({r}) /\ UNCHANGED pending
    /\ overtaken' = overtaken \cup {r}
    /\ Fault
    /\ disk' = Tables' /\ UNCHANGED late
    /\ UNCHANGED <<run, recovery, workers, wedged, restarts, dropped, torn, doneBy>>

(* The operator may cancel a run that is queued and that nobody claims. *)
Cancellable == Eligible \ Claimed

(* The runs of S are cancelled: each field of a run that is set is written to its
   row at once, and each change of the queue is saved.                        *)
Cancel(S) ==
    /\ durable' = [r \in Runs |-> IF r \in S THEN "cancelled" ELSE durable[r]]
    /\ pending' = pending \ S /\ UNCHANGED claim
    /\ UNCHANGED <<retries, handed, stale, recovery, workers, restarts, history>>

(* handle_cleanup_local_run_queue cancels old runs.  Then it calls
   _persist_local_runtime_state, which takes LOCAL_QUEUE_LOCK, with the lock held;
   a threading.Lock cannot be taken twice.                                   *)
OperatorCleanup(S) ==
    /\ ~wedged
    /\ S \subseteq Cancellable /\ S # {}
    /\ Cancel(S)
    /\ status' = [r \in Runs |-> IF r \in S THEN "cancelled" ELSE status[r]]
    /\ result' = [r \in Runs |-> IF r \in S THEN NoWorker ELSE result[r]]
    /\ Persist({[pending |-> pending \ T, claim |-> claim] : T \in SUBSET S})
    /\ wedged' = TRUE

(* The write of the next run's status raises: it is cancelled in memory only, and
   the lock is let go.                                                       *)
CleanupRaises(S, q) ==
    /\ ~wedged
    /\ S \subseteq Cancellable /\ q \in Cancellable \ S
    /\ Cancel(S)
    /\ status' = [r \in Runs |-> IF r \in S \cup {q} THEN "cancelled" ELSE status[r]]
    /\ result' = [r \in Runs |-> IF r \in S THEN NoWorker ELSE result[r]]
    /\ disk' = Tables' /\ Fault
    /\ UNCHANGED <<late, wedged>>

(* load_live_runtime_state: the saved tables, repaired by the rows' statuses. *)
Kept(r) == durable[r] \notin Terminal /\ disk.claim[r] # NoClaim

(* Mutant: running runs are not looked at. *)
RequeuedIfQueued == {r \in Runs : durable[r] = "queued_local" /\ ~Kept(r)}

(* Mutant: claimed runs are requeued too. *)
RequeuedClaimedToo == {r \in Runs : durable[r] \in {"queued_local", "running_local"}}

(* Mutant: ended runs are requeued too. *)
RequeuedEndedToo == {r \in Runs : durable[r] # "new" /\ ~Kept(r)}

Requeued == {r \in Runs : durable[r] \in {"queued_local", "running_local"} /\ ~Kept(r)}
StillPending == {r \in disk.pending : durable[r] = "queued_local"}

(* The process dies and starts again; expired are the runs for which
   recover_expired_worker_leases_on_startup finds an expired row.  It does not
   ask whether the row is of the lease that the run is claimed under.        *)
Restart(expired) ==
    /\ restarts < MaxRestarts /\ restarts' = restarts + 1
    /\ \A r \in expired : handed[r] > 0
    /\ claim' = [r \in Runs |-> IF Kept(r) /\ r \notin expired THEN disk.claim[r]
                                ELSE NoClaim]
    /\ pending' = StillPending \cup Requeued
                     \cup {r \in expired : durable[r] \notin Terminal}
    /\ status' = [r \in Runs |->
                    IF r \in Requeued \/ (r \in expired /\ durable[r] \notin Terminal)
                    THEN "queued_local" ELSE durable[r]]
    /\ disk' = Tables' /\ late' = {}
    /\ stale' = {} /\ recovery' = [r \in Runs |-> "no"] /\ wedged' = FALSE
    /\ stage' = [w \in Workers |-> IF stage[w] \in {"idle", "claiming"} THEN "idle"
                                   ELSE "working"]
    /\ job' = [w \in Workers |-> IF stage'[w] = "idle" THEN NoRun ELSE job[w]]
    /\ UNCHANGED <<durable, result, retries, handed, faults, history>>

-----------------------------------------------------------------------------
WorkerStep(w) == \/ \E r \in Runs : Claim(w, r)
                 \/ PollPrunes(w) \/ Bind(w)
                 \/ CompleteReads(w) \/ CompletePasses(w) \/ CompleteReleases(w)
                 \/ CompleteSets(w) \/ CompleteEnds(w)
                 \/ GiveUp(w) \/ FailReported(w) \/ FailRefused(w)

RecoveryStep(r) == \/ RecoverReads(r) \/ RecoverRequeues(r) \/ RecoverAppends(r)
                   \/ RecoverFails(r) \/ RecoverEnds(r)

Next ==
    \/ \E w \in Workers : WorkerStep(w) \/ Heartbeat(w) \/ RequestRaises(w)
    \/ \E r \in Runs : \/ Enqueue(r) \/ RecoveryStep(r) \/ Record(r)
                       \/ Silence(r) \/ RowExpires(r)
    \/ Sweep
    \/ \E S \in SUBSET Runs : \/ SweepAborts(S) \/ RecoveryRaises(S)
                              \/ OperatorCleanup(S) \/ Restart(S)
                              \/ \E q \in Runs : CleanupRaises(S, q)
    \/ \E t \in late : LateSave(t)

Spec == Init /\ [][Next]_vars

(* Requests are served, workers poll and their work ends, the watchdog passes
   every few seconds, and the claim of a worker gone silent grows old.       *)
FairSpec ==
    /\ Spec
    /\ \A w \in Workers : WF_vars(WorkerStep(w))
    /\ \A r \in Runs : WF_vars(RecoveryStep(r))
    /\ \A r \in Runs : WF_vars(Silence(r) /\ \A w \in Workers : job[w] # r)
    /\ WF_vars(Sweep)

-----------------------------------------------------------------------------
Statuses == Terminal \cup {"new", "queued_local", "running_local"}
Leases == 0..MaxHanded
Claims == [worker : Workers, lease : Leases] \cup {NoClaim}
TableCopies == [pending : SUBSET Runs, claim : [Runs -> Claims]]

(* The type invariant: what the tables and the requests may hold. *)
TypeOK ==
    /\ status \in [Runs -> Statuses] /\ durable \in [Runs -> Statuses]
    /\ result \in [Runs -> Workers \cup {NoWorker}]
    /\ retries \in [Runs -> 0..MaxRetries] /\ handed \in [Runs -> Leases]
    /\ Tables \in TableCopies /\ disk \in TableCopies /\ late \subseteq TableCopies
    /\ stale \subseteq Claimed
    /\ recovery \in [Runs -> {"no", "popped", "deciding", "queued", "ending"}]
    /\ stage \in [Workers ->
                    {"idle", "claiming", "working", "read", "passed", "released", "ending",
                     "failing"}]
    /\ job \in [Workers -> Runs \cup {NoRun}]
    /\ \A w \in Workers : job[w] = NoRun <=> stage[w] = "idle"
    /\ wedged \in BOOLEAN /\ restarts \in 0..MaxRestarts /\ faults \in 0..MaxFaults
    /\ overtaken \subseteq Runs /\ dropped \subseteq Runs /\ torn \subseteq Runs
    /\ doneBy \in [Runs -> Workers \cup {NoWorker}]

(* Runs that two parties may have had in their hands at once. *)
Disturbed == overtaken \cup torn

(* A run that waits or runs is always in somebody's hands: in the queue, under
   a claim, being recovered, or about to be marked as completed.  Only a claim
   that was overtaken or half saved, or an exception that cut its recovery or its
   completion short, can leave it with nobody.                               *)
NoRunIsStranded ==
    \A r \in Runs : status[r] \in {"queued_local", "running_local"} =>
        \/ r \in pending \cup Claimed \cup Disturbed \cup dropped
        \/ recovery[r] # "no"
        \/ \E w \in Workers : job[w] = r /\ stage[w] = "released"

(* A run is both offered to workers and claimed by one, so that a second claim
   would silently replace the first worker's lease, only if the server came back
   with a copy of the tables that was saved half-way through a claim of it; a
   copy that is out of date does not do it.                                  *)
QueuedIsUnclaimed == pending \cap Claimed \subseteq torn

(* Each time a run is handed out again, a retry of its budget was spent or the
   server was restarted, so a run that kills its workers is not run for ever. *)
RetryBudget ==
    \A r \in Runs : handed[r] <= 1 + retries[r] + restarts

(* The result of a completed run is the one sent with the request that
   completed it, not one of a worker that was refused.                       *)
ResultIsFinishers ==
    \A r \in Runs \ Disturbed : status[r] = "completed" => result[r] = doneBy[r]

(* A run whose end is in its row stays as it ended, through restarts too.  (An end
   that is in memory only is undone by a restart.)                            *)
TerminalIsFinal ==
    [][\A r \in Runs \ Disturbed' :
            status[r] \in Terminal /\ durable[r] = status[r] => status'[r] = status[r]]_vars

(* A run in the queue ends, whatever the workers do (pausing it apart), unless the
   lock is wedged, the run's claim is overtaken or half saved, or an exception
   drops it.                                                                 *)
QueuedEnds ==
    \A r \in Runs : status[r] = "queued_local"
                        ~> \/ status[r] \in Terminal
                           \/ r \in Disturbed \cup dropped
                           \/ wedged

(* test_worker_dispatch_service.py: a run that its worker reports as failed has
   failed, and its claim is gone.                                            *)
ReportedFailureEndsRun ==
    [][\A w \in Workers : FailRefused(w) /\ Owns(w) =>
            status'[job[w]] = "failed" /\ claim'[job[w]] = NoClaim]_vars
=============================================================================
