# Empyralis: a TLA+ verification project

Empyralis is an agent platform. A Python backend (`server.py`, `server_modules/`)
serves chats, runs and channel bots; a TypeScript gateway (`empyralis-gateway/`)
connects a customer's machine to it; a Rust service (`empyralis-runtime-kernel/`)
takes single run decisions; web, mobile and desktop clients sit on top. This
directory models the parts of the system whose correctness depends on the order in
which threads, processes, timers and crashes meet. `PROJECT.json` lists the
components, the runs, the line of code behind every definition (`map`), the
hazards and the theorems. Line numbers in comments are lines of the repository at
the modelled commit.

    tlc -workers 2 -config ActorQueue.cfg ActorQueue     # one run
    tlapm ActorQueueProofs.tla                           # one module of proofs

Contents: [inventory](#inventory) · [modules](#modules-and-code) ·
[runs](#runs) · [findings](#where-the-code-disagrees-with-its-documentation) ·
[bounds](#bounds) · [fairness](#fairness) · [proofs](#proofs) ·
[not modelled](#not-modelled) · [order of work](#order-of-work)

## Inventory

### Modelled

| Component | State | Operations | Interacts with | What is hard | What makes it correct |
|---|---|---|---|---|---|
| Session actor queue, `session_manager/actor_queue.py` | one `threading.Lock` and one reference count per actor, created on demand and dropped at zero | `claim`, `run` | every turn of a chat runs inside `claim` | a lock is dropped from the table while another thread waits for it or creates its successor | one thread per actor inside; no entry outlives its users |
| Chat session manager, `session_manager/manager.py` | SQLite rows of sessions and turns; `_active_turns` | `iter_turn_events`, `run_turn`, `interrupt_stale_sessions` | actor queue, executor, HTTP stream, process start; the kernel, which is asked before every write of a row | retries with the same turn id, writes that raise or are refused, clients that go away, crashes | a recorded answer is replayed and never computed again; no turn without the kernel's consent; counters exact; requests end |
| Cloud outbox, `run_state_repository.py`, `outbox_service.py` | table `runtime_outbox`: delivery, retry, poison and claim columns | emit, claim, deliver, defer, fail, dead-letter, mark, prune | channel connectors, run state, startup replay and the endless loop | claims that expire under a slow worker, lost answers, failing statements | at-least-once; exact attempt limit; outcomes final; every duplicate has a cause |
| Channel delivery receipts, `connectors/*delivery*`, `*_run_dispatch_service.py` | receipt in the event's payload; last delivery in the connector's state | check, edit or send, remember, patch | are steps of one outbox delivery | two stores for one fact, one of which holds a single entry; an edit whose answer is lost is followed by a send | a skipped send was really sent |
| Bot credential lock, `gateway_credential_lock.py` | a lock file with pid and start time | acquire, re-enter, release | every process that polls a bot | separate file system calls whose errors are swallowed, half-written files, reused pids, start times that are not available | at most one holder; no refusal of a free credential |
| Runtime lane queue, `runtime_lane_queue.py` | pending and active items per lane, cursor, flags, a checkpoint in the state database | enqueue, limits, dispatch, finish, shutdown, restore | run execution, state database, process lifespan | dispatcher, workers, shutdown and crash interleave | limits, order within a lane, no starvation, nothing lost, nothing run twice |
| Gateway frame numbers, `empyralis-gateway/src/state/checkpoints.ts`, `db.ts` | mirror in memory, debounced pending write, `checkpoints.json` | `allocateClientSeq`, `save`, timer, restart | every other writer of the same file | read-modify-write over awaits | numbers strictly increase |
| Gateway answers, `empyralis-gateway/src/state/pending-responses.ts`, `cloud/ws-client.ts` | `pending-responses.json`, the socket | `sendResponse`, `enqueue`, `remove`, flush on connect | handlers of the cloud's requests, the connect loop, the file mutex | every operation reads the whole file, awaits and writes it; sockets close and processes die in between | a queued answer is sent or still on disk, and is sent in the end |
| Local run queue, `local_queue.py`, `machine_lease_service.py`, `worker_dispatch_service.py`, `run_service.py`, kernel `local_worker.rs`, `lease.rs`, `queue.rs`, `state.rs` | pending runs, claims with worker and lease, run status, result and retry count; the tables in SQLite; the runs and the claims' rows in Postgres | enqueue, claim, heartbeat, complete, fail, sweep and recover, expire a row, operator cleanup, save, restart | polling workers, the watchdog, the operator's API, process start | `LOCAL_QUEUE_LOCK` covers single accesses, never a request; the tables save themselves at each change and older copies are written last; any write or kernel call may raise | a run is with somebody, with at most one worker, within its retry budget; ends, and stays as it ended, with its finisher's result |

How they meet: a request thread of the chat API runs `iter_turn_events`, which
waits in the actor queue (module SessionTurns uses the abstract ActorLock that
ActorQueue is shown to implement). Runs report their results as outbox events; the
outbox loop delivers them through the connectors, whose pollers hold a credential
lock. Background work of the backend goes through the lane queue. The gateway
numbers each frame it sends to the backend with ClientSeq and keeps the answers it
owes in ResponseQueue. Runs meant for a customer's machine wait in LocalRuns until a
worker there polls; the kernel's verdicts are guards of its steps.

### The rest

The complete list with reasons is in `PROJECT.json` (`components`), and the parts
that have state worth a model are discussed under [not modelled](#not-modelled).

## Modules and code

Each module keeps the control of its component (every write, guard, early return
and error path in the code's order) and reduces data to what the properties tell
apart. Operators whose comment starts with "Mutant:" are plausible slips of the
definition that follows; no specification uses them, they serve to show that the
properties notice.

**ActorLock** - the promise of the actor queue: enter the critical section of an
actor when it is empty, leave it later.

**ActorQueue** - `claim` as `Register` (first block under `_global_lock`),
`Acquire`, `Release`, `Deregister` (second block). `lockByActor` and
`pendingByActor` are the two dictionaries. A new lock is any object nobody refers
to, so identities come back as they do under garbage collection. `insideActor` is
the refinement mapping.

**AtLeastOnceDelivery** - the promise of the outbox: an accepted event is owed until
it is confirmed, which needs a send, or set aside.

**DeliveryOutbox** - a row is a set of functions on `Events` (the columns); time is
reduced to "the claim is past its deadline" (`expired`) and "the back-off is over"
(`due`), either of which may become true at any moment. A token stands for one
claim: `claim[k]` is the worker's copy of the row and the stage of its delivery:
`queued`, `sending`, `resending` (Telegram's edit failed or its answer was lost),
`accepted` (sent, not remembered), `receipting`, then one of `marking`, `failing`,
`deferring`. The startup replay and the endless loop call the
same function, so both are workers. Each SQL statement is a step; `Holds` is the
fence in the `WHERE` clauses. The payload patch is not fenced, as in the code.
A run is reported when `poll_run_terminal_result` is ready (`RunReady`), which it never
is for a run that was cancelled or stopped; runtime events and notifications do not ask.
`EditLost` is an edit of Telegram's pending message that was carried out and whose
answer was lost: `edit_message` takes any exception for a refusal and the text is sent
too. A WhatsApp failure erases the connector's memory of an earlier delivery, a Telegram
failure does not; `ConnectorFailed` allows both. `resendCredit` is a history
variable: causes for a send minus deliveries that sent; the edit and the send after it
are one delivery.

**CredentialLock** - one step per file system call. A process is a pid with a start
time; a pid may be given out again. The file is known by its creator and whether
its record is complete; a write to an unlinked file reaches nobody. Each call may fail
as the code lets it: a read that raises `OSError` yields no record, an unlink that
raises is ignored, other errors reach the caller. A start time is a reading of one of
two clocks (`/proc`, psutil) or `None`, and is compared as `_existing_is_live` does.
`faults` is a history variable: two operations overlapped, a live process's record was
misread, a live pid was taken for the owner without comparing start times (`blind`), a
file stayed that should have gone (`leftover`).

**LaneQueue** - every body of `with self._condition` is a step. `Dispatch` and
`StartItem` are separate since the dispatcher gives up the lock in between.
`Persist` writes the checkpoint or fails and remembers so. `Restart` brings
everything in the checkpoint back as queued stubs, as the program's restore factory
does. Fields that describe an item (label, timestamps) are left out; whether its
metadata carry a `run_id` decides whether it reaches the checkpoint and is kept
(`HasRunId`).

**SessionTurns** - one session. Each read or write of a row is a step of
`iter_turn_events`; `pc` names the place. A turn is `absent`, `running`,
`completed`, `hollow` (completed with an empty payload, which is not replayed) or
`error`. `interrupt_stale_sessions` runs once per process start, before a request is
served (`runtime_app_lifespan`), and there is one process
(`ensure_single_worker_runtime`), so `sweep` must be `over` before requests begin.
It reads the session, marks it, lists its running turns and marks them one by one,
and may be cut off by a crash at any of these points. Every write of a row first asks
the kernel (`_enforce_runtime_state_store_decision`); a status outside the kernel's list
raises (`Refused`, `SweepRefused`), without needing a fault. The lists are a parameter.
The deployed ones (`DeployedKernel`, runtime_state_store.rs 163-181) lack "ready",
"error" and "interrupted": with them every request raises at manager.py 260, before its
claim, no turn is ever started and no sweep finds anything. The unit tests replace the
kernel by one that accepts every write. The runs and the theorems cover both, and a
kernel that accepts "ready" and still refuses "error" and "interrupted".

**ClientSeq** - a step ends at an `await`. Of a snapshot only `lastClientSeq` is
kept. `pending` is the write the 100 ms timer will start, `writes` the queue on the
file's mutex, `disk` the file. Allocations are serialised by their gate, other
`save` calls are not.

**LocalRuns** - a run has a status, a result (reduced to whose it is), a retry count
and the number of times it was handed out, which is also the lease id of its claim.
There are three copies of the state: the tables and the runs in memory, the tables in
SQLite (`disk`), and the status in the run's row in Postgres (`durable`).
A handler is split where it lets go of `LOCAL_QUEUE_LOCK`, reads a status anew or may
raise: `Claim` / `Bind` are one poll; `CompleteReads` / `CompletePasses` /
`CompleteReleases` / `CompleteSets` / `CompleteEnds` one completion, with the kernel's
verdict in their guards; `Sweep`, then per run `RecoverReads` and `RecoverRequeues` /
`RecoverAppends` or `RecoverFails` / `RecoverEnds`, one pass of the watchdog.
`RequestRaises`, `SweepAborts`, `RecoveryRaises` and `CleanupRaises` are the exceptions
that end a handler where it is. The tables save themselves at each change and again
after the last: `Persist` writes the final copy, or leaves one made between two changes
(the process died there) or the one before (the save failed), with the final copy in
`late` for `LateSave`, possibly after a newer one. `Record` writes a run's row; for most
changes of status the code does that in the background, for terminal ones in four
attempts, so it may come late or never. `RowExpires` drops a claim because its Postgres
row ran out; which rows exist is left open, since background tasks write them and only
log their failures. `OperatorCleanup` writes the cancelled runs' rows (a run's fields are
written to its row as they are set: run_execution_handle.py, `_PersistentDict` in
acp_manager.py), then takes the lock twice and stops everybody (`wedged`). `Restart` is
`load_live_runtime_state`, from the tables on disk and the rows, followed by
`recover_expired_worker_leases_on_startup`. Three history variables: `overtaken`, the
runs whose claim was dropped under a request of its worker, or without the run being put
up for recovery; `torn`, those saved half-way through a claim, as queued and as claimed;
`dropped`, those in the hands of a handler that raised.

**ResponseQueue** - the file is the set of requests that have an entry. `enqueue` and
`remove` are two steps each (`...Reads`, `...Writes`) with the list that was read in
`seen`; a failing write is a step of its own. `Send` and `FlushSends` differ as the
code does: without a socket the first leaves the answer queued, the second ends the
flush. An answer too large for a frame is not sent and counts as sent (`Oversized`).
`overlapped` remembers whether two file operations were ever under way together. A file
that cannot be parsed, which `readJson` sets aside, is left out: writes go to a temporary
file that is renamed, so that only the death of the machine could leave one.

**MC modules** give the constants that are functions or sequences their values and
define the symmetry sets. ActorQueue, ClientSeq, LocalRuns and ResponseQueue need none.

## Runs

| Run | Shows |
|---|---|
| ActorQueue (14,487 states) | three threads, two actors, three recyclable lock objects, two claims each. `MutualExclusion`: dropping a lock never splits an actor between two locks. `CountIsExact`: the count is the number of users. `ClaimGranted`, `TablesDrain`: every claim is granted and in the end both tables are empty. `ImplementsActorLock` |
| OutboxSafety (1,526,698) | a run's report and a notification of one connector, which remembers one receipt; two workers with batches of two, two attempts, two emits, a fault. `PoisonedAtLimit`, `OutcomeIsFinal`; `DeliveredWasSent`: a receipt never stands for another event; `SendsAccountedFor`: every send after the first has a cause of its own; `ImplementsAtLeastOnce` |
| OutboxLiveness (43,172) | a channel event and a runtime event, one worker, a crash or a failing statement. `EventuallySettled`, once there is something to report |
| CredentialLockApart (268,599) | three pids, each given out twice, two clocks, crashes and failing calls everywhere. `OneHolderIfApart`: one holder as long as lock operations do not overlap and no live record is misread; dead owners, torn files, missing start times and failing unlinks included. `RefusedOnlyIfHeld`: nobody is refused because of a dead owner, a recycled pid or an unreadable record |
| CredentialLockRace | violation, see below |
| LaneQueue (195,856) | three items, two lanes, changing limits, shutdown, one crash, one failing write, read or thread start. `ThreadsWithinLimit`, `DrainedMeansQuiet`, `LaneFIFO`, `NothingLost`, `RunsAtMostOnce`; `BoundedBypass`: a lane with work and room is passed over at most N - 1 times; `QueuedIsServed` |
| SessionTurns (372,885) | two requests for one turn and one for another, a failing write, two crashes with their sweeps, three kernels. `ExecutorsAreAdmitted`: no executor and no recorded turn without a kernel that accepts "ready", "active" and "running", so none under the deployed lists. `CompletedNeverRestarts`, `NeverReexecuted`, `AnswerIsRecorded`, `ActiveTurnsCounted`, `RequestEnds`, `OrphanIsMarked` |
| ClientSeqInProcess | two other savers, failing reads and writes, a restart. `IncreasingInOneLife` |
| ClientSeqRestart | violation, see below |
| LocalRuns (383,812) | one run, two workers, one retry, a restart, a fault (a save that is late, fails or is cut short, a handler that raises, an expired row). `NoRunIsStranded`: a run is in the queue, claimed, in recovery or about to be completed. `QueuedIsUnclaimed`: offered while claimed only if saved half-way through the claim. `RetryBudget`: each time it is handed out again is paid for by a retry or a restart. `ResultIsFinishers`; `TerminalIsFinal`: an end that is in the row is final; `QueuedEnds` |
| LocalRunsFail | violation, see below |
| ResponseQueue | two requests, one of them with an oversized answer, two lost connections, a crash, a failing file operation. `AnsweredIsKept`: a queued answer was sent or is in the file. `QueuedIsSent` |

Some properties state what holds and not more; the model contains the rest:

- `NeverReexecuted` and `AnswerIsRecorded` are for histories without a failing
  database write. When the write of the session raises after the turn was recorded, the
  `except` clause overwrites the completed turn with an error (manager.py 374) and
  a retry executes it again. A refusal of the kernel cannot do that: it would have
  refused the request's own "ready" first, or it refuses the "error" too.
  `CompletedNeverRestarts` holds regardless.
- `OrphanIsMarked` is for a sweep that has found the session stale, is not cut off and
  whose two statuses the kernel accepts. A start within ten minutes of the crash, a crash
  between marking the session and its turns, or a kernel without "interrupted" and
  "error" leaves the turn `running` for good.
- `ActiveTurnsCounted` allows for turns whose "running" write raised: the code
  counts them for the life of the process (`leaked`).
- `EventuallySettled` is for events that are runtime events, notifications or reports of
  a run that is ready. The report of a run that was cancelled or stopped is deferred,
  without a counted attempt, for ever.
- `SendsAccountedFor` counts an edit whose answer was lost and the send that follows it
  as one: the customer may see both.
- `OneHolderIfApart` is for histories without overlap and without a misread record:
  one `OSError` while the record of a live owner is read, or its start time read by
  another clock than the recorded one, takes the lock from it. `RefusedOnlyIfHeld` is for
  histories in which unlinks worked and start times compared: a file that could not be
  removed turns the attempt away, and a live pid whose start time is not known
  counts as the owner, as the docstring of `_existing_is_live` says it should.
- `QueuedIsServed` is for a running dispatcher. A thread that cannot be started
  ends the dispatcher (`StartRaises`), work that leaves through `SystemExit` keeps
  its slot (`WorkEscapes`), and restored items wait for the next enqueue.
- `NothingLost` and its companions allow for a checkpoint that could not be written
  or read (`lossy`, `failing`).
- `NoRunIsStranded`, `ResultIsFinishers`, `TerminalIsFinal` and `QueuedEnds` exempt
  runs that two parties had in their hands at once (`Disturbed`: `overtaken` or `torn`).
  A claim swept between the two locked sections of a completion ends the run while it is
  queued again for another worker; an aborted sweep or an expired row leaves a run marked
  as running with nobody (a restart brings it back). A crash between the two changes of a
  claim (machine_lease_service.py 855 and 856) brings the run back both queued and
  claimed; `QueuedIsUnclaimed` says that this is the only way. `RetryBudget` has no
  exemption.
- `NoRunIsStranded` and `QueuedEnds` also exempt `dropped` runs: an exception in the
  recovery loop, which has no handler per run and is swallowed by the watchdog
  (run_service.py 3262), or in a completion after its claim was released, leaves the run
  with nobody until a restart.
- `TerminalIsFinal` is for ends that are in the run's row. A run ended in memory whose
  row was not written before the process died runs again.
- `QueuedEnds` also exempts a `wedged` process: `handle_cleanup_local_run_queue` calls
  `_persist_local_runtime_state` inside `with LOCAL_QUEUE_LOCK`, and the
  lock is a plain `threading.Lock` (shared.py 273), so the first cleanup that finds a run
  to cancel stops every later user of the queue until the process is restarted.
- `AnsweredIsKept` and `QueuedIsSent` exempt histories in which two file operations
  overlapped. Two answers queued at once read the same list, the later write drops the
  other answer, and a send that then fails loses it: TLC finds this in eight steps.
  They also exempt oversized answers, which the code drops, and `QueuedIsSent` a failing
  file operation, which ends the flush until the next connection.

Deadlock checking is off where the system may stop: all items or requests done,
emits used up, processes ended, runs
ended or stuck behind the wedged lock. ActorQueue has an explicit `Finished` step.

## Where the code disagrees with its documentation

**CredentialLockRace, `AtMostOneHolder`.** The module promises that a credential "is
consumed by at most one gateway process on a given host". The file is created empty
and filled afterwards; a second process that reads it in between takes it for one a
killed process left, unlinks it and creates its own. Both acquires return True. Two
processes that judge one stale record unlink each other's new file in the same way.

**ClientSeqRestart, `StrictlyIncreasing`.** The comment on `allocateClientSeq` claims
growing numbers "across a restart". `save()` spreads the snapshot it read, with the
old number, over a pending write with a newer one. Without any fault the file ends
with the old number, and the next process issues numbers a second time. This is
more than the loss of an unflushed write, which the same comment accepts: the run
restarts only when nothing is outstanding.

**LocalRunsFail, `ReportedFailureEndsRun`.** A test of `worker_dispatch_service`, with the
kernel mocked, expects a failure report by the claim's worker to fail the run and drop
the claim (test_worker_dispatch_service.py 351, 354). `fail_local_run` does not pass the
error on to the kernel, and `fail_run_decision` blocks requests without one
(local_worker.rs 446). Every report is refused; the run stays claimed until its
heartbeats stop, and is then run again.

## Bounds

| Bound | Value | Why it is enough |
|---|---|---|
| `MaxClaims` | 2 | a thread must come back after the entry was dropped; three threads give one inside, one waiting and one arriving |
| `Locks` | 3 | a thread refers to one lock at a time |
| `MaxAttempts` | 2 | a first and a last attempt, which differ; the code has 5, and the theorem covers any limit |
| `Tokens` | 3 | two workers under way and one dead token still in a row |
| `BatchLimit` | 2 | the second delivery waits behind the first while its claim runs; the code has 200 |
| `MaxFaults`, `MaxCrashes` | 1 or 2 | a crash hits the recovery from a fault, or a second crash the sweep after the first |
| `Clocks` | 2 | /proc and psutil, the two sources of a start time |
| `Kernels` | 3 | the deployed lists, those with "ready", the tests'; the theorems hold for any lists |
| `MaxEmits` | 2, or 1 for liveness | an emit before and after delivery or pruning |
| `MaxStarts` | 2 | a pid and its reuse |
| `NumItems`, `N` | 3 in 2 lanes | two items in a lane while another lane waits too; `BoundedBypass` is proved for any number of lanes |
| `MaxTotal`, `MaxLimit` | 2 | both limits bind, separately and together |
| `Runs`, `Workers` | 1 and 2 | runs share only the worker's limit of one lease; a second worker takes over what the first lost. The invariants are proved for any number of runs |
| `MaxRetries`, `MaxHanded` | 1 and 4 | a retry and the dead letter; `RetryBudget` allows at most 3, so the guard does not hide a fourth |
| `MaxFaults`, `MaxRestarts` of LocalRuns | 1 and 1 | a fault and the restart that begins with what it left; the invariants are proved for any number of either, and the inductive invariant was checked with two of each |
| `Requests`, `MaxCloses` of ResponseQueue | 2, 2 | an answer is queued while another is removed or flushed; the second loss hits the flush of the first |
| `MaxSeq`, `MaxRestarts`, `MaxWrites` of ClientSeq | 3, 1, 2 | a number before, in and after a debounce window |

Every bound appears in a guard or as the size of a constant set. The theorems hold
without these values: for any number of threads, events, workers, lanes, runs and
requests.

## Fairness

Fairness is weak, with one exception, and assumed only of steps that code or time takes
by itself.

- ActorQueue: `Acquire`, `Release`, `Deregister` of each thread. The model's threads
  make finitely many claims, so weak fairness of `Acquire` is what CPython's lock
  gives (a free lock with waiters is taken by one); `Release` fair means that a turn
  ends, which the queue itself cannot enforce and takes for granted. `Register` is
  not fair.
- DeliveryOutbox: the loop works off its batch (`Deliver`), deadlines and back-offs pass,
  and an event that is claimable again and again is claimed (strong fairness per event:
  the loop polls for ever and `claim_due_outbox_events` takes the rows in the order in
  which they fell due, so that events which are deferred over and over do not keep a due
  one out). Nothing is assumed of the runs the events report on, nor of emits, pruning
  and faults.
- LaneQueue: the dispatcher's steps and the end of an item's work.
- SessionTurns: the steps of a request and of the sweep, a refusal of the kernel
  included. Failing writes and crashes are not fair.
- LocalRuns: requests are served and workers poll and stop, one way or another
  (`WorkerStep`); the watchdog passes (`Sweep`, `RecoveryStep`); a claim whose worker is
  gone grows old. Heartbeats are not fair: a worker may die. Neither are faults, late saves
  and the writes of the rows.
- ResponseQueue: the handlers and the connect loop are tasks of one event loop
  (`Handler`, `Connection`). That the cloud lets the gateway in again is an assumption on
  the environment. Losses, crashes and errors are not fair.

## Proofs

TLAPS proves these for every value of the constants that satisfies the module's
`ASSUME`s (the null values lie outside their sets, bounds are natural numbers, limits
are positive, threads and requests are finite sets, the functions on events, items
and requests have their types). TLC evaluates the assumptions on each instance.

| Module | Theorems | Argument |
|---|---|---|
| ActorQueueProofs | `Invariance`, `MutualExclusionHolds`, `CountIsExactHolds`, `TypeCorrect`, `Refinement` | Mutual exclusion is not inductive: it needs that all users of an actor were handed the lock that is in the table (`OneLockPerActor`), hence that the entry is not dropped while they exist (`CountIsExact`), that two actors share no lock, and that ownership is exact. `IInv` is their conjunction; a step of cardinality arithmetic (`CountUsers`) carries the count |
| DeliveryOutboxProofs | `Invariance`, `PoisonedAtLimitHolds`, `TypeCorrect`, `DeliveredWasSentHolds`, `OutcomeIsFinalHolds`, `Refinement`, `SendsAccountedForHolds` | The decision to dead-letter is taken from a copy, so the limit is exact only because a claim whose token is still in the row has the row's count (`CopyIsCurrent`); that needs that settled rows carry no token. `SentEvidence` says that each thing a worker may take for proof of delivery, in the payload, the connector or its own stage, follows a send of that event. `CreditInv` counts: the causes for a send not yet used are at least the claims that may still send (`Waiting`, a finite set whose cardinality each action moves by at most one) plus one while the row is free to be claimed; an edit whose answer was lost stays inside its claim's share, because a delivery gets past `sending` once |
| LaneQueueProofs | `TypeCorrect`, `LaneFIFOHolds`, `ThreadsWithinLimitHolds`, `DrainedMeansQuietHolds`, `RunsAtMostOnceHolds`, `NothingLostHolds`, `BoundedBypassHolds`, `ScanDecidesHolds` | A lane is one line, its started items before its queued ones. `OrderInv`: every line, and the checkpoint of any age, has accepted items of that lane only, in the order of enqueue. Only `enqueue` lengthens a line, at its end; a dispatch moves the boundary inside it; a checkpoint or a finished item leaves a subsequence; a restart takes the checkpoint for the line. Since nothing is accepted twice an item has one place, so a dispatch takes a slot nobody has: `SlotInv`, every thread and the picked item hold one of at most `MaxTotal` slots, and a drained queue stays empty. `RunInv`: what may still be started with its real work was never started (a restored item is a stub). `KeptInv`: what is owed is on disk, and in the memory of a process that is up; without the second half a checkpoint written after a restart could drop it. `RoundRobin`: how often a lane was passed over plus its distance from the cursor is at most N - 1; a dispatch moves the cursor past the served lane, so the distance of a lane that is passed over falls by at least one |
| SessionTurnsProofs | `CompletedNeverRestartsHolds`, `NeverReexecutedHolds`, `AnswerIsRecordedHolds`, `ActiveTurnsCountedHolds`, `ExecutorsAreAdmittedHolds`, `TypeCorrect` | For any kernel lists. `ClaimInv`: the claim has one holder, and between its second look at the turn and its "running" write the turn is not completed. `RecordInv`: the sweep has the process to itself, and without a failing database a recorded answer stays recorded, since whoever is about to write a turn (an executor's request, the sweep's list) is not about to write an answered one. `AnswerInv` follows an executor's outcome from its end to the row, `CountInv` the finite set of requests inside a turn |
| ClientSeqProofs | `IncreasingInOneLifeHolds`, `TypeCorrect`, `IncreasingWithoutStaleSaves` | `MirrorInv`: once seeded, the mirror is at least every number issued in this life, and strictly above them while an allocation is under way, however far the file falls behind. The third theorem is the other side of the finding: without faults, the numbers grow over any number of restarts provided no `save` merges a snapshot older than the newest one (`NoStaleSave`). `NewestInv`: the newest snapshot, pending, queued or on disk, covers every number of every life, and is what the next life is seeded from |
| LocalRunsProofs | `TypeCorrect`, `NotStranded`, `OfferedIsUnclaimed`, `RetriesAreBounded`, `ResultOfFinisher`, `EndedStaysEnded` | `Placed`, for runs not torn: a run is in at most one of queue, claims and recovery. `Paid`, for every run: the times it was handed out, and the one more that a place in the queue or a promise of one stands for, are covered by retries and restarts. A restart begins with a copy of the tables and with the rows, so the copies on disk and still to be written must be as sound as the tables were (`CopyInv`), a copy must not name a run that was never handed out (`FreshInv`), and a row that says the run has ended must say so in memory too (`Standing`). For runs neither overtaken nor torn, `Standing` ties the place to the status, `Served` says what a request that let go of the lock may still rely on (its claim is there until it releases it, and its result is in the run), `InHands` and `Finished` are the properties themselves. Each action takes a run's claim only by putting the run somewhere else or by marking it |
| ResponseQueueProofs | `TypeCorrect`, `AnswersAreKept` | `Alone`: while no two operations overlapped, the one under way has read what is in the file, so its write changes its own entry only. `RemovesSent`: what is about to be removed was sent or cannot be. Without the second, a removal would have to be trusted; without the first, any write could drop an answer |
| CredentialLockProofs | `TypeCorrect`, `OneHolderIfApartHolds`, `RefusedOnlyIfHeldHolds` | Everything but the types and the age of a record is claimed only while operations did not overlap (`Apart`), `Recorded` and `Clear` only while no record was misread, `Gone` and `Owned` only while no file was left over and no owner taken on its pid alone: the operation under way is alone, what it read is still in the file (`Current`), whoever is about to replace the file takes it from nobody (`Clear`), a holder's record is in the file (`Recorded`), and a live process's record is a holder's, or that of a process about to find it or unable to refresh it (`Owned`). A recycled pid cannot pass for its predecessor because no record is younger than the process (`RecordInv`) |

What the checkpoint keeps of a line (`RunIdsOf`) is defined by recursion over its
length. The library's induction theorems take a predicate as a parameter, which these
provers cannot instantiate; `Induction` in LaneQueueProofs is about a set of naturals
instead and follows from `<` being well-founded (`LeastNatural`). `KeptExists` shows with
it that the recursive definition has a value, and `RunIdsOfFacts` that this value is a
subsequence of the line with every `run_id` of it.

Every safety property of a passing run is a theorem. Only model-checked are the liveness
properties (`ClaimGranted`, `TablesDrain`, `EventuallySettled`, `QueuedIsServed`,
`RequestEnds`, `OrphanIsMarked`, `QueuedEnds`, `QueuedIsSent`): they rest on fairness and
so on `ENABLED`, which is outside the prover's reach. The properties of the three runs
that expect a violation are false as they stand; `OneHolderIfApartHolds` and
`IncreasingWithoutStaleSaves` say under which condition two of them hold.

## Not modelled

- In modelled components: the cache of runtime handles and `evict_idle_handles`;
  `close_session` and `reset_session` (no caller); `export_trace` (read-only); the
  rest of `run_state_repository.py`; the gateway's health mirror and NDJSON files; an
  answer file that cannot be parsed.
- Of the local queue: runs with a browser checkpoint, pausing (a paused run waits for its operator, so
  `QueuedEnds` says nothing of it) and hard kill, a crash while the server starts, the
  worker registry, capabilities, workspaces and the score that orders eligible runs (which run
  a poll gets is left open), the length of the retry back-off, cold-boot recovery.
- The gateway's own requests (`state/outbox.ts`): the same read, await and write of a
  whole file that ResponseQueue shows for the answers; handshake, session tokens and
  heartbeats of `ws-client.ts`, which are the cloud's protocol as much as the gateway's.
- The gateway's self-update: staging, confirmation and rollback across restarts. It
  shares no state with the modelled parts.
- Channel execution leases and quotas: one SQL statement per operation, with a unique
  index; their atomicity is the database's. The circuit breaker
  (`downstream_resilience_service.py:71`, a state that several threads read and write
  without a lock) and request idempotency (`idempotency.py:77`, a look-up and a store in
  two critical sections): small check-then-act structures in front of code that is not
  modelled.
- Wall-clock values, back-off lengths and poll intervals: time is nondeterministic.
- Two backends on one SQLite file: the program refuses more than one worker.
- Payloads, names, prompts and rendering.

The repository has some 420,000 lines, and the modelled components are a small part of
it. The rest (the control plane's repository, authentication, billing, agents, skills,
connectors, provisioning, cloud runs, user interfaces, scripts) was surveyed and not
read line by line. Where it was read it consists of request handlers around single SQL
statements, prompt assembly, payload translation and rendering; cloud run execution and
machine provisioning have life cycles of their own that may deserve modules, and nothing
here says anything about them.

## Order of work

The order followed the consequences of a fault: first what decides whether a customer
gets an answer once (actor queue, session turns, outbox with its receipts), then who may
act at all (credential lock, lane queue), then the customer's machine (frame numbers,
local run queue, answers). A continuation would take up, in this order, the gateway's
request outbox composed with ResponseQueue over one connection, channel leases, the
handle cache composed with SessionTurns, and the self-update. No safety property of the
present modules is left to prove.
