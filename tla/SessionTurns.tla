---------------------------- MODULE SessionTurns ----------------------------
(***************************************************************************)
(* One chat session of EmpyralisSessionManager                             *)
(* (server_modules/session_manager/manager.py): iter_turn_events run by any*)
(* number of request threads, crashes of the process, and                  *)
(* interrupt_stale_sessions, which every process runs once, at its start,  *)
(* before it serves a request (runtime_app_lifespan in server.py).  There  *)
(* is one process at a time: ensure_single_worker_runtime refuses more.    *)
(* The rows live in SQLite and survive a crash.                            *)
(*                                                                         *)
(* Each read or write of a row is a step of its own; the body under        *)
(* actor_queue.claim is ordered by ActorLock, the specification that       *)
(* ActorQueue implements.  A retry of a turn is another request with the   *)
(* same turn id.                                                           *)
(*                                                                         *)
(* Every write of a row first asks the runtime kernel                      *)
(* (_enforce_runtime_state_store_decision), which refuses a status that is *)
(* not in its list; a refusal raises like a failing write.  The lists are a*)
(* parameter: the kernel that is deployed, and the one the tests put in its*)
(* place, do not accept the same statuses.                                 *)
(***************************************************************************)
EXTENDS Integers, FiniteSets

CONSTANTS Requests,    \* calls of iter_turn_events
          Turns,       \* turn ids
          TurnOf,      \* TurnOf[r]: the turn id request r carries
          Actor,       \* the actor key, which is also the session id
          Nobody,      \* not an actor key
          Kernels,     \* the status lists a kernel may have
          MaxFaults,   \* bound: database writes that raise
          MaxCrashes   \* bound: crashes of the process

ASSUME SessionTurnsAssumptions ==
    /\ TurnOf \in [Requests -> Turns]
    /\ Actor # Nobody
    /\ IsFiniteSet(Requests)
    /\ \A k \in Kernels : "absent" \notin k.sessions \cup k.turns
    /\ MaxFaults \in Nat /\ MaxCrashes \in Nat

VARIABLES
    kernel,      \* SESSION_STATUSES and TURN_STATUSES of the kernel that is running
    pc,          \* where request r is in iter_turn_events
    outcome,     \* what the executor of r ended with
    inside,      \* inside[r] = Actor while r holds the claim
    turn,        \* runtime_session_turns.status; "hollow": completed, empty payload
    session,     \* runtime_sessions.status
    recent,      \* last_touched_at is less than stale_session_seconds ago
    sweep,       \* where interrupt_stale_sessions is: "due" ... "over"
    toMark,      \* the running turns it has listed and not yet rewritten
    activeTurns, \* _active_turns
    faults, crashes,
    ran,         \* history: ran[t], executors started for turn t
    everDone,    \* history: turns once recorded as completed
    leaked       \* history: turns counted whose "running" write raised

rows == <<turn, session, recent>>
sweeper == <<sweep, toMark>>
history == <<ran, everDone, leaked>>
vars == <<kernel, pc, outcome, inside, rows, sweeper, activeTurns, faults, crashes, history>>

Claim == INSTANCE ActorLock
             WITH Threads <- Requests, Keys <- {Actor}, NoKey <- Nobody

Init ==
    /\ kernel \in Kernels
    /\ pc = [r \in Requests |-> "new"]
    /\ outcome = [r \in Requests |-> "none"]
    /\ Claim!Init
    /\ turn = [t \in Turns |-> "absent"]
    /\ session = "absent" /\ recent = TRUE
    /\ sweep = "due" /\ toMark = {}
    /\ activeTurns = 0 /\ faults = 0 /\ crashes = 0
    /\ ran = [t \in Turns |-> 0] /\ everDone = {} /\ leaked = 0

-----------------------------------------------------------------------------
At(r, here) == pc[r] = here
Goto(r, there) == pc' = [pc EXCEPT ![r] = there]
Fault == faults < MaxFaults /\ faults' = faults + 1

(* The status a row carries for a turn that ended with s *)
Stored(s) == IF s = "hollow" THEN "completed" ELSE s

(* _completed_turn_replay_event *)
Replayable(t) == turn[t] = "completed"

(* upsert_runtime_session and upsert_runtime_session_turn, when the kernel agrees *)
WriteSession(s) ==
    /\ s \in kernel.sessions
    /\ session' = s /\ recent' = TRUE /\ UNCHANGED turn
WriteTurn(t, s) ==
    /\ Stored(s) \in kernel.turns
    /\ turn' = [turn EXCEPT ![t] = s] /\ UNCHANGED <<session, recent>>

(* The status a session is given after a turn that ended with o *)
SettledAs(o) == IF o = "error" THEN "error" ELSE "ready"

(* The write request r is about to make carries a status the kernel refuses. *)
Refused(r) ==
    \/ At(r, "checked") /\ "ready" \notin kernel.sessions
    \/ At(r, "rechecked") /\ "active" \notin kernel.sessions
    \/ At(r, "activated") /\ "running" \notin kernel.turns
    \/ At(r, "recording") /\ Stored(outcome[r]) \notin kernel.turns
    \/ At(r, "settling") /\ SettledAs(outcome[r]) \notin kernel.sessions
    \/ At(r, "failing") /\ "error" \notin kernel.turns
    \/ At(r, "failed") /\ "error" \notin kernel.sessions

(* A write raises: it is refused, or the database fails. *)
WriteRaises(r) == IF Refused(r) THEN UNCHANGED faults ELSE Fault

(* The process has started up. *)
Serving == sweep = "over"

CheckReplay(r) ==
    /\ At(r, "new") /\ Serving
    /\ Goto(r, IF Replayable(TurnOf[r]) THEN "done" ELSE "checked")
    /\ UNCHANGED <<kernel, outcome, inside, rows, sweeper, activeTurns, faults, crashes, history>>

(* Mutant: a session that cannot be written does not keep the request out. *)
EnsureReadyBestEffort(r) ==
    /\ At(r, "checked")
    /\ UNCHANGED rows \/ WriteSession("ready")
    /\ Goto(r, "queued")
    /\ UNCHANGED <<kernel, outcome, inside, sweeper, activeTurns, faults, crashes, history>>

(* ensure_session(status="ready"), before the claim *)
EnsureReady(r) ==
    /\ At(r, "checked")
    /\ WriteSession("ready")
    /\ Goto(r, "queued")
    /\ UNCHANGED <<kernel, outcome, inside, sweeper, activeTurns, faults, crashes, history>>

(* Mutant: the body is entered without waiting for the claim. *)
EnterUnclaimed(r) ==
    /\ At(r, "queued")
    /\ inside' = [inside EXCEPT ![r] = Actor]
    /\ Goto(r, "claimed")
    /\ UNCHANGED <<kernel, outcome, rows, sweeper, activeTurns, faults, crashes, history>>

EnterClaim(r) ==
    /\ At(r, "queued")
    /\ Claim!Enter(r, Actor)
    /\ Goto(r, "claimed")
    /\ UNCHANGED <<kernel, outcome, rows, sweeper, activeTurns, faults, crashes, history>>

(* Mutant: the second look at the turn is left out. *)
RecheckSkipped(r) ==
    /\ At(r, "claimed")
    /\ Goto(r, "rechecked")
    /\ UNCHANGED <<kernel, outcome, inside, rows, sweeper, activeTurns, faults, crashes, history>>

(* The turn may have been completed while the request waited. *)
RecheckReplay(r) ==
    /\ At(r, "claimed")
    /\ Goto(r, IF Replayable(TurnOf[r]) THEN "leaving" ELSE "rechecked")
    /\ UNCHANGED <<kernel, outcome, inside, rows, sweeper, activeTurns, faults, crashes, history>>

(* ensure_session(status="active"), and the turn is counted *)
Activate(r) ==
    /\ At(r, "rechecked")
    /\ WriteSession("active")
    /\ activeTurns' = activeTurns + 1
    /\ Goto(r, "activated")
    /\ UNCHANGED <<kernel, outcome, inside, sweeper, faults, crashes, history>>

(* The turn is recorded as running and its executor is called. *)
StartTurn(r) ==
    /\ At(r, "activated")
    /\ WriteTurn(TurnOf[r], "running")
    /\ ran' = [ran EXCEPT ![TurnOf[r]] = @ + 1]
    /\ Goto(r, "executing")
    /\ UNCHANGED <<kernel, outcome, inside, sweeper, activeTurns, faults, crashes,
                   everDone, leaked>>

(* A write before the try raises: nothing is undone but the claim. *)
StartRaises(r) ==
    /\ pc[r] \in {"checked", "rechecked", "activated"}
    /\ WriteRaises(r)
    /\ leaked' = IF At(r, "activated") THEN leaked + 1 ELSE leaked
    /\ Goto(r, IF At(r, "checked") THEN "done" ELSE "leaving")
    /\ UNCHANGED <<kernel, outcome, inside, rows, sweeper, activeTurns, crashes, ran,
                   everDone>>

(* The executor's events are exhausted; the final payload may carry an error
   or be empty.                                                            *)
ExecutorEnds(r) ==
    /\ At(r, "executing")
    /\ \E o \in {"completed", "hollow", "error"} :
          outcome' = [outcome EXCEPT ![r] = o]
    /\ Goto(r, "recording")
    /\ UNCHANGED <<kernel, inside, rows, sweeper, activeTurns, faults, crashes, history>>

ExecutorRaises(r) ==
    /\ At(r, "executing")
    /\ Goto(r, "failing")
    /\ UNCHANGED <<kernel, outcome, inside, rows, sweeper, activeTurns, faults, crashes, history>>

(* The consumer closes the generator: GeneratorExit passes "except Exception". *)
ConsumerGone(r) ==
    /\ At(r, "executing")
    /\ Goto(r, "cleanup")
    /\ UNCHANGED <<kernel, outcome, inside, rows, sweeper, activeTurns, faults, crashes, history>>

RecordTurn(r) ==
    /\ At(r, "recording")
    /\ WriteTurn(TurnOf[r], outcome[r])
    /\ everDone' = IF outcome[r] = "completed" THEN everDone \cup {TurnOf[r]} ELSE everDone
    /\ Goto(r, "settling")
    /\ UNCHANGED <<kernel, outcome, inside, sweeper, activeTurns, faults, crashes, ran, leaked>>

SettleSession(r) ==
    /\ At(r, "settling")
    /\ WriteSession(SettledAs(outcome[r]))
    /\ Goto(r, "cleanup")
    /\ UNCHANGED <<kernel, outcome, inside, sweeper, activeTurns, faults, crashes, history>>

(* One of the two writes raises: the except clause takes over. *)
SettleRaises(r) ==
    /\ pc[r] \in {"recording", "settling"}
    /\ WriteRaises(r)
    /\ Goto(r, "failing")
    /\ UNCHANGED <<kernel, outcome, inside, rows, sweeper, activeTurns, crashes, history>>

FailTurn(r) ==
    /\ At(r, "failing")
    /\ WriteTurn(TurnOf[r], "error")
    /\ Goto(r, "failed")
    /\ UNCHANGED <<kernel, outcome, inside, sweeper, activeTurns, faults, crashes, history>>

FailSession(r) ==
    /\ At(r, "failed")
    /\ WriteSession("error")
    /\ Goto(r, "cleanup")
    /\ UNCHANGED <<kernel, outcome, inside, sweeper, activeTurns, faults, crashes, history>>

FailRaises(r) ==
    /\ pc[r] \in {"failing", "failed"}
    /\ WriteRaises(r)
    /\ Goto(r, "cleanup")
    /\ UNCHANGED <<kernel, outcome, inside, rows, sweeper, activeTurns, crashes, history>>

(* Mutant: the counter is not brought down again. *)
OneTurnFewerForgotten == activeTurns

(* Mutant: it is brought down twice, and not kept from going below zero. *)
OneTurnFewerTwice == activeTurns - 2

OneTurnFewer == IF activeTurns > 0 THEN activeTurns - 1 ELSE 0

(* finally *)
Cleanup(r) ==
    /\ At(r, "cleanup")
    /\ activeTurns' = OneTurnFewer
    /\ Goto(r, "leaving")
    /\ UNCHANGED <<kernel, outcome, inside, rows, sweeper, faults, crashes, history>>

(* Mutant: the claim is given back only when the turn did not fail. *)
LeaveClaimUnlessFailed(r) ==
    /\ At(r, "leaving")
    /\ IF outcome[r] = "error" THEN UNCHANGED inside ELSE Claim!Exit(r)
    /\ Goto(r, "done")
    /\ UNCHANGED <<kernel, outcome, rows, sweeper, activeTurns, faults, crashes, history>>

LeaveClaim(r) ==
    /\ At(r, "leaving")
    /\ Claim!Exit(r)
    /\ Goto(r, "done")
    /\ UNCHANGED <<kernel, outcome, rows, sweeper, activeTurns, faults, crashes, history>>

-----------------------------------------------------------------------------
Stale == session = "active" /\ ~recent

(* interrupt_stale_sessions: list the stale active sessions ... *)
SweepBegins ==
    /\ sweep = "due"
    /\ sweep' = IF Stale THEN "interrupting" ELSE "over"
    /\ UNCHANGED <<kernel, pc, outcome, inside, rows, toMark, activeTurns, faults, crashes, history>>

(* ... mark the session interrupted ... *)
MarkInterrupted ==
    /\ sweep = "interrupting"
    /\ WriteSession("interrupted")
    /\ sweep' = "listing"
    /\ UNCHANGED <<kernel, pc, outcome, inside, toMark, activeTurns, faults, crashes, history>>

(* Mutant: the running turns are not listed. *)
ListedNone == {}

(* Mutant: the turns are listed whatever their status. *)
ListedAll == {t \in Turns : turn[t] # "absent"}

Listed == {t \in Turns : turn[t] = "running"}

(* ... list its running turns ... *)
ListRunning ==
    /\ sweep = "listing"
    /\ toMark' = Listed
    /\ sweep' = IF toMark' = {} THEN "over" ELSE "marking"
    /\ UNCHANGED <<kernel, pc, outcome, inside, rows, activeTurns, faults, crashes, history>>

(* ... and write the rows it has read back with status "error". *)
MarkTurn(t) ==
    /\ sweep = "marking" /\ t \in toMark
    /\ WriteTurn(t, "error")
    /\ toMark' = toMark \ {t}
    /\ sweep' = IF toMark' = {} THEN "over" ELSE "marking"
    /\ UNCHANGED <<kernel, pc, outcome, inside, activeTurns, faults, crashes, history>>

(* The kernel refuses the status the sweep is about to write. *)
SweepRefused ==
    \/ sweep = "interrupting" /\ "interrupted" \notin kernel.sessions
    \/ sweep = "marking" /\ "error" \notin kernel.turns

(* A read or a write raises: the caller gives up and the process serves. *)
SweepRaises ==
    /\ ~Serving
    /\ IF SweepRefused THEN UNCHANGED faults ELSE Fault
    /\ sweep' = "over" /\ toMark' = {}
    /\ UNCHANGED <<kernel, pc, outcome, inside, rows, activeTurns, crashes, history>>

TimePasses ==
    /\ recent
    /\ recent' = FALSE
    /\ UNCHANGED <<kernel, pc, outcome, inside, turn, session, sweeper, activeTurns, faults,
                   crashes, history>>

(* The process dies and is started again: the requests, the claim and the counter
   are gone, and the sweep is due.                                           *)
Crash ==
    /\ crashes < MaxCrashes
    /\ crashes' = crashes + 1
    /\ pc' = [r \in Requests |-> IF pc[r] = "new" THEN "new" ELSE "done"]
    /\ inside' = [r \in Requests |-> Nobody]
    /\ sweep' = "due" /\ toMark' = {}
    /\ activeTurns' = 0 /\ leaked' = 0
    /\ UNCHANGED <<kernel, outcome, rows, faults, ran, everDone>>

(* A refused write is a step the thread takes, not an accident. *)
RefusedStep(r) == Refused(r) /\ (StartRaises(r) \/ SettleRaises(r) \/ FailRaises(r))

Step(r) ==
    \/ EnsureReady(r) \/ EnterClaim(r) \/ RecheckReplay(r) \/ Activate(r)
    \/ StartTurn(r) \/ ExecutorEnds(r) \/ RecordTurn(r) \/ SettleSession(r)
    \/ FailTurn(r) \/ FailSession(r) \/ Cleanup(r) \/ LeaveClaim(r)
    \/ RefusedStep(r)

Sweep ==
    \/ SweepBegins \/ MarkInterrupted \/ ListRunning
    \/ \E t \in Turns : MarkTurn(t)
    \/ SweepRefused /\ SweepRaises

Next ==
    \/ \E r \in Requests :
          \/ CheckReplay(r) \/ Step(r) \/ ExecutorRaises(r) \/ ConsumerGone(r)
          \/ StartRaises(r) \/ SettleRaises(r) \/ FailRaises(r)
    \/ Sweep \/ SweepRaises \/ TimePasses \/ Crash

Spec == Init /\ [][Next]_vars

(* Threads of the process run, executors come to an end, and a process that was
   started goes through its startup.  A request need not arrive, no write need
   fail, and no clock decides when a process is started.                   *)
FairSpec == Spec /\ (\A r \in Requests : WF_vars(Step(r))) /\ WF_vars(Sweep)

-----------------------------------------------------------------------------
(* The type invariant: what each field of the code may hold; a row carries only a
   status the kernel lets through.                                          *)
TypeOK ==
    /\ kernel \in Kernels
    /\ turn \in [Turns -> {"absent", "running", "completed", "hollow", "error"}]
    /\ session \in {"absent", "ready", "active", "error", "interrupted"}
    /\ pc \in [Requests -> {"new", "checked", "queued", "claimed", "rechecked",
                            "activated", "executing", "recording", "settling",
                            "failing", "failed", "cleanup", "leaving", "done"}]
    /\ outcome \in [Requests -> {"none", "completed", "hollow", "error"}]
    /\ inside \in [Requests -> {Actor, Nobody}]
    /\ \A t \in Turns : turn[t] # "absent" => Stored(turn[t]) \in kernel.turns
    /\ session # "absent" => session \in kernel.sessions
    /\ recent \in BOOLEAN
    /\ sweep \in {"due", "interrupting", "listing", "marking", "over"}
    /\ toMark \subseteq Turns
    /\ activeTurns \in Nat /\ leaked \in Nat
    /\ faults \in 0..MaxFaults /\ crashes \in 0..MaxCrashes
    /\ ran \in [Turns -> Nat] /\ everDone \subseteq Turns

InTurn == {"activated", "executing", "recording", "settling", "failing", "failed",
           "cleanup"}

(* A recorded answer is never thrown away by running its turn again: of any
   number of requests with one turn id, waiting on one another or not, none
   turns a completed row back into a running one.                           *)
CompletedNeverRestarts ==
    [][\A t \in Turns : turn[t] = "completed" => turn'[t] # "running"]_vars

(* The turns counted for the observability snapshot are those under way, and
   those whose "running" write raised before the try that would uncount them. *)
ActiveTurnsCounted ==
    activeTurns = Cardinality({r \in Requests : pc[r] \in InTurn}) + leaked

(* An answer that was streamed is on record: when an executor has ended with a
   payload, its row says completed until the request has left the claim, unless
   the database failed or the kernel takes no completed turn.  A kernel that lets
   a request in with "ready" cannot refuse to settle its session with it, so no
   refusal sends a recorded answer into the except clause.                   *)
AnswerIsRecorded ==
    \A r \in Requests :
        /\ pc[r] \in {"settling", "cleanup", "leaving"}
        /\ outcome[r] = "completed"
        /\ faults = 0
        /\ "completed" \in kernel.turns
        => turn[TurnOf[r]] = "completed"

(* Every request that got past its first check comes to an end: the claim is
   given back on every path.                                                *)
RequestEnds == \A r \in Requests : pc[r] = "checked" ~> pc[r] = "done"

(* A turn that lost its worker does not stay "running": when a process starts and
   finds the session stale, neither that startup nor the database fails, and the
   kernel takes the two statuses the sweep writes, the turn is marked.       *)
OrphanIsMarked ==
    \A t \in Turns :
        /\ sweep = "interrupting" /\ turn[t] = "running"
        /\ crashes = MaxCrashes /\ faults = MaxFaults
        /\ "interrupted" \in kernel.sessions /\ "error" \in kernel.turns
        ~> turn[t] # "running"

(* What test_completed_turn_with_same_request_id_replays_without_reexecution
   says of a retry, for any number of concurrent retries, crashes and startup
   sweeps, under any kernel: once a turn was recorded as completed, no executor is
   started for it again, as long as the database did not fail.  Refusals are not
   excepted: none can undo a recorded answer.                               *)
NeverReexecuted ==
    [][\A t \in Turns : t \in everDone /\ faults = 0 => ran'[t] = ran[t]]_vars

(* Fail closed: an executor is started, and a turn is on record, only under a
   kernel that accepts every status a request writes on its way there.  With the
   kernel's own lists, which lack "ready", no request gets that far.         *)
ExecutorsAreAdmitted ==
    \A t \in Turns :
        ran[t] > 0 \/ turn[t] # "absent" =>
            {"ready", "active"} \subseteq kernel.sessions /\ "running" \in kernel.turns
=============================================================================
