------------------------- MODULE SessionTurnsProofs -------------------------
(* That no request turns a completed turn back into a running one, and that no
   turn is executed again once it was completed while the database has not failed:
   whatever statuses the kernel refuses, for any number of requests, turns,
   failing writes, startup sweeps and crashes.                              *)
EXTENDS SessionTurns, FiniteSetTheorems, TLAPS

Unclaimed == {"new", "checked", "queued", "done"}

(* Inductive: a request past EnterClaim and before LeaveClaim holds the claim,
   nobody else does, and between the second look at its turn and the write of
   "running" the turn is not completed.  The kernel has let such a request in, so
   it accepts "ready".                                                      *)
ClaimInv ==
    /\ DOMAIN pc = Requests
    /\ inside \in [Requests -> {Actor, Nobody}]
    /\ turn \in [Turns -> {"absent", "running", "completed", "hollow", "error"}]
    /\ outcome \in [Requests -> {"none", "completed", "hollow", "error"}]
    /\ \A r \in Requests : pc[r] = "recording" => outcome[r] # "none"
    /\ \A r \in Requests : pc[r] \notin Unclaimed => inside[r] = Actor
    /\ \A r, q \in Requests : inside[r] = Actor /\ inside[q] = Actor => r = q
    /\ \A r \in Requests : pc[r] \in {"rechecked", "activated"} =>
                              turn[TurnOf[r]] # "completed"
    /\ \A r \in Requests : pc[r] \notin {"new", "checked", "done"} =>
                              "ready" \in kernel.sessions

(* No request has begun. *)
LEMMA InitClaimInv == Init => ClaimInv
BY SessionTurnsAssumptions DEF Init, ClaimInv, Claim!Init, Unclaimed

(* The steps of a request before it holds the claim, and taking it. *)
LEMMA ApproachClaimInv ==
    ASSUME ClaimInv, NEW r \in Requests,
           CheckReplay(r) \/ EnsureReady(r) \/ EnterClaim(r)
    PROVE  ClaimInv'
<1>1. CASE CheckReplay(r)
  BY <1>1 DEF CheckReplay, ClaimInv, At, Goto, rows, Unclaimed
<1>2. CASE EnsureReady(r)
  BY <1>2 DEF EnsureReady, WriteSession, ClaimInv, At, Goto, Unclaimed
<1>3. CASE EnterClaim(r)
  BY <1>3, SessionTurnsAssumptions
  DEF EnterClaim, Claim!Enter, ClaimInv, At, Goto, rows, Unclaimed
<1> QED BY <1>1, <1>2, <1>3

(* The steps under the claim that do not write the turn. *)
LEMMA QuietClaimInv ==
    ASSUME ClaimInv, NEW r \in Requests,
           \/ RecheckReplay(r) \/ Activate(r) \/ ExecutorEnds(r) \/ ExecutorRaises(r)
           \/ ConsumerGone(r) \/ SettleSession(r) \/ FailSession(r) \/ Cleanup(r)
    PROVE  ClaimInv'
<1>1. CASE RecheckReplay(r)
  BY <1>1 DEF RecheckReplay, Replayable, ClaimInv, At, Goto, rows, Unclaimed
<1>2. CASE Activate(r)
  BY <1>2 DEF Activate, WriteSession, ClaimInv, At, Goto, Unclaimed
<1>3. CASE ExecutorEnds(r)
  BY <1>3 DEF ExecutorEnds, ClaimInv, At, Goto, rows, Unclaimed
<1>4. CASE ExecutorRaises(r) \/ ConsumerGone(r)
  BY <1>4 DEF ExecutorRaises, ConsumerGone, ClaimInv, At, Goto, rows, Unclaimed
<1>5. CASE SettleSession(r) \/ FailSession(r)
  BY <1>5 DEF SettleSession, FailSession, WriteSession, ClaimInv, At, Goto, Unclaimed
<1>6. CASE Cleanup(r)
  BY <1>6 DEF Cleanup, ClaimInv, At, Goto, rows, Unclaimed
<1> QED BY <1>1, <1>2, <1>3, <1>4, <1>5, <1>6

(* The steps that write the turn: their request is the one with the claim, so
   no other request is between its second look and its own write.           *)
LEMMA WriteClaimInv ==
    ASSUME ClaimInv, NEW r \in Requests,
           StartTurn(r) \/ RecordTurn(r) \/ FailTurn(r)
    PROVE  ClaimInv'
<1>1. CASE StartTurn(r)
  BY <1>1, SessionTurnsAssumptions
  DEF StartTurn, WriteTurn, ClaimInv, At, Goto, Unclaimed
<1>2. CASE RecordTurn(r)
  BY <1>2, SessionTurnsAssumptions
  DEF RecordTurn, WriteTurn, ClaimInv, At, Goto, Unclaimed
<1>3. CASE FailTurn(r)
  BY <1>3, SessionTurnsAssumptions
  DEF FailTurn, WriteTurn, ClaimInv, At, Goto, Unclaimed
<1> QED BY <1>1, <1>2, <1>3

(* A failing write inside the claim, and leaving it, keep ClaimInv. *)
LEMMA RaiseClaimInv ==
    ASSUME ClaimInv, NEW r \in Requests,
           StartRaises(r) \/ SettleRaises(r) \/ FailRaises(r) \/ LeaveClaim(r)
    PROVE  ClaimInv'
<1>1. CASE StartRaises(r)
  BY <1>1 DEF StartRaises, ClaimInv, At, Goto, rows, Unclaimed
<1>2. CASE SettleRaises(r) \/ FailRaises(r)
  BY <1>2 DEF SettleRaises, FailRaises, ClaimInv, At, Goto, rows, Unclaimed
<1>3. CASE LeaveClaim(r)
  BY <1>3, SessionTurnsAssumptions
  DEF LeaveClaim, Claim!Exit, ClaimInv, At, Goto, rows, Unclaimed
<1> QED BY <1>1, <1>2, <1>3

(* The sweep writes only "error"; a crash lets go of everything. *)
LEMMA OutsideClaimInv ==
    ASSUME ClaimInv, Sweep \/ SweepRaises \/ TimePasses \/ Crash
    PROVE  ClaimInv'
<1>1. CASE SweepBegins \/ ListRunning \/ SweepRaises
  BY <1>1 DEF SweepBegins, ListRunning, SweepRaises, ClaimInv, rows, Unclaimed
<1>2. CASE MarkInterrupted
  BY <1>2 DEF MarkInterrupted, WriteSession, ClaimInv, Unclaimed
<1>3. ASSUME NEW t \in Turns, MarkTurn(t) PROVE ClaimInv'
  BY <1>3, SessionTurnsAssumptions DEF MarkTurn, WriteTurn, ClaimInv, Unclaimed
<1>4. CASE TimePasses
  BY <1>4 DEF TimePasses, ClaimInv, Unclaimed
<1>5. CASE Crash
  BY <1>5, SessionTurnsAssumptions DEF Crash, ClaimInv, rows, Unclaimed
<1> QED BY <1>1, <1>2, <1>3, <1>4, <1>5 DEF Sweep

(* Every step of a request, the sweep, time and a crash keep ClaimInv. *)
LEMMA NextClaimInv == ClaimInv /\ [Next]_vars => ClaimInv'
<1> SUFFICES ASSUME ClaimInv, [Next]_vars PROVE ClaimInv'
  OBVIOUS
<1>1. CASE UNCHANGED vars
  BY <1>1 DEF vars, rows, ClaimInv, Unclaimed
<1>2. CASE Next
  BY <1>2, ApproachClaimInv, QuietClaimInv, WriteClaimInv, RaiseClaimInv,
     OutsideClaimInv DEF Next, Step, RefusedStep
<1> QED BY <1>1, <1>2

(* Only StartTurn writes "running", and it comes after the second look. *)
LEMMA StepNeverRestarts ==
    ASSUME ClaimInv, [Next]_vars, NEW t \in Turns, turn[t] = "completed"
    PROVE  turn'[t] # "running"
<1>1. CASE UNCHANGED turn BY <1>1
<1>2. ASSUME NEW r \in Requests, StartTurn(r) PROVE turn'[t] # "running"
  BY <1>2, SessionTurnsAssumptions DEF StartTurn, WriteTurn, ClaimInv, At
<1>3. ASSUME NEW r \in Requests, RecordTurn(r) PROVE turn'[t] # "running"
  BY <1>3, SessionTurnsAssumptions DEF RecordTurn, WriteTurn, ClaimInv, At
<1>4. ASSUME NEW r \in Requests, FailTurn(r) PROVE turn'[t] # "running"
  BY <1>4, SessionTurnsAssumptions DEF FailTurn, WriteTurn, ClaimInv, At
<1>5. ASSUME NEW u \in Turns, MarkTurn(u) PROVE turn'[t] # "running"
  BY <1>5 DEF MarkTurn, WriteTurn, ClaimInv
<1>6. ASSUME NEW r \in Requests,
             \/ CheckReplay(r) \/ EnsureReady(r) \/ EnterClaim(r) \/ RecheckReplay(r)
             \/ Activate(r) \/ ExecutorEnds(r) \/ ExecutorRaises(r) \/ ConsumerGone(r)
             \/ SettleSession(r) \/ FailSession(r) \/ Cleanup(r) \/ LeaveClaim(r)
             \/ StartRaises(r) \/ SettleRaises(r) \/ FailRaises(r)
      PROVE  UNCHANGED turn
  BY <1>6 DEF CheckReplay, EnsureReady, EnterClaim, RecheckReplay, Activate,
     ExecutorEnds, ExecutorRaises, ConsumerGone, SettleSession, FailSession, Cleanup,
     LeaveClaim, StartRaises, SettleRaises, FailRaises, WriteSession, rows
<1>7. ASSUME \/ SweepBegins \/ MarkInterrupted \/ ListRunning
             \/ SweepRaises \/ TimePasses \/ Crash \/ UNCHANGED vars
      PROVE  UNCHANGED turn
  BY <1>7 DEF SweepBegins, MarkInterrupted, ListRunning, SweepRaises, TimePasses,
     Crash, WriteSession, rows, vars
<1> QED BY <1>1, <1>2, <1>3, <1>4, <1>5, <1>6, <1>7 DEF Next, Step, RefusedStep, Sweep

(* iter_turn_events never restarts a turn whose answer is on record: the look at
   the row inside the claim is enough, whatever happened while waiting.     *)
THEOREM CompletedNeverRestartsHolds == Spec => CompletedNeverRestarts
<1>1. ClaimInv /\ [Next]_vars =>
        [\A t \in Turns : turn[t] = "completed" => turn'[t] # "running"]_vars
  BY StepNeverRestarts
<1> QED BY <1>1, InitClaimInv, NextClaimInv, PTL DEF Spec, CompletedNeverRestarts

-----------------------------------------------------------------------------
(* Inductive, with ClaimInv: the sweep has the process for itself, and while no
   write has failed, an answer once recorded stays recorded -- nobody who is
   about to write a turn, a request or the sweep, writes one of those.      *)
RecordInv ==
    /\ DOMAIN ran = Turns /\ everDone \subseteq Turns /\ faults \in Nat
    /\ sweep # "over" => \A r \in Requests : pc[r] \in {"new", "done"}
    /\ sweep # "marking" => toMark = {}
    /\ faults = 0 =>
          /\ \A t \in everDone : turn[t] = "completed"
          /\ \A r \in Requests : pc[r] \in {"executing", "recording", "failing"} =>
                                    TurnOf[r] \notin everDone
          /\ \A r \in Requests : pc[r] = "settling" /\ outcome[r] # "completed" =>
                                    TurnOf[r] \notin everDone
          /\ \A t \in toMark : t \notin everDone

(* Nothing is recorded at the start. *)
LEMMA InitRecordInv == Init => RecordInv
BY SessionTurnsAssumptions DEF Init, RecordInv

(* The steps of a request up to its executor. *)
LEMMA ApproachRecordInv ==
    ASSUME ClaimInv, RecordInv, NEW r \in Requests,
           \/ CheckReplay(r) \/ EnsureReady(r) \/ EnterClaim(r)
           \/ RecheckReplay(r) \/ Activate(r)
    PROVE  RecordInv'
<1>1. CASE CheckReplay(r)
  BY <1>1 DEF CheckReplay, Serving, ClaimInv, RecordInv, At, Goto, rows, sweeper, history
<1>2. CASE EnsureReady(r) \/ Activate(r)
  BY <1>2
  DEF EnsureReady, Activate, WriteSession, ClaimInv, RecordInv, At, Goto, sweeper, history
<1>3. CASE EnterClaim(r) \/ RecheckReplay(r)
  BY <1>3
  DEF EnterClaim, RecheckReplay, ClaimInv, RecordInv, At, Goto, rows, sweeper, history
<1> QED BY <1>1, <1>2, <1>3

(* Only the request with the claim writes a turn. *)
LEMMA WriteRecordInv ==
    ASSUME ClaimInv, RecordInv, NEW r \in Requests,
           StartTurn(r) \/ RecordTurn(r) \/ FailTurn(r)
    PROVE  RecordInv'
<1> USE SessionTurnsAssumptions
<1>1. inside[r] = Actor /\ sweep = "over" /\ toMark = {}
  BY DEF StartTurn, RecordTurn, FailTurn, ClaimInv, RecordInv, At, Unclaimed
<1>2. ASSUME NEW q \in Requests, q # r PROVE pc[q] \in Unclaimed
  BY <1>1, <1>2 DEF ClaimInv
<1>3. CASE StartTurn(r)
  BY <1>1, <1>2, <1>3
  DEF StartTurn, WriteTurn, ClaimInv, RecordInv, At, Goto, sweeper, Unclaimed
<1>4. CASE RecordTurn(r)
  BY <1>1, <1>2, <1>4
  DEF RecordTurn, WriteTurn, ClaimInv, RecordInv, At, Goto, sweeper, Unclaimed
<1>5. CASE FailTurn(r)
  BY <1>1, <1>2, <1>5
  DEF FailTurn, WriteTurn, ClaimInv, RecordInv, At, Goto, sweeper, history, Unclaimed
<1> QED BY <1>3, <1>4, <1>5

(* The steps of a request from the end of its executor on. *)
LEMMA LaterRecordInv ==
    ASSUME ClaimInv, RecordInv, NEW r \in Requests,
           \/ ExecutorEnds(r) \/ ExecutorRaises(r) \/ ConsumerGone(r)
           \/ SettleSession(r) \/ FailSession(r) \/ Cleanup(r) \/ LeaveClaim(r)
    PROVE  RecordInv'
<1>1. CASE ExecutorEnds(r) \/ ExecutorRaises(r) \/ ConsumerGone(r)
  BY <1>1 DEF ExecutorEnds, ExecutorRaises, ConsumerGone, ClaimInv, RecordInv, At, Goto,
     rows, sweeper, history
<1>2. CASE SettleSession(r) \/ FailSession(r)
  BY <1>2 DEF SettleSession, FailSession, WriteSession, ClaimInv, RecordInv, At, Goto,
     sweeper, history
<1>3. CASE Cleanup(r) \/ LeaveClaim(r)
  BY <1>3 DEF Cleanup, LeaveClaim, ClaimInv, RecordInv, At, Goto, rows, sweeper, history
<1> QED BY <1>1, <1>2, <1>3

(* After a failing write nothing more is claimed of the record, and a refused one
   did not come after the record of an answer.                              *)
LEMMA RaiseRecordInv ==
    ASSUME ClaimInv, RecordInv, NEW r \in Requests,
           StartRaises(r) \/ SettleRaises(r) \/ FailRaises(r)
    PROVE  RecordInv'
<1>1. UNCHANGED rows /\ UNCHANGED sweeper /\ UNCHANGED <<outcome, ran, everDone>>
  BY DEF StartRaises, SettleRaises, FailRaises, history
<1>2. faults' \in Nat /\ (faults' = 0 => faults = 0 /\ Refused(r))
  BY DEF StartRaises, SettleRaises, FailRaises, WriteRaises, Fault, RecordInv
<1>3. sweep # "over" => \A q \in Requests : pc'[q] \in {"new", "done"}
  BY DEF StartRaises, SettleRaises, FailRaises, RecordInv, ClaimInv, At, Goto
<1>4. CASE StartRaises(r) \/ FailRaises(r)
  BY <1>1, <1>2, <1>3, <1>4
  DEF StartRaises, FailRaises, ClaimInv, RecordInv, At, Goto, rows, sweeper
<1>5. CASE SettleRaises(r)
  <2>1. faults' = 0 => TurnOf[r] \notin everDone
    BY <1>2, <1>5 DEF SettleRaises, Refused, SettledAs, ClaimInv, RecordInv, At
  <2> QED BY <1>1, <1>2, <1>3, <1>5, <2>1
          DEF SettleRaises, ClaimInv, RecordInv, Goto, rows, sweeper
<1> QED BY <1>4, <1>5

(* The startup sweep, time and a crash. *)
LEMMA OutsideRecordInv ==
    ASSUME ClaimInv, RecordInv, Sweep \/ SweepRaises \/ TimePasses \/ Crash
    PROVE  RecordInv'
<1>1. CASE SweepBegins
  BY <1>1 DEF SweepBegins, RecordInv, rows, history
<1>2. CASE MarkInterrupted
  BY <1>2 DEF MarkInterrupted, WriteSession, RecordInv, history
<1>3. CASE ListRunning
  BY <1>3 DEF ListRunning, Listed, RecordInv, rows, history
<1>4. ASSUME NEW t \in Turns, MarkTurn(t) PROVE RecordInv'
  BY <1>4 DEF MarkTurn, WriteTurn, ClaimInv, RecordInv, history
<1>5. CASE SweepRaises
  BY <1>5 DEF SweepRaises, Fault, RecordInv, rows, history
<1>6. CASE TimePasses
  BY <1>6 DEF TimePasses, RecordInv, sweeper, history
<1>7. CASE Crash
  BY <1>7 DEF Crash, RecordInv, rows
<1> QED BY <1>1, <1>2, <1>3, <1>4, <1>5, <1>6, <1>7 DEF Sweep

(* Every step keeps RecordInv. *)
LEMMA NextRecordInv == ClaimInv /\ RecordInv /\ [Next]_vars => RecordInv'
<1> SUFFICES ASSUME ClaimInv, RecordInv, [Next]_vars PROVE RecordInv'
  OBVIOUS
<1>1. CASE UNCHANGED vars
  BY <1>1 DEF vars, rows, sweeper, history, RecordInv
<1>2. CASE Next
  BY <1>2, ApproachRecordInv, WriteRecordInv, LaterRecordInv, RaiseRecordInv,
     OutsideRecordInv DEF Next, Step, RefusedStep
<1> QED BY <1>1, <1>2

(* Only StartTurn counts an execution, and its turn is not completed. *)
LEMMA StepNeverReexecutes ==
    ASSUME ClaimInv, RecordInv, [Next]_vars, NEW t \in Turns, t \in everDone, faults = 0
    PROVE  ran'[t] = ran[t]
<1>1. ASSUME NEW r \in Requests, StartTurn(r) PROVE ran'[t] = ran[t]
  <2>1. TurnOf[r] # t
    BY <1>1 DEF StartTurn, At, ClaimInv, RecordInv
  <2> QED BY <1>1, <2>1 DEF StartTurn, RecordInv
<1>2. ASSUME NEW r \in Requests,
             \/ CheckReplay(r) \/ EnsureReady(r) \/ EnterClaim(r) \/ RecheckReplay(r)
             \/ Activate(r) \/ ExecutorEnds(r) \/ ExecutorRaises(r) \/ ConsumerGone(r)
             \/ RecordTurn(r) \/ FailTurn(r) \/ SettleSession(r) \/ FailSession(r)
             \/ Cleanup(r) \/ LeaveClaim(r) \/ StartRaises(r) \/ SettleRaises(r)
             \/ FailRaises(r)
      PROVE  UNCHANGED ran
  BY <1>2 DEF CheckReplay, EnsureReady, EnterClaim, RecheckReplay, Activate,
     ExecutorEnds, ExecutorRaises, ConsumerGone, RecordTurn, FailTurn, SettleSession,
     FailSession, Cleanup, LeaveClaim, StartRaises, SettleRaises, FailRaises, history
<1>3. ASSUME \/ Sweep \/ SweepRaises \/ TimePasses \/ Crash \/ UNCHANGED vars
      PROVE  UNCHANGED ran
  BY <1>3 DEF Sweep, SweepBegins, MarkInterrupted, ListRunning, MarkTurn, SweepRaises,
     TimePasses, Crash, vars, history
<1> QED BY <1>1, <1>2, <1>3 DEF Next, Step, RefusedStep

(* A completed turn is not executed again by a retry, however retries, crashes and
   interrupt_stale_sessions fall together and whichever statuses the kernel
   refuses, while no write to SQLite fails.                                  *)
THEOREM NeverReexecutedHolds == Spec => NeverReexecuted
<1>1. ClaimInv /\ RecordInv /\ [Next]_vars =>
        [\A t \in Turns : t \in everDone /\ faults = 0 => ran'[t] = ran[t]]_vars
  BY StepNeverReexecutes
<1> QED BY <1>1, InitClaimInv, NextClaimInv, InitRecordInv, NextRecordInv, PTL
        DEF Spec, NeverReexecuted
-----------------------------------------------------------------------------
BeforeEnd == {"new", "checked", "queued", "claimed", "rechecked", "activated", "executing"}

(* Inductive, with ClaimInv and RecordInv: an executor ends once per request, the
   except clause follows an answer only after a failing write, and between the record
   of an answer and the end of the claim nobody else writes its turn.        *)
AnswerInv ==
    /\ \A r \in Requests : pc[r] \in BeforeEnd => outcome[r] = "none"
    /\ faults = 0 /\ "completed" \in kernel.turns => \A r \in Requests :
          /\ pc[r] \in {"failing", "failed"} => outcome[r] # "completed"
          /\ pc[r] \in {"settling", "cleanup", "leaving"} /\ outcome[r] = "completed" =>
                turn[TurnOf[r]] = "completed"

(* No executor has ended at the start. *)
LEMMA InitAnswerInv == Init => AnswerInv
BY DEF Init, AnswerInv

(* The steps of a request that write no turn. *)
LEMMA QuietAnswerInv ==
    ASSUME ClaimInv, RecordInv, AnswerInv, NEW r \in Requests,
           \/ CheckReplay(r) \/ EnsureReady(r) \/ EnterClaim(r) \/ RecheckReplay(r)
           \/ Activate(r) \/ ExecutorEnds(r) \/ ExecutorRaises(r) \/ ConsumerGone(r)
           \/ SettleSession(r) \/ FailSession(r) \/ Cleanup(r) \/ LeaveClaim(r)
    PROVE  AnswerInv'
<1>1. CASE CheckReplay(r) \/ EnterClaim(r) \/ RecheckReplay(r)
  BY <1>1 DEF CheckReplay, EnterClaim, RecheckReplay, ClaimInv, AnswerInv, BeforeEnd,
     At, Goto, rows
<1>2. CASE EnsureReady(r) \/ Activate(r) \/ SettleSession(r) \/ FailSession(r)
  BY <1>2 DEF EnsureReady, Activate, SettleSession, FailSession, WriteSession, ClaimInv,
     AnswerInv, BeforeEnd, At, Goto
<1>3. CASE ExecutorEnds(r)
  BY <1>3 DEF ExecutorEnds, ClaimInv, AnswerInv, BeforeEnd, At, Goto, rows
<1>4. CASE ExecutorRaises(r) \/ ConsumerGone(r) \/ Cleanup(r) \/ LeaveClaim(r)
  BY <1>4 DEF ExecutorRaises, ConsumerGone, Cleanup, LeaveClaim, ClaimInv, AnswerInv,
     BeforeEnd, At, Goto, rows
<1> QED BY <1>1, <1>2, <1>3, <1>4

(* The steps that write a turn: the request with the claim does. *)
LEMMA WriteAnswerInv ==
    ASSUME ClaimInv, RecordInv, AnswerInv, NEW r \in Requests,
           StartTurn(r) \/ RecordTurn(r) \/ FailTurn(r)
    PROVE  AnswerInv'
<1> USE SessionTurnsAssumptions
<1>1. inside[r] = Actor
  BY DEF StartTurn, RecordTurn, FailTurn, ClaimInv, At, Unclaimed
<1>2. ASSUME NEW q \in Requests, q # r PROVE pc[q] \in Unclaimed
  BY <1>1, <1>2 DEF ClaimInv
<1>3. CASE StartTurn(r)
  BY <1>2, <1>3 DEF StartTurn, WriteTurn, ClaimInv, AnswerInv, BeforeEnd, At, Goto, Unclaimed
<1>4. CASE RecordTurn(r)
  BY <1>2, <1>4 DEF RecordTurn, WriteTurn, ClaimInv, AnswerInv, BeforeEnd, At, Goto,
     Unclaimed
<1>5. CASE FailTurn(r)
  BY <1>2, <1>5 DEF FailTurn, WriteTurn, ClaimInv, AnswerInv, BeforeEnd, At, Goto, Unclaimed
<1> QED BY <1>3, <1>4, <1>5

(* A failing write, the startup sweep, time and a crash. *)
LEMMA OutsideAnswerInv ==
    ASSUME ClaimInv, RecordInv, AnswerInv,
           \/ \E r \in Requests : StartRaises(r) \/ SettleRaises(r) \/ FailRaises(r)
           \/ Sweep \/ SweepRaises \/ TimePasses \/ Crash
    PROVE  AnswerInv'
<1>1. ASSUME NEW r \in Requests, StartRaises(r) \/ SettleRaises(r) \/ FailRaises(r)
      PROVE  AnswerInv'
  <2>1. UNCHANGED <<kernel, turn, outcome>>
    BY <1>1 DEF StartRaises, SettleRaises, FailRaises, rows
  <2>2. faults' = 0 => faults = 0 /\ Refused(r)
    BY <1>1 DEF StartRaises, SettleRaises, FailRaises, WriteRaises, Fault, RecordInv
  <2>3. CASE StartRaises(r)
    BY <2>1, <2>2, <2>3 DEF StartRaises, ClaimInv, AnswerInv, BeforeEnd, At, Goto
  <2>4. CASE SettleRaises(r)
    <3>1. faults' = 0 /\ "completed" \in kernel.turns => outcome[r] # "completed"
      BY <2>2, <2>4 DEF SettleRaises, Refused, Stored, SettledAs, ClaimInv, At
    <3> QED BY <2>1, <2>2, <2>4, <3>1
            DEF SettleRaises, ClaimInv, AnswerInv, BeforeEnd, Goto
  <2>5. CASE FailRaises(r)
    BY <2>1, <2>2, <2>5 DEF FailRaises, ClaimInv, AnswerInv, BeforeEnd, Goto
  <2> QED BY <1>1, <2>3, <2>4, <2>5
<1>2. CASE SweepBegins \/ MarkInterrupted \/ ListRunning \/ TimePasses
  BY <1>2 DEF SweepBegins, MarkInterrupted, ListRunning, TimePasses, WriteSession,
     AnswerInv, rows
<1>3. ASSUME NEW t \in Turns, MarkTurn(t) PROVE AnswerInv'
  BY <1>3 DEF MarkTurn, WriteTurn, RecordInv, AnswerInv
<1>4. CASE SweepRaises
  BY <1>4 DEF SweepRaises, Fault, RecordInv, AnswerInv, rows
<1>5. CASE Crash
  BY <1>5 DEF Crash, AnswerInv, BeforeEnd, rows
<1> QED BY <1>1, <1>2, <1>3, <1>4, <1>5 DEF Sweep

(* Every step keeps AnswerInv. *)
LEMMA NextAnswerInv == ClaimInv /\ RecordInv /\ AnswerInv /\ [Next]_vars => AnswerInv'
<1> SUFFICES ASSUME ClaimInv, RecordInv, AnswerInv, [Next]_vars PROVE AnswerInv'
  OBVIOUS
<1>1. CASE UNCHANGED vars
  BY <1>1 DEF vars, rows, AnswerInv
<1>2. CASE Next
  BY <1>2, QuietAnswerInv, WriteAnswerInv, OutsideAnswerInv
     DEF Next, Step, RefusedStep
<1> QED BY <1>1, <1>2

(* While no write to SQLite fails, the row of a turn whose executor has ended with
   a payload says completed until its request has left the claim, under every
   kernel that takes completed turns.                                       *)
THEOREM AnswerIsRecordedHolds == Spec => []AnswerIsRecorded
<1>1. AnswerInv => AnswerIsRecorded
  BY DEF AnswerInv, AnswerIsRecorded
<1> QED BY <1>1, InitClaimInv, NextClaimInv, InitRecordInv, NextRecordInv,
           InitAnswerInv, NextAnswerInv, PTL DEF Spec

-----------------------------------------------------------------------------
Running == {r \in Requests : pc[r] \in InTurn}

(* Inductive, with ClaimInv. *)
CountInv == leaked \in Nat /\ ActiveTurnsCounted

(* The requests that run are finitely many, and their number changes by one. *)
LEMMA RunningFacts ==
    /\ IsFiniteSet(Running) /\ Cardinality(Running) \in Nat
    /\ \A r \in Running : Cardinality(Running) > 0
                          /\ Cardinality(Running \ {r}) = Cardinality(Running) - 1
    /\ \A r : r \notin Running => Cardinality(Running \cup {r}) = Cardinality(Running) + 1
<1>1. IsFiniteSet(Running)
  BY SessionTurnsAssumptions, FS_Subset DEF Running
<1>2. Cardinality(Running) \in Nat
  BY <1>1, FS_CardinalityType
<1>3. ASSUME NEW r \in Running
      PROVE  Cardinality(Running) > 0 /\ Cardinality(Running \ {r}) = Cardinality(Running) - 1
  <2>1. Cardinality(Running) # 0
    BY <1>1, <1>3, FS_EmptySet
  <2>2. Cardinality(Running \ {r}) = Cardinality(Running) - 1
    BY <1>1, <1>3, FS_RemoveElement
  <2> QED BY <1>2, <2>1, <2>2
<1>4. ASSUME NEW r, r \notin Running
      PROVE  Cardinality(Running \cup {r}) = Cardinality(Running) + 1
  BY <1>1, <1>4, FS_AddElement
<1> QED BY <1>1, <1>2, <1>3, <1>4

(* No turn is counted at the start. *)
LEMMA InitCountInv == Init => CountInv
<1> SUFFICES ASSUME Init PROVE CountInv
  OBVIOUS
<1>1. {r \in Requests : pc[r] \in InTurn} = {}
  BY DEF Init, InTurn
<1> QED BY <1>1, FS_EmptySet DEF Init, CountInv, ActiveTurnsCounted

(* A step that moves no request into or out of a turn, and does not count. *)
LEMMA SameCount ==
    ASSUME CountInv, Running' = Running, UNCHANGED <<activeTurns, leaked>>
    PROVE  CountInv'
BY DEF CountInv, ActiveTurnsCounted, Running

(* The turn is counted when it is activated, and uncounted by the finally clause. *)
LEMMA CountingSteps ==
    ASSUME ClaimInv, CountInv, NEW r \in Requests,
           Activate(r) \/ Cleanup(r) \/ StartRaises(r)
    PROVE  CountInv'
<1>1. activeTurns = Cardinality(Running) + leaked /\ leaked \in Nat
  BY DEF CountInv, ActiveTurnsCounted, Running
<1>2. SUFFICES /\ leaked' \in Nat
               /\ activeTurns' = Cardinality(Running') + leaked'
  BY DEF CountInv, ActiveTurnsCounted, Running
<1>3. CASE Activate(r)
  <2>1. r \notin Running /\ Running' = Running \cup {r}
    BY <1>3 DEF Activate, At, Goto, ClaimInv, Running, InTurn
  <2> QED BY <1>1, <1>3, <2>1, RunningFacts DEF Activate, history
<1>4. CASE Cleanup(r)
  <2>1. r \in Running /\ Running' = Running \ {r}
    BY <1>4 DEF Cleanup, At, Goto, ClaimInv, Running, InTurn
  <2> QED BY <1>1, <1>4, <2>1, RunningFacts DEF Cleanup, OneTurnFewer, history
<1>5. CASE StartRaises(r) /\ At(r, "activated")
  <2>1. r \in Running /\ Running' = Running \ {r}
    BY <1>5 DEF StartRaises, At, Goto, ClaimInv, Running, InTurn
  <2> QED BY <1>1, <1>5, <2>1, RunningFacts DEF StartRaises
<1>6. CASE StartRaises(r) /\ ~At(r, "activated")
  <2>1. Running' = Running
    BY <1>6 DEF StartRaises, At, Goto, ClaimInv, Running, InTurn
  <2> QED BY <1>1, <1>6, <2>1 DEF StartRaises
<1> QED BY <1>3, <1>4, <1>5, <1>6

(* The other steps of a request stay inside a turn, or outside. *)
LEMMA OtherStepsCount ==
    ASSUME ClaimInv, CountInv, NEW r \in Requests,
           \/ CheckReplay(r) \/ EnsureReady(r) \/ EnterClaim(r) \/ RecheckReplay(r)
           \/ StartTurn(r) \/ ExecutorEnds(r) \/ ExecutorRaises(r) \/ ConsumerGone(r)
           \/ RecordTurn(r) \/ SettleSession(r) \/ SettleRaises(r) \/ FailTurn(r)
           \/ FailSession(r) \/ FailRaises(r) \/ LeaveClaim(r)
    PROVE  CountInv'
<1>1. \/ \E here, there \in InTurn : pc[r] = here /\ Goto(r, there)
      \/ \E here, there \in {"new", "checked", "queued", "claimed", "rechecked", "leaving",
                             "done"} : pc[r] = here /\ Goto(r, there)
  BY DEF CheckReplay, EnsureReady, EnterClaim, RecheckReplay, StartTurn, ExecutorEnds,
     ExecutorRaises, ConsumerGone, RecordTurn, SettleSession, SettleRaises, FailTurn,
     FailSession, FailRaises, LeaveClaim, At, InTurn
<1>2. Running' = Running
  BY <1>1 DEF Goto, ClaimInv, Running, InTurn
<1>3. UNCHANGED <<activeTurns, leaked>>
  BY DEF CheckReplay, EnsureReady, EnterClaim, RecheckReplay, StartTurn, ExecutorEnds,
     ExecutorRaises, ConsumerGone, RecordTurn, SettleSession, SettleRaises, FailTurn,
     FailSession, FailRaises, LeaveClaim, history
<1> QED BY <1>2, <1>3, SameCount

(* Every step keeps the count; a crash forgets the turns and the count together. *)
LEMMA NextCountInv == ClaimInv /\ CountInv /\ [Next]_vars => CountInv'
<1> SUFFICES ASSUME ClaimInv, CountInv, [Next]_vars PROVE CountInv'
  OBVIOUS
<1>1. CASE Crash
  <2>1. Running' = {}
    BY <1>1 DEF Crash, Running, InTurn
  <2> QED BY <1>1, <2>1, FS_EmptySet DEF Crash, CountInv, ActiveTurnsCounted, Running
<1>2. CASE Sweep \/ SweepRaises \/ TimePasses \/ UNCHANGED vars
  BY <1>2, SameCount DEF Sweep, SweepBegins, MarkInterrupted, ListRunning, MarkTurn,
     SweepRaises, TimePasses, vars, history, Running
<1> QED BY <1>1, <1>2, CountingSteps, OtherStepsCount
        DEF Next, Step, RefusedStep

(* _active_turns is the number of turns under way, and of those whose "running"
   write raised outside the try: every other way out of a turn uncounts it.  *)
THEOREM ActiveTurnsCountedHolds == Spec => []ActiveTurnsCounted
<1>1. CountInv => ActiveTurnsCounted
  BY DEF CountInv
<1> QED BY <1>1, InitClaimInv, NextClaimInv, InitCountInv, NextCountInv, PTL DEF Spec
-----------------------------------------------------------------------------
UnderWay == {"executing", "recording", "settling", "failing", "failed"}

(* Inductive, with ClaimInv: what the kernel has accepted of a request under way;
   the sweep writes only turns that are on record.                          *)
AdmitInv ==
    /\ ran \in [Turns -> Nat]
    /\ toMark \subseteq Turns /\ (sweep # "marking" => toMark = {})
    /\ \A t \in toMark : turn[t] # "absent"
    /\ \A r \in Requests : pc[r] \in UnderWay \cup {"activated"} =>
                              "active" \in kernel.sessions
    /\ \A r \in Requests : pc[r] \in UnderWay => "running" \in kernel.turns
    /\ ExecutorsAreAdmitted

(* Nothing is on record at the start. *)
LEMMA InitAdmitInv == Init => AdmitInv
BY DEF Init, AdmitInv, ExecutorsAreAdmitted, UnderWay

(* The steps of a request that write no turn. *)
LEMMA QuietAdmitInv ==
    ASSUME ClaimInv, AdmitInv, NEW r \in Requests,
           \/ CheckReplay(r) \/ EnsureReady(r) \/ EnterClaim(r) \/ RecheckReplay(r)
           \/ Activate(r) \/ ExecutorEnds(r) \/ ExecutorRaises(r) \/ ConsumerGone(r)
           \/ SettleSession(r) \/ FailSession(r) \/ Cleanup(r) \/ LeaveClaim(r)
           \/ StartRaises(r) \/ SettleRaises(r) \/ FailRaises(r)
    PROVE  AdmitInv'
<1>1. UNCHANGED <<kernel, turn, ran, sweep, toMark>>
  BY DEF CheckReplay, EnsureReady, EnterClaim, RecheckReplay, Activate, ExecutorEnds,
     ExecutorRaises, ConsumerGone, SettleSession, FailSession, Cleanup, LeaveClaim,
     StartRaises, SettleRaises, FailRaises, WriteSession, rows, sweeper, history
<1>2. ASSUME NEW q \in Requests
      PROVE  /\ pc'[q] \in UnderWay => pc[q] \in UnderWay
             /\ pc'[q] = "activated" => pc[q] = "activated" \/ "active" \in kernel.sessions
  BY DEF CheckReplay, EnsureReady, EnterClaim, RecheckReplay, Activate, ExecutorEnds,
     ExecutorRaises, ConsumerGone, SettleSession, FailSession, Cleanup, LeaveClaim,
     StartRaises, SettleRaises, FailRaises, WriteSession, ClaimInv, UnderWay, At, Goto
<1> QED BY <1>1, <1>2 DEF AdmitInv, ExecutorsAreAdmitted

(* A turn is written under way, or as the step that gets there. *)
LEMMA WriteAdmitInv ==
    ASSUME ClaimInv, AdmitInv, NEW r \in Requests,
           StartTurn(r) \/ RecordTurn(r) \/ FailTurn(r)
    PROVE  AdmitInv'
<1> USE SessionTurnsAssumptions
<1>1. /\ {"ready", "active"} \subseteq kernel.sessions /\ "running" \in kernel.turns
      /\ UNCHANGED <<kernel, sweep, toMark>>
  BY DEF StartTurn, RecordTurn, FailTurn, WriteTurn, Stored, ClaimInv, AdmitInv, UnderWay,
     At, sweeper
<1>2. ran' \in [Turns -> Nat]
  BY DEF StartTurn, RecordTurn, FailTurn, AdmitInv, history
<1>3. ASSUME NEW t \in Turns, turn[t] # "absent" PROVE turn'[t] # "absent"
  BY <1>3 DEF StartTurn, RecordTurn, FailTurn, WriteTurn, ClaimInv, At
<1> QED BY <1>1, <1>2, <1>3 DEF AdmitInv, ExecutorsAreAdmitted

(* The startup sweep, time and a crash. *)
LEMMA OutsideAdmitInv ==
    ASSUME ClaimInv, AdmitInv, Sweep \/ SweepRaises \/ TimePasses \/ Crash
    PROVE  AdmitInv'
<1>1. CASE SweepBegins \/ SweepRaises
  BY <1>1 DEF SweepBegins, SweepRaises, AdmitInv, ExecutorsAreAdmitted, rows, history
<1>2. CASE MarkInterrupted \/ TimePasses
  BY <1>2 DEF MarkInterrupted, TimePasses, WriteSession, AdmitInv, ExecutorsAreAdmitted,
     sweeper, history
<1>3. CASE ListRunning
  BY <1>3 DEF ListRunning, Listed, AdmitInv, ExecutorsAreAdmitted, rows, history
<1>4. ASSUME NEW t \in Turns, MarkTurn(t) PROVE AdmitInv'
  BY <1>4 DEF MarkTurn, WriteTurn, ClaimInv, AdmitInv, ExecutorsAreAdmitted, history
<1>5. CASE Crash
  BY <1>5 DEF Crash, AdmitInv, ExecutorsAreAdmitted, UnderWay, rows
<1> QED BY <1>1, <1>2, <1>3, <1>4, <1>5 DEF Sweep

(* The kernel is asked before each write, so whatever its lists are, no executor is
   started and no turn recorded that it has not admitted.                   *)
THEOREM ExecutorsAreAdmittedHolds == Spec => []ExecutorsAreAdmitted
<1>1. ClaimInv /\ AdmitInv /\ [Next]_vars => AdmitInv'
  <2> SUFFICES ASSUME ClaimInv, AdmitInv, [Next]_vars PROVE AdmitInv'
    OBVIOUS
  <2>1. CASE UNCHANGED vars
    BY <2>1 DEF vars, rows, sweeper, history, AdmitInv, ExecutorsAreAdmitted
  <2>2. CASE Next
    BY <2>2, QuietAdmitInv, WriteAdmitInv, OutsideAdmitInv DEF Next, Step, RefusedStep
  <2> QED BY <2>1, <2>2
<1>2. AdmitInv => ExecutorsAreAdmitted
  BY DEF AdmitInv
<1> QED BY <1>1, <1>2, InitAdmitInv, InitClaimInv, NextClaimInv, PTL DEF Spec
-----------------------------------------------------------------------------
(* The types at the start. *)
LEMMA InitTypeOK == Init => TypeOK
<1> SUFFICES ASSUME Init PROVE TypeOK
  OBVIOUS
<1>1. recent \in BOOLEAN
  BY DEF Init
<1> QED BY <1>1, SessionTurnsAssumptions DEF Init, TypeOK, Claim!Init

(* A raising write changes the count of faults, within its bound, or nothing. *)
LEMMA RaiseTypeOK ==
    ASSUME TypeOK, NEW r \in Requests,
           StartRaises(r) \/ SettleRaises(r) \/ FailRaises(r)
    PROVE  TypeOK'
<1>1. faults' \in 0..MaxFaults
  BY SessionTurnsAssumptions
  DEF StartRaises, SettleRaises, FailRaises, WriteRaises, Fault, TypeOK
<1>2. UNCHANGED <<kernel, outcome, inside, rows, sweeper, activeTurns, crashes, ran, everDone>>
  BY DEF StartRaises, SettleRaises, FailRaises, history
<1>3. leaked' \in Nat
  BY DEF StartRaises, SettleRaises, FailRaises, TypeOK, history
<1> QED BY <1>1, <1>2, <1>3
        DEF StartRaises, SettleRaises, FailRaises, TypeOK, Goto, rows, sweeper

(* The steps of a request write statuses; a recorded outcome is one. *)
LEMMA StepTypeOK ==
    ASSUME ClaimInv, TypeOK, NEW r \in Requests,
           CheckReplay(r) \/ Step(r) \/ ExecutorRaises(r) \/ ConsumerGone(r)
    PROVE  TypeOK'
<1> USE SessionTurnsAssumptions
<1>1. CASE CheckReplay(r) \/ RecheckReplay(r) \/ ExecutorRaises(r) \/ ConsumerGone(r)
  BY <1>1 DEF CheckReplay, RecheckReplay, ExecutorRaises, ConsumerGone, TypeOK, At, Goto,
     rows, sweeper, history
<1>2. CASE EnsureReady(r) \/ Activate(r) \/ SettleSession(r) \/ FailSession(r)
  <2>1. recent' \in BOOLEAN
    BY <1>2 DEF EnsureReady, Activate, SettleSession, FailSession, WriteSession
  <2>2. CASE EnsureReady(r) \/ FailSession(r)
    BY <2>1, <2>2 DEF EnsureReady, FailSession, WriteSession, TypeOK, At, Goto, sweeper,
       history
  <2>3. CASE Activate(r)
    BY <2>1, <2>3 DEF Activate, WriteSession, TypeOK, At, Goto, sweeper, history
  <2>4. CASE SettleSession(r)
    BY <2>1, <2>4 DEF SettleSession, SettledAs, WriteSession, TypeOK, At, Goto, sweeper, history
  <2> QED BY <1>2, <2>2, <2>3, <2>4
<1>3. CASE StartTurn(r) \/ RecordTurn(r) \/ FailTurn(r)
  BY <1>3 DEF StartTurn, RecordTurn, FailTurn, WriteTurn, ClaimInv, TypeOK, At, Goto,
     sweeper, history
<1>4. CASE ExecutorEnds(r)
  BY <1>4 DEF ExecutorEnds, TypeOK, At, Goto, rows, sweeper, history
<1>5. CASE Cleanup(r)
  BY <1>5 DEF Cleanup, OneTurnFewer, TypeOK, At, Goto, rows, sweeper, history
<1>6. CASE EnterClaim(r) \/ LeaveClaim(r)
  BY <1>6 DEF EnterClaim, LeaveClaim, Claim!Enter, Claim!Exit, TypeOK, At, Goto, rows,
     sweeper, history
<1> QED BY <1>1, <1>2, <1>3, <1>4, <1>5, <1>6, RaiseTypeOK DEF Step, RefusedStep

(* Failing writes stay within their bound; a crash resets what it forgets. *)
LEMMA OutsideTypeOK ==
    ASSUME ClaimInv, TypeOK,
           \/ \E r \in Requests : StartRaises(r) \/ SettleRaises(r) \/ FailRaises(r)
           \/ Sweep \/ SweepRaises \/ TimePasses \/ Crash
    PROVE  TypeOK'
<1> USE SessionTurnsAssumptions
<1>1. ASSUME NEW r \in Requests, StartRaises(r) \/ SettleRaises(r) \/ FailRaises(r)
      PROVE  TypeOK'
  BY <1>1, RaiseTypeOK
<1>2. CASE SweepBegins \/ ListRunning \/ SweepRaises
  BY <1>2 DEF SweepBegins, ListRunning, Listed, SweepRaises, Fault, TypeOK, rows, history
<1>3. CASE MarkInterrupted
  BY <1>3 DEF MarkInterrupted, WriteSession, TypeOK, history
<1>4. ASSUME NEW t \in Turns, MarkTurn(t) PROVE TypeOK'
  BY <1>4 DEF MarkTurn, WriteTurn, TypeOK, history
<1>5. CASE TimePasses
  BY <1>5 DEF TimePasses, TypeOK, sweeper, history
<1>6. CASE Crash
  BY <1>6 DEF Crash, TypeOK, rows
<1> QED BY <1>1, <1>2, <1>3, <1>4, <1>5, <1>6 DEF Sweep

(* Every field of the session, its turns and its requests keeps its type, and no
   row carries a status the kernel refuses.                                 *)
THEOREM TypeCorrect == Spec => []TypeOK
<1>1. ClaimInv /\ TypeOK /\ [Next]_vars => TypeOK'
  <2> SUFFICES ASSUME ClaimInv, TypeOK, [Next]_vars PROVE TypeOK'
    OBVIOUS
  <2>1. CASE UNCHANGED vars
    BY <2>1 DEF vars, rows, sweeper, history, TypeOK
  <2>2. CASE Next
    BY <2>2, StepTypeOK, OutsideTypeOK DEF Next
  <2> QED BY <2>1, <2>2
<1> QED BY <1>1, InitTypeOK, InitClaimInv, NextClaimInv, PTL DEF Spec
=============================================================================
