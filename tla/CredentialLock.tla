--------------------------- MODULE CredentialLock ---------------------------
(***************************************************************************)
(* The machine-local lock file of a bot credential                         *)
(* (server_modules/gateway_credential_lock.py), for one scope and identity.*)
(*                                                                         *)
(* A process is a pid together with its start time; a pid may be given to a*)
(* new process after a crash.  Every file system call is one step, because *)
(* any number of processes run acquire_scoped_lock at once (all workers of *)
(* a host start together), and every call may fail: the code swallows the  *)
(* OSError of a read and of an unlink and goes on.  The file is known by   *)
(* the process that created it and by whether its record has been written: *)
(* what a process writes after its file was unlinked reaches nobody.       *)
(*                                                                         *)
(* A start time is read from /proc or, when that fails, from psutil, which *)
(* counts in another unit, or is None: a reading is the clock it was taken *)
(* with, and the start time if there is one.                               *)
(***************************************************************************)
EXTENDS Naturals

CONSTANTS Pids,        \* process ids
          Clocks,      \* the clocks _process_start_time reads: /proc, psutil
          NoClock,     \* it returned None
          NoFile,      \* the lock path does not exist
          MaxStarts    \* bound: processes that get a pid, one after another

ASSUME CredentialLockAssumptions ==
    /\ MaxStarts \in Nat \ {0}
    /\ NoClock \notin Clocks
    /\ NoFile \notin Pids
    /\ NoFile \notin [pid : Pids, start : 1..MaxStarts, clock : Clocks \cup {NoClock},
                      written : BOOLEAN]

VARIABLES
    started,   \* started[p]: start time of the process with pid p
    alive,     \* alive[p]: that process is running
    pc,        \* where it is in acquire or release
    own,       \* own[p]: the clock of its own record's start_time
    seen,      \* the record its last _read_json_file returned
    file,      \* NoFile, or [pid, start, clock, written]
    faults     \* history: what has gone wrong so far (see Faults)

vars == <<started, alive, pc, own, seen, file, faults>>

(* overlap:  two lock operations were under way at once;
   misread:  the record of a live process was taken for stale, because it could
             not be read or its start time was read with another clock;
   blind:    a live pid was taken for the owner without comparing start times;
   leftover: a file that should have gone stayed (its unlink, or the read of a
             release, failed).                                              *)
Faults == {"overlap", "misread", "blind", "leftover"}

NoRecord == [pid |-> NoFile, start |-> 0, clock |-> NoClock]

Init ==
    /\ started = [p \in Pids |-> 1]
    /\ alive = [p \in Pids |-> TRUE]
    /\ pc = [p \in Pids |-> "idle"]
    /\ own = [p \in Pids |-> NoClock]
    /\ seen = [p \in Pids |-> NoRecord]
    /\ file = NoFile
    /\ faults = {}

-----------------------------------------------------------------------------
Attempting == {"reading", "deciding", "unlinking", "creating", "writing"}

At(p, here) == alive[p] /\ pc[p] = here
Goto(p, there) == pc' = [pc EXCEPT ![p] = there]

(* The operation is over, and its local variables are gone. *)
Leave(p, there) ==
    /\ Goto(p, there)
    /\ own' = [own EXCEPT ![p] = NoClock]
    /\ seen' = [seen EXCEPT ![p] = NoRecord]

Note(kind, happens) == faults' = IF happens THEN faults \cup {kind} ELSE faults

NoteOverlap ==
    Note("overlap", \E q \in Pids : alive[q] /\ pc[q] \in Attempting \cup {"releasing"})

(* start_time as the record shows it: null when it could not be read. *)
Stamp(start, clock) == IF clock = NoClock THEN 0 ELSE start

(* Mutant: whatever the file holds is returned, unparsed. *)
ReadRecordRaw == IF file = NoFile THEN NoRecord ELSE file

(* _read_json_file: None when the path is missing, or empty, or not JSON. *)
ReadRecord == IF file = NoFile THEN NoRecord
              ELSE IF file.written
                THEN [pid |-> file.pid, start |-> Stamp(file.start, file.clock),
                      clock |-> file.clock]
              ELSE NoRecord

(* The path names a file that process p created, and its record is there. *)
Names(p) == file # NoFile /\ file.pid = p /\ file.start = started[p] /\ file.written

(* acquire_scoped_lock builds its own record, whose start time may be None. *)
Begin(p) ==
    /\ alive[p] /\ pc[p] \in {"idle", "refused", "failed", "holding"}
    /\ \E c \in Clocks \cup {NoClock} : own' = [own EXCEPT ![p] = c]
    /\ NoteOverlap
    /\ Goto(p, "reading")
    /\ UNCHANGED <<started, alive, seen, file>>

Read(p) ==
    /\ At(p, "reading")
    /\ seen' = [seen EXCEPT ![p] = ReadRecord]
    /\ Goto(p, "deciding")
    /\ UNCHANGED <<started, alive, own, file, faults>>

(* read_text raises OSError: the record of the file counts as none. *)
ReadFails(p) ==
    /\ At(p, "reading") /\ file # NoFile
    /\ seen' = [seen EXCEPT ![p] = NoRecord]
    /\ Note("misread", file.written)
    /\ Goto(p, "deciding")
    /\ UNCHANGED <<started, alive, own, file>>

(* Mutant: a live pid is the owner, whatever its start time. *)
PidIsLive(r, now) == alive[r.pid]

(* _existing_is_live, when the start time of the pid is read with clock now: the
   pid runs, and its start time is the recorded one or one of the two is None. *)
ExistingIsLive(r, now) ==
    /\ alive[r.pid]
    /\ NoClock \in {r.clock, now} \/ <<r.clock, r.start>> = <<now, started[r.pid]>>

(* existing is None: a path that exists now is an unfinished file. *)
DecideNoRecord(p) ==
    /\ At(p, "deciding")
    /\ seen[p] = NoRecord
    /\ Goto(p, IF file = NoFile THEN "creating" ELSE "unlinking")
    /\ UNCHANGED <<started, alive, own, seen, file, faults>>

Mine(p, r) == r.pid = p /\ r.clock = own[p] /\ r.start = Stamp(started[p], own[p])

(* Re-entrant: the record is refreshed by _atomic_write (os.replace). *)
DecideMine(p) ==
    /\ At(p, "deciding")
    /\ Mine(p, seen[p])
    /\ file' = [pid |-> p, start |-> started[p], clock |-> own[p], written |-> TRUE]
    /\ Leave(p, "holding")
    /\ UNCHANGED <<started, alive, faults>>

(* The refresh raises: the old record stays and the caller gets an error. *)
DecideMineRaises(p) ==
    /\ At(p, "deciding")
    /\ Mine(p, seen[p])
    /\ Leave(p, "failed")
    /\ UNCHANGED <<started, alive, file, faults>>

(* The start times of the process that has the recorded pid do not compare. *)
Incomparable(p, r, now) ==
    /\ alive[r.pid]
    /\ r.clock = NoClock \/ now # r.clock \/ (r.pid = p /\ own[p] # r.clock)

(* Mutant: every record of another process counts as stale. *)
DecideOtherSteals(p) ==
    /\ At(p, "deciding")
    /\ seen[p] # NoRecord /\ ~Mine(p, seen[p])
    /\ Goto(p, "unlinking")
    /\ UNCHANGED <<started, alive, own, seen, file, faults>>

(* Another record: a live owner keeps the lock, a stale one loses it. *)
DecideOther(p) ==
    /\ At(p, "deciding")
    /\ seen[p] # NoRecord /\ ~Mine(p, seen[p])
    /\ \E now \in Clocks \cup {NoClock} :
         \/ /\ ExistingIsLive(seen[p], now)
            /\ Leave(p, "refused")
            /\ Note("blind", Incomparable(p, seen[p], now))
         \/ /\ ~ExistingIsLive(seen[p], now)
            /\ Goto(p, "unlinking")
            /\ Note("misread", Incomparable(p, seen[p], now))
            /\ UNCHANGED <<own, seen>>
    /\ UNCHANGED <<started, alive, file>>

(* lock_path.unlink(missing_ok=True): whatever file is there by now. *)
Unlink(p) ==
    /\ At(p, "unlinking")
    /\ file' = NoFile
    /\ Goto(p, "creating")
    /\ UNCHANGED <<started, alive, own, seen, faults>>

(* except OSError: pass *)
UnlinkFails(p) ==
    /\ At(p, "unlinking") /\ file # NoFile
    /\ Note("leftover", TRUE)
    /\ Goto(p, "creating")
    /\ UNCHANGED <<started, alive, own, seen, file>>

(* os.open(O_CREAT | O_EXCL) *)
Create(p) ==
    /\ At(p, "creating")
    /\ \/ /\ file = NoFile
          /\ file' = [pid |-> p, start |-> started[p], clock |-> own[p], written |-> FALSE]
          /\ Goto(p, "writing")
          /\ UNCHANGED <<own, seen>>
       \/ /\ file # NoFile
          /\ Leave(p, "refused")
          /\ UNCHANGED file
    /\ UNCHANGED <<started, alive, faults>>

(* mkdir or os.open raises something else: the caller gets an error. *)
AcquireRaises(p) ==
    /\ At(p, "reading") \/ At(p, "creating")
    /\ Leave(p, "failed")
    /\ UNCHANGED <<started, alive, file, faults>>

(* The path still names the file this process created. *)
CreatedBy(p) == file # NoFile /\ file.pid = p /\ file.start = started[p]

(* json.dump into the descriptor, then return True. *)
Write(p) ==
    /\ At(p, "writing")
    /\ file' = IF CreatedBy(p) THEN [file EXCEPT !.written = TRUE] ELSE file
    /\ Leave(p, "holding")
    /\ UNCHANGED <<started, alive, faults>>

(* The dump raises: unlink the path, if that works, and raise. *)
WriteRaises(p) ==
    /\ At(p, "writing")
    /\ file' \in {NoFile, file}
    /\ Leave(p, "failed")
    /\ UNCHANGED <<started, alive, faults>>

(* release_scoped_lock reads the record ... *)
ReleaseRead(p) ==
    /\ alive[p] /\ pc[p] \in {"holding", "failed"}
    /\ seen' = [seen EXCEPT ![p] = ReadRecord]
    /\ NoteOverlap
    /\ Goto(p, "releasing")
    /\ UNCHANGED <<started, alive, own, file>>

(* ... or gives up, because the read raised OSError ... *)
ReleaseReadFails(p) ==
    /\ alive[p] /\ pc[p] \in {"holding", "failed"} /\ file # NoFile
    /\ Note("leftover", TRUE)
    /\ Leave(p, "idle")
    /\ UNCHANGED <<started, alive, file>>

(* ... and unlinks the path if the record names its pid ... *)
ReleaseUnlink(p) ==
    /\ At(p, "releasing")
    /\ file' = IF seen[p].pid = p THEN NoFile ELSE file
    /\ Leave(p, "idle")
    /\ UNCHANGED <<started, alive, faults>>

(* ... or tries to: except OSError: pass. *)
ReleaseUnlinkFails(p) ==
    /\ At(p, "releasing")
    /\ seen[p].pid = p /\ file # NoFile
    /\ Note("leftover", TRUE)
    /\ Leave(p, "idle")
    /\ UNCHANGED <<started, alive, file>>

Crash(p) ==
    /\ alive[p]
    /\ alive' = [alive EXCEPT ![p] = FALSE]
    /\ Leave(p, "idle")
    /\ UNCHANGED <<started, file, faults>>

(* The pid is given to a new process, which may or may not use the lock. *)
Spawn(p) ==
    /\ ~alive[p] /\ started[p] < MaxStarts
    /\ started' = [started EXCEPT ![p] = @ + 1]
    /\ alive' = [alive EXCEPT ![p] = TRUE]
    /\ UNCHANGED <<pc, own, seen, file, faults>>

Step(p) ==
    \/ Read(p) \/ ReadFails(p)
    \/ DecideNoRecord(p) \/ DecideMine(p) \/ DecideMineRaises(p) \/ DecideOther(p)
    \/ Unlink(p) \/ UnlinkFails(p) \/ Create(p) \/ AcquireRaises(p)
    \/ Write(p) \/ WriteRaises(p)
    \/ ReleaseUnlink(p) \/ ReleaseUnlinkFails(p)

Next == \E p \in Pids : Step(p) \/ Begin(p) \/ ReleaseRead(p) \/ ReleaseReadFails(p)
                          \/ Crash(p) \/ Spawn(p)

Spec == Init /\ [][Next]_vars

-----------------------------------------------------------------------------
(* The type invariant: what each field of the code may hold. *)
TypeOK ==
    /\ started \in [Pids -> 1..MaxStarts]
    /\ alive \in [Pids -> BOOLEAN]
    /\ pc \in [Pids -> {"idle", "holding", "failed", "refused", "releasing"}
                         \cup Attempting]
    /\ own \in [Pids -> Clocks \cup {NoClock}]
    /\ seen \in [Pids -> [pid : Pids, start : 0..MaxStarts, clock : Clocks \cup {NoClock}]
                           \cup {NoRecord}]
    /\ file \in [pid : Pids, start : 1..MaxStarts, clock : Clocks \cup {NoClock},
                  written : BOOLEAN] \cup {NoFile}
    /\ faults \in SUBSET Faults

Holders == {p \in Pids : At(p, "holding")}

(* The module's guarantee, "a single external bot credential ... is consumed
   by at most one gateway process on a given host": no two live processes have
   been told that they hold the lock and have not begun to release it.     *)
AtMostOneHolder == \A p, q \in Holders : p = q

(* The guarantee as far as acquire_scoped_lock keeps it: as long as no acquire or
   release began while another was under way, and no attempt failed to read the
   record or the start time of a live owner, there is one holder at most, through
   crashes at any point, half-written files, reused pids, start times that are
   not available and unlinks that fail.                                     *)
OneHolderIfApart == faults \cap {"overlap", "misread"} = {} => AtMostOneHolder

(* And nobody is turned away from a free credential: as long as no operations
   overlap, every unlink works and start times can be compared, acquire returns
   False only when the path names another live process that has the lock or that
   was given an error instead.  A dead owner, a half-written file, a reused pid and a
   record that could not be read never block.                               *)
RefusedOnlyIfHeld ==
    [][\A p \in Pids :
          pc[p] # "refused" /\ pc'[p] = "refused"
            /\ faults' \cap {"overlap", "blind", "leftover"} = {} =>
              \E q \in Pids \ {p} :
                  Names(q) /\ alive[q] /\ pc[q] \in {"holding", "failed"}]_vars
=============================================================================
