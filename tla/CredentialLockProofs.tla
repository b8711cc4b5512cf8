------------------------ MODULE CredentialLockProofs ------------------------
(***************************************************************************)
(* Proofs about CredentialLock, for any set of pids and any number of       *)
(* processes that share a pid, one after another.                          *)
(***************************************************************************)
EXTENDS CredentialLock, TLAPS

Busy == Attempting \cup {"releasing"}
Active(p) == alive[p] /\ pc[p] \in Busy

(* A record is not older than the process that has its pid now. *)
RecordInv == file # NoFile => file.start <= started[file.pid]

(* A dead process is in no operation. *)
Resting == \A p \in Pids : ~alive[p] => pc[p] = "idle"

(* Lock operations do not overlap. *)
Alone == \A p, q \in Pids : Active(p) /\ Active(q) => p = q

(* What an operation has read is still in the file, unless it was misread. *)
Current ==
    \A p \in Pids :
        /\ pc[p] \in {"deciding", "releasing"} => seen[p] \in {ReadRecord, NoRecord}
        /\ pc[p] = "releasing" \/ (pc[p] = "deciding" /\ "misread" \notin faults)
             => seen[p] = ReadRecord

(* The file of a process that is about to write its record is there. *)
Writing == \A p \in Pids : pc[p] = "writing" => CreatedBy(p) /\ ~file.written

(* The file of a holder is there, with its record. *)
Recorded == \A p \in Pids : pc[p] = "holding" => Names(p)

(* Who is about to replace the file takes it from nobody. *)
Clear ==
    \A p, q \in Pids : pc[p] \in {"unlinking", "creating", "writing"} => pc[q] # "holding"

(* Who is about to create the file has made way for it. *)
Gone == \A p \in Pids : pc[p] = "creating" => file = NoFile

(* The record of a live process is that of a holder, of one that was given an
   error, or of one that is about to find that it is the holder.            *)
Owned ==
    \A p \in Pids : alive[p] /\ Names(p) =>
        pc[p] \in {"holding", "releasing", "failed", "reading", "deciding", "unlinking"}

Apart ==
    /\ Alone /\ Current /\ Writing
    /\ "misread" \notin faults => Recorded /\ Clear
    /\ faults \cap {"blind", "leftover"} = {} => Gone /\ Owned

IInv == TypeOK /\ RecordInv /\ Resting /\ ("overlap" \notin faults => Apart)

(* No file, nobody inside: the parts of the invariant hold at the start. *)
LEMMA InitIInv == Init => IInv
  <1> SUFFICES ASSUME Init PROVE IInv OBVIOUS
  <1>1. TypeOK
    <2>1. started \in [Pids -> 1..MaxStarts]
      BY CredentialLockAssumptions DEF Init
    <2> QED BY <2>1, Zenon DEF Init, TypeOK
  <1>2. RecordInv /\ Resting
    BY DEF Init, RecordInv, Resting
  <1>3. Apart
    BY DEF Init, Apart, Alone, Current, Writing, Recorded, Clear, Gone, Owned, Active,
       Busy,
       Attempting, Names
  <1> QED BY <1>1, <1>2, <1>3 DEF IInv

(* The record a process writes is a file. *)
LEMMA RecordIsFile ==
    ASSUME TypeOK, NEW p \in Pids, NEW w \in BOOLEAN
    PROVE  LET r == [pid |-> p, start |-> started[p], clock |-> own[p], written |-> w] IN
           /\ r \in [pid : Pids, start : 1..MaxStarts, clock : Clocks \cup {NoClock},
                     written : BOOLEAN]
           /\ r # NoFile
  <1>1. started[p] \in 1..MaxStarts /\ own[p] \in Clocks \cup {NoClock}
    BY DEF TypeOK
  <1>2. [pid |-> p, start |-> started[p], clock |-> own[p], written |-> w]
          \in [pid : Pids, start : 1..MaxStarts, clock : Clocks \cup {NoClock}, written : BOOLEAN]
    BY <1>1, Zenon
  <1> QED BY <1>2, CredentialLockAssumptions, Zenon

(* An attempt begins: it is alone, or the overlap is recorded. *)
LEMMA BeginStep ==
    ASSUME IInv, NEW p \in Pids, Begin(p)
    PROVE  IInv'
  <1>1. TypeOK'
    BY CredentialLockAssumptions DEF IInv, TypeOK, Begin, At, Goto, Note, NoteOverlap,
       Faults, ReadRecord, Stamp, Attempting, CreatedBy
  <1>2. RecordInv'
    BY DEF IInv, TypeOK, RecordInv, Begin, At, Goto, Note, NoteOverlap, CreatedBy
  <1>r. Resting'
    BY DEF IInv, TypeOK, Resting, Begin, At, Goto, Note, NoteOverlap
  <1>3. SUFFICES ASSUME "overlap" \notin faults' PROVE Apart'
    BY <1>1, <1>2, <1>r DEF IInv
  <1>4. "overlap" \notin faults
    BY <1>3 DEF Begin, At, Goto, Note, NoteOverlap
  <1>5. Alone'
    BY <1>3, <1>4 DEF IInv, TypeOK, Resting, Apart, Alone, Active, Busy, Attempting,
       Begin, At, Goto, Note, NoteOverlap
  <1>6. Current'
    BY <1>4 DEF IInv, TypeOK, Resting, Apart, Alone, Active, Busy, Attempting, Current,
       Begin, At, Goto, Note, NoteOverlap, ReadRecord, Stamp
  <1>7. Writing'
    BY <1>4 DEF IInv, TypeOK, Resting, Apart, Alone, Active, Busy, Attempting, Writing,
       Begin, At, Goto, Note, NoteOverlap, CreatedBy
  <1>8. ASSUME "misread" \notin faults' PROVE Recorded' /\ Clear'
    <2>1. "misread" \notin faults
      BY <1>8 DEF Begin, At, Goto, Note, NoteOverlap
    <2>2. Recorded'
      BY <1>4, <1>8, <2>1 DEF IInv, TypeOK, Resting, Apart, Alone, Active, Busy,
         Attempting, Current, Writing, Recorded, Clear, Names, Begin, At, Goto, Note,
         NoteOverlap, CreatedBy, ReadRecord, Stamp, Mine, ExistingIsLive, Incomparable,
         NoRecord
    <2>3. Clear'
      BY <1>4, <1>8, <2>1 DEF IInv, TypeOK, Resting, Apart, Alone, Active, Busy,
         Attempting, Current, Writing, Recorded, Clear, Names, Begin, At, Goto, Note,
         NoteOverlap, CreatedBy, ReadRecord, Stamp, Mine, ExistingIsLive, Incomparable,
         NoRecord
    <2> QED BY <2>2, <2>3
  <1>9. ASSUME faults' \cap {"blind", "leftover"} = {} PROVE Gone' /\ Owned'
    <2>1. faults \cap {"blind", "leftover"} = {}
      BY <1>9 DEF Begin, At, Goto, Note, NoteOverlap
    <2>2. Gone'
      BY <1>4, <1>9, <2>1 DEF IInv, TypeOK, Resting, Apart, Alone, Active, Busy,
         Attempting, Gone, Begin, At, Goto, Note, NoteOverlap
    <2>3. Owned'
      BY <1>4, <1>9, <2>1 DEF IInv, TypeOK, Resting, RecordInv, Apart, Alone, Active,
         Busy, Attempting, Current, Writing, Gone, Owned, Names, Begin, At, Goto, Note,
         NoteOverlap, CreatedBy, ReadRecord, Stamp, Mine, ExistingIsLive, Incomparable,
         NoRecord
    <2> QED BY <2>2, <2>3
  <1> QED BY <1>5, <1>6, <1>7, <1>8, <1>9 DEF Apart

(* What is read is what the file holds. *)
LEMMA ReadStep ==
    ASSUME IInv, NEW p \in Pids, Read(p)
    PROVE  IInv'
  <1>1. TypeOK'
    BY CredentialLockAssumptions DEF IInv, TypeOK, Read, At, Goto, Faults, ReadRecord,
       Stamp, Attempting, CreatedBy
  <1>2. RecordInv'
    BY DEF IInv, TypeOK, RecordInv, Read, At, Goto, CreatedBy
  <1>r. Resting'
    BY DEF IInv, TypeOK, Resting, Read, At, Goto
  <1>3. SUFFICES ASSUME "overlap" \notin faults' PROVE Apart'
    BY <1>1, <1>2, <1>r DEF IInv
  <1>4. "overlap" \notin faults
    BY <1>3 DEF Read, At, Goto
  <1>5. Alone'
    BY <1>3, <1>4 DEF IInv, TypeOK, Resting, Apart, Alone, Active, Busy, Attempting,
       Read, At, Goto
  <1>6. Current'
    BY <1>4 DEF IInv, TypeOK, Resting, Apart, Alone, Active, Busy, Attempting, Current,
       Read, At, Goto, ReadRecord, Stamp
  <1>7. Writing'
    BY <1>4 DEF IInv, TypeOK, Resting, Apart, Alone, Active, Busy, Attempting, Writing,
       Read, At, Goto, CreatedBy
  <1>8. ASSUME "misread" \notin faults' PROVE Recorded' /\ Clear'
    <2>1. "misread" \notin faults
      BY <1>8 DEF Read, At, Goto
    <2>2. Recorded'
      BY <1>4, <1>8, <2>1 DEF IInv, TypeOK, Resting, Apart, Alone, Active, Busy,
         Attempting, Current, Writing, Recorded, Clear, Names, Read, At, Goto,
         CreatedBy, ReadRecord, Stamp, Mine, ExistingIsLive, Incomparable, NoRecord
    <2>3. Clear'
      BY <1>4, <1>8, <2>1 DEF IInv, TypeOK, Resting, Apart, Alone, Active, Busy,
         Attempting, Current, Writing, Recorded, Clear, Names, Read, At, Goto,
         CreatedBy, ReadRecord, Stamp, Mine, ExistingIsLive, Incomparable, NoRecord
    <2> QED BY <2>2, <2>3
  <1>9. ASSUME faults' \cap {"blind", "leftover"} = {} PROVE Gone' /\ Owned'
    <2>1. faults \cap {"blind", "leftover"} = {}
      BY <1>9 DEF Read, At, Goto
    <2>2. Gone'
      BY <1>4, <1>9, <2>1 DEF IInv, TypeOK, Resting, Apart, Alone, Active, Busy,
         Attempting, Gone, Read, At, Goto
    <2>3. Owned'
      BY <1>4, <1>9, <2>1 DEF IInv, TypeOK, Resting, RecordInv, Apart, Alone, Active,
         Busy, Attempting, Current, Writing, Gone, Owned, Names, Read, At, Goto,
         CreatedBy, ReadRecord, Stamp, Mine, ExistingIsLive, Incomparable, NoRecord
    <2> QED BY <2>2, <2>3
  <1> QED BY <1>5, <1>6, <1>7, <1>8, <1>9 DEF Apart

(* A record that could not be read is a misreading, an unfinished file none. *)
LEMMA ReadFailsStep ==
    ASSUME IInv, NEW p \in Pids, ReadFails(p)
    PROVE  IInv'
  <1>1. TypeOK'
    BY CredentialLockAssumptions DEF IInv, TypeOK, ReadFails, At, Goto, Note, Faults,
       ReadRecord, Stamp, Attempting, CreatedBy
  <1>2. RecordInv'
    BY DEF IInv, TypeOK, RecordInv, ReadFails, At, Goto, Note, CreatedBy
  <1>r. Resting'
    BY DEF IInv, TypeOK, Resting, ReadFails, At, Goto, Note
  <1>3. SUFFICES ASSUME "overlap" \notin faults' PROVE Apart'
    BY <1>1, <1>2, <1>r DEF IInv
  <1>4. "overlap" \notin faults
    BY <1>3 DEF ReadFails, At, Goto, Note
  <1>5. Alone'
    BY <1>3, <1>4 DEF IInv, TypeOK, Resting, Apart, Alone, Active, Busy, Attempting,
       ReadFails, At, Goto, Note
  <1>6. Current'
    BY <1>4 DEF IInv, TypeOK, Resting, Apart, Alone, Active, Busy, Attempting, Current,
       ReadFails, At, Goto, Note, ReadRecord, Stamp
  <1>7. Writing'
    BY <1>4 DEF IInv, TypeOK, Resting, Apart, Alone, Active, Busy, Attempting, Writing,
       ReadFails, At, Goto, Note, CreatedBy
  <1>8. ASSUME "misread" \notin faults' PROVE Recorded' /\ Clear'
    <2>1. "misread" \notin faults
      BY <1>8 DEF ReadFails, At, Goto, Note
    <2>2. Recorded'
      BY <1>4, <1>8, <2>1 DEF IInv, TypeOK, Resting, Apart, Alone, Active, Busy,
         Attempting, Current, Writing, Recorded, Clear, Names, ReadFails, At, Goto,
         Note, CreatedBy, ReadRecord, Stamp, Mine, ExistingIsLive, Incomparable,
         NoRecord
    <2>3. Clear'
      BY <1>4, <1>8, <2>1 DEF IInv, TypeOK, Resting, Apart, Alone, Active, Busy,
         Attempting, Current, Writing, Recorded, Clear, Names, ReadFails, At, Goto,
         Note, CreatedBy, ReadRecord, Stamp, Mine, ExistingIsLive, Incomparable,
         NoRecord
    <2> QED BY <2>2, <2>3
  <1>9. ASSUME faults' \cap {"blind", "leftover"} = {} PROVE Gone' /\ Owned'
    <2>1. faults \cap {"blind", "leftover"} = {}
      BY <1>9 DEF ReadFails, At, Goto, Note
    <2>2. Gone'
      BY <1>4, <1>9, <2>1 DEF IInv, TypeOK, Resting, Apart, Alone, Active, Busy,
         Attempting, Gone, ReadFails, At, Goto, Note
    <2>3. Owned'
      BY <1>4, <1>9, <2>1 DEF IInv, TypeOK, Resting, RecordInv, Apart, Alone, Active,
         Busy, Attempting, Current, Writing, Gone, Owned, Names, ReadFails, At, Goto,
         Note, CreatedBy, ReadRecord, Stamp, Mine, ExistingIsLive, Incomparable,
         NoRecord
    <2> QED BY <2>2, <2>3
  <1> QED BY <1>5, <1>6, <1>7, <1>8, <1>9 DEF Apart

(* A file without a readable record is nobody's. *)
LEMMA DecideNoRecordStep ==
    ASSUME IInv, NEW p \in Pids, DecideNoRecord(p)
    PROVE  IInv'
  <1>1. TypeOK'
    BY CredentialLockAssumptions DEF IInv, TypeOK, DecideNoRecord, At, Goto, Faults,
       ReadRecord, Stamp, Attempting, CreatedBy
  <1>2. RecordInv'
    BY DEF IInv, TypeOK, RecordInv, DecideNoRecord, At, Goto, CreatedBy
  <1>r. Resting'
    BY DEF IInv, TypeOK, Resting, DecideNoRecord, At, Goto
  <1>3. SUFFICES ASSUME "overlap" \notin faults' PROVE Apart'
    BY <1>1, <1>2, <1>r DEF IInv
  <1>4. "overlap" \notin faults
    BY <1>3 DEF DecideNoRecord, At, Goto
  <1>5. Alone'
    BY <1>3, <1>4 DEF IInv, TypeOK, Resting, Apart, Alone, Active, Busy, Attempting,
       DecideNoRecord, At, Goto
  <1>6. Current'
    BY <1>4 DEF IInv, TypeOK, Resting, Apart, Alone, Active, Busy, Attempting, Current,
       DecideNoRecord, At, Goto, ReadRecord, Stamp
  <1>7. Writing'
    BY <1>4 DEF IInv, TypeOK, Resting, Apart, Alone, Active, Busy, Attempting, Writing,
       DecideNoRecord, At, Goto, CreatedBy
  <1>8. ASSUME "misread" \notin faults' PROVE Recorded' /\ Clear'
    <2>1. "misread" \notin faults
      BY <1>8 DEF DecideNoRecord, At, Goto
    <2>2. Recorded'
      BY <1>4, <1>8, <2>1 DEF IInv, TypeOK, Resting, Apart, Alone, Active, Busy,
         Attempting, Current, Writing, Recorded, Clear, Names, DecideNoRecord, At, Goto,
         CreatedBy, ReadRecord, Stamp, Mine, ExistingIsLive, Incomparable, NoRecord
    <2>a. ReadRecord = NoRecord
      BY <1>4, <2>1 DEF IInv, Apart, Current, DecideNoRecord, At
    <2>b. \A q \in Pids : ~Names(q)
      BY <2>a, CredentialLockAssumptions DEF Names, ReadRecord, NoRecord
    <2>3. Clear'
      BY <1>4, <2>1, <2>b DEF IInv, Apart, Recorded, Clear, DecideNoRecord, Goto
    <2> QED BY <2>2, <2>3
  <1>9. ASSUME faults' \cap {"blind", "leftover"} = {} PROVE Gone' /\ Owned'
    <2>1. faults \cap {"blind", "leftover"} = {}
      BY <1>9 DEF DecideNoRecord, At, Goto
    <2>2. Gone'
      BY <1>4, <1>9, <2>1 DEF IInv, TypeOK, Resting, Apart, Alone, Active, Busy,
         Attempting, Gone, DecideNoRecord, At, Goto
    <2>3. Owned'
      BY <1>4, <1>9, <2>1 DEF IInv, TypeOK, Resting, RecordInv, Apart, Alone, Active,
         Busy, Attempting, Current, Writing, Gone, Owned, Names, DecideNoRecord, At,
         Goto, CreatedBy, ReadRecord, Stamp, Mine, ExistingIsLive, Incomparable,
         NoRecord
    <2> QED BY <2>2, <2>3
  <1> QED BY <1>5, <1>6, <1>7, <1>8, <1>9 DEF Apart

(* A record of one's own makes the process the holder again. *)
LEMMA DecideMineStep ==
    ASSUME IInv, NEW p \in Pids, DecideMine(p)
    PROVE  IInv'
  <1>1. TypeOK'
    BY CredentialLockAssumptions DEF IInv, TypeOK, DecideMine, At, Goto, Leave, Faults,
       ReadRecord, Stamp, Attempting, CreatedBy
  <1>2. RecordInv'
    BY DEF IInv, TypeOK, RecordInv, DecideMine, At, Goto, Leave, CreatedBy
  <1>r. Resting'
    BY DEF IInv, TypeOK, Resting, DecideMine, At, Goto, Leave
  <1>3. SUFFICES ASSUME "overlap" \notin faults' PROVE Apart'
    BY <1>1, <1>2, <1>r DEF IInv
  <1>4. "overlap" \notin faults
    BY <1>3 DEF DecideMine, At, Goto, Leave
  <1>5. Alone'
    BY <1>3, <1>4 DEF IInv, TypeOK, Resting, Apart, Alone, Active, Busy, Attempting,
       DecideMine, At, Goto, Leave
  <1>6. Current'
    BY <1>4 DEF IInv, TypeOK, Resting, Apart, Alone, Active, Busy, Attempting, Current,
       DecideMine, At, Goto, Leave, ReadRecord, Stamp
  <1>7. Writing'
    BY <1>4 DEF IInv, TypeOK, Resting, Apart, Alone, Active, Busy, Attempting, Writing,
       DecideMine, At, Goto, Leave, CreatedBy
  <1>8. ASSUME "misread" \notin faults' PROVE Recorded' /\ Clear'
    <2>1. "misread" \notin faults
      BY <1>8 DEF DecideMine, At, Goto, Leave
    <2>a. \A q \in Pids : pc[q] = "holding" => q = p
      BY <1>4, <2>1 DEF IInv, Apart, Current, Recorded, Names, DecideMine, At, Mine,
         ReadRecord
    <2>b. Names(p)'
      BY RecordIsFile DEF IInv, DecideMine, Names
    <2>2. Recorded'
      BY <2>a, <2>b DEF IInv, TypeOK, Recorded, DecideMine, Leave, Goto
    <2>3. Clear'
      BY <1>4, <1>8, <2>1 DEF IInv, TypeOK, Resting, Apart, Alone, Active, Busy,
         Attempting, Current, Writing, Recorded, Clear, Names, DecideMine, At, Goto,
         Leave, CreatedBy, ReadRecord, Stamp, Mine, ExistingIsLive, Incomparable,
         NoRecord
    <2> QED BY <2>2, <2>3
  <1>9. ASSUME faults' \cap {"blind", "leftover"} = {} PROVE Gone' /\ Owned'
    <2>1. faults \cap {"blind", "leftover"} = {}
      BY <1>9 DEF DecideMine, At, Goto, Leave
    <2>2. Gone'
      BY <1>4, <1>9, <2>1 DEF IInv, TypeOK, Resting, Apart, Alone, Active, Busy,
         Attempting, Gone, DecideMine, At, Goto, Leave
    <2>3. Owned'
      BY <1>4, <1>9, <2>1 DEF IInv, TypeOK, Resting, RecordInv, Apart, Alone, Active,
         Busy, Attempting, Current, Writing, Gone, Owned, Names, DecideMine, At, Goto,
         Leave, CreatedBy, ReadRecord, Stamp, Mine, ExistingIsLive, Incomparable,
         NoRecord
    <2> QED BY <2>2, <2>3
  <1> QED BY <1>5, <1>6, <1>7, <1>8, <1>9 DEF Apart

(* A refresh that fails leaves the file. *)
LEMMA DecideMineRaisesStep ==
    ASSUME IInv, NEW p \in Pids, DecideMineRaises(p)
    PROVE  IInv'
  <1>1. TypeOK'
    BY CredentialLockAssumptions DEF IInv, TypeOK, DecideMineRaises, At, Goto, Leave,
       Faults, ReadRecord, Stamp, Attempting, CreatedBy
  <1>2. RecordInv'
    BY DEF IInv, TypeOK, RecordInv, DecideMineRaises, At, Goto, Leave, CreatedBy
  <1>r. Resting'
    BY DEF IInv, TypeOK, Resting, DecideMineRaises, At, Goto, Leave
  <1>3. SUFFICES ASSUME "overlap" \notin faults' PROVE Apart'
    BY <1>1, <1>2, <1>r DEF IInv
  <1>4. "overlap" \notin faults
    BY <1>3 DEF DecideMineRaises, At, Goto, Leave
  <1>5. Alone'
    BY <1>3, <1>4 DEF IInv, TypeOK, Resting, Apart, Alone, Active, Busy, Attempting,
       DecideMineRaises, At, Goto, Leave
  <1>6. Current'
    BY <1>4 DEF IInv, TypeOK, Resting, Apart, Alone, Active, Busy, Attempting, Current,
       DecideMineRaises, At, Goto, Leave, ReadRecord, Stamp
  <1>7. Writing'
    BY <1>4 DEF IInv, TypeOK, Resting, Apart, Alone, Active, Busy, Attempting, Writing,
       DecideMineRaises, At, Goto, Leave, CreatedBy
  <1>8. ASSUME "misread" \notin faults' PROVE Recorded' /\ Clear'
    <2>1. "misread" \notin faults
      BY <1>8 DEF DecideMineRaises, At, Goto, Leave
    <2>2. Recorded'
      BY <1>4, <1>8, <2>1 DEF IInv, TypeOK, Resting, Apart, Alone, Active, Busy,
         Attempting, Current, Writing, Recorded, Clear, Names, DecideMineRaises, At,
         Goto, Leave, CreatedBy, ReadRecord, Stamp, Mine, ExistingIsLive, Incomparable,
         NoRecord
    <2>3. Clear'
      BY <1>4, <1>8, <2>1 DEF IInv, TypeOK, Resting, Apart, Alone, Active, Busy,
         Attempting, Current, Writing, Recorded, Clear, Names, DecideMineRaises, At,
         Goto, Leave, CreatedBy, ReadRecord, Stamp, Mine, ExistingIsLive, Incomparable,
         NoRecord
    <2> QED BY <2>2, <2>3
  <1>9. ASSUME faults' \cap {"blind", "leftover"} = {} PROVE Gone' /\ Owned'
    <2>1. faults \cap {"blind", "leftover"} = {}
      BY <1>9 DEF DecideMineRaises, At, Goto, Leave
    <2>2. Gone'
      BY <1>4, <1>9, <2>1 DEF IInv, TypeOK, Resting, Apart, Alone, Active, Busy,
         Attempting, Gone, DecideMineRaises, At, Goto, Leave
    <2>3. Owned'
      BY <1>4, <1>9, <2>1 DEF IInv, TypeOK, Resting, RecordInv, Apart, Alone, Active,
         Busy, Attempting, Current, Writing, Gone, Owned, Names, DecideMineRaises, At,
         Goto, Leave, CreatedBy, ReadRecord, Stamp, Mine, ExistingIsLive, Incomparable,
         NoRecord
    <2> QED BY <2>2, <2>3
  <1> QED BY <1>5, <1>6, <1>7, <1>8, <1>9 DEF Apart

(* A file is taken from a dead owner or from a recycled pid. *)
LEMMA DecideOtherStep ==
    ASSUME IInv, NEW p \in Pids, DecideOther(p)
    PROVE  IInv'
  <1>1. TypeOK'
    <2>1. /\ own' \in [Pids -> Clocks \cup {NoClock}]
          /\ pc' \in [Pids -> {"idle", "holding", "failed", "refused", "releasing"}
                                 \cup Attempting]
      BY DEF IInv, TypeOK, DecideOther, Goto, Leave, Attempting
    <2>2. seen' \in [Pids -> [pid : Pids, start : 0..MaxStarts,
                              clock : Clocks \cup {NoClock}] \cup {NoRecord}]
      BY DEF IInv, TypeOK, DecideOther, Leave
    <2>3. faults' \in SUBSET Faults
      BY DEF IInv, TypeOK, DecideOther, Note, Faults
    <2> QED BY <2>1, <2>2, <2>3 DEF IInv, TypeOK, DecideOther
  <1>2. RecordInv'
    BY DEF IInv, TypeOK, RecordInv, DecideOther, At, Goto, Leave, Note, CreatedBy
  <1>r. Resting'
    BY DEF IInv, TypeOK, Resting, DecideOther, At, Goto, Leave, Note
  <1>3. SUFFICES ASSUME "overlap" \notin faults' PROVE Apart'
    BY <1>1, <1>2, <1>r DEF IInv
  <1>4. "overlap" \notin faults
    BY <1>3 DEF DecideOther, At, Goto, Leave, Note
  <1>5. Alone'
    BY <1>3, <1>4 DEF IInv, TypeOK, Resting, Apart, Alone, Active, Busy, Attempting,
       DecideOther, At, Goto, Leave, Note
  <1>6. Current'
    BY <1>4 DEF IInv, TypeOK, Resting, Apart, Alone, Active, Busy, Attempting, Current,
       DecideOther, At, Goto, Leave, Note, ReadRecord, Stamp
  <1>7. Writing'
    BY <1>4 DEF IInv, TypeOK, Resting, Apart, Alone, Active, Busy, Attempting, Writing,
       DecideOther, At, Goto, Leave, Note, CreatedBy
  <1>8. ASSUME "misread" \notin faults' PROVE Recorded' /\ Clear'
    <2>1. "misread" \notin faults
      BY <1>8 DEF DecideOther, At, Goto, Leave, Note
    <2>2. Recorded'
      BY <1>4, <1>8, <2>1 DEF IInv, TypeOK, Resting, Apart, Alone, Active, Busy,
         Attempting, Current, Writing, Recorded, Clear, Names, DecideOther, At, Goto,
         Leave, Note, CreatedBy, ReadRecord, Stamp, Mine, ExistingIsLive, Incomparable,
         NoRecord
    <2>3. Clear'
      BY <1>4, <1>8, <2>1 DEF IInv, TypeOK, Resting, Apart, Alone, Active, Busy,
         Attempting, Current, Writing, Recorded, Clear, Names, DecideOther, At, Goto,
         Leave, Note, CreatedBy, ReadRecord, Stamp, Mine, ExistingIsLive, Incomparable,
         NoRecord
    <2> QED BY <2>2, <2>3
  <1>9. ASSUME faults' \cap {"blind", "leftover"} = {} PROVE Gone' /\ Owned'
    <2>1. faults \cap {"blind", "leftover"} = {}
      BY <1>9 DEF DecideOther, At, Goto, Leave, Note
    <2>2. Gone'
      BY <1>4, <1>9, <2>1 DEF IInv, TypeOK, Resting, Apart, Alone, Active, Busy,
         Attempting, Gone, DecideOther, At, Goto, Leave, Note
    <2>a. ASSUME Names(p), pc'[p] = "refused" PROVE FALSE
      <3>1. PICK now \in Clocks \cup {NoClock} :
              ExistingIsLive(seen[p], now) /\ ~Incomparable(p, seen[p], now)
        BY <1>9, <2>a DEF IInv, TypeOK, DecideOther, Goto, Note
      <3>2. /\ seen[p].pid = p /\ seen[p].start = Stamp(started[p], file.clock)
            /\ seen[p].clock = file.clock
        BY <1>4, <2>a DEF IInv, Apart, Current, DecideOther, At, ReadRecord, Names
      <3>3. own[p] = file.clock
        BY <3>1, <3>2 DEF ExistingIsLive, Incomparable
      <3> QED BY <3>2, <3>3 DEF DecideOther, Mine
    <2>3. Owned'
      BY <1>4, <2>1, <2>a DEF IInv, TypeOK, Apart, Owned, Names, DecideOther, Leave, Goto
    <2> QED BY <2>2, <2>3
  <1> QED BY <1>5, <1>6, <1>7, <1>8, <1>9 DEF Apart

(* The file that goes was nobody's. *)
LEMMA UnlinkStep ==
    ASSUME IInv, NEW p \in Pids, Unlink(p)
    PROVE  IInv'
  <1>1. TypeOK'
    BY CredentialLockAssumptions DEF IInv, TypeOK, Unlink, At, Goto, Faults, ReadRecord,
       Stamp, Attempting, CreatedBy
  <1>2. RecordInv'
    BY DEF IInv, TypeOK, RecordInv, Unlink, At, Goto, CreatedBy
  <1>r. Resting'
    BY DEF IInv, TypeOK, Resting, Unlink, At, Goto
  <1>3. SUFFICES ASSUME "overlap" \notin faults' PROVE Apart'
    BY <1>1, <1>2, <1>r DEF IInv
  <1>4. "overlap" \notin faults
    BY <1>3 DEF Unlink, At, Goto
  <1>5. Alone'
    BY <1>3, <1>4 DEF IInv, TypeOK, Resting, Apart, Alone, Active, Busy, Attempting,
       Unlink, At, Goto
  <1>6. Current'
    BY <1>4 DEF IInv, TypeOK, Resting, Apart, Alone, Active, Busy, Attempting, Current,
       Unlink, At, Goto, ReadRecord, Stamp
  <1>7. Writing'
    BY <1>4 DEF IInv, TypeOK, Resting, Apart, Alone, Active, Busy, Attempting, Writing,
       Unlink, At, Goto, CreatedBy
  <1>8. ASSUME "misread" \notin faults' PROVE Recorded' /\ Clear'
    <2>1. "misread" \notin faults
      BY <1>8 DEF Unlink, At, Goto
    <2>2. Recorded'
      BY <1>4, <1>8, <2>1 DEF IInv, TypeOK, Resting, Apart, Alone, Active, Busy,
         Attempting, Current, Writing, Recorded, Clear, Names, Unlink, At, Goto,
         CreatedBy, ReadRecord, Stamp, Mine, ExistingIsLive, Incomparable, NoRecord
    <2>3. Clear'
      BY <1>4, <1>8, <2>1 DEF IInv, TypeOK, Resting, Apart, Alone, Active, Busy,
         Attempting, Current, Writing, Recorded, Clear, Names, Unlink, At, Goto,
         CreatedBy, ReadRecord, Stamp, Mine, ExistingIsLive, Incomparable, NoRecord
    <2> QED BY <2>2, <2>3
  <1>9. ASSUME faults' \cap {"blind", "leftover"} = {} PROVE Gone' /\ Owned'
    <2>1. faults \cap {"blind", "leftover"} = {}
      BY <1>9 DEF Unlink, At, Goto
    <2>2. Gone'
      BY <1>4, <1>9, <2>1 DEF IInv, TypeOK, Resting, Apart, Alone, Active, Busy,
         Attempting, Gone, Unlink, At, Goto
    <2>3. Owned'
      BY <1>4, <1>9, <2>1 DEF IInv, TypeOK, Resting, RecordInv, Apart, Alone, Active,
         Busy, Attempting, Current, Writing, Gone, Owned, Names, Unlink, At, Goto,
         CreatedBy, ReadRecord, Stamp, Mine, ExistingIsLive, Incomparable, NoRecord
    <2> QED BY <2>2, <2>3
  <1> QED BY <1>5, <1>6, <1>7, <1>8, <1>9 DEF Apart

(* A file that stays is recorded as a fault. *)
LEMMA UnlinkFailsStep ==
    ASSUME IInv, NEW p \in Pids, UnlinkFails(p)
    PROVE  IInv'
  <1>1. TypeOK'
    BY CredentialLockAssumptions DEF IInv, TypeOK, UnlinkFails, At, Goto, Note, Faults,
       ReadRecord, Stamp, Attempting, CreatedBy
  <1>2. RecordInv'
    BY DEF IInv, TypeOK, RecordInv, UnlinkFails, At, Goto, Note, CreatedBy
  <1>r. Resting'
    BY DEF IInv, TypeOK, Resting, UnlinkFails, At, Goto, Note
  <1>3. SUFFICES ASSUME "overlap" \notin faults' PROVE Apart'
    BY <1>1, <1>2, <1>r DEF IInv
  <1>4. "overlap" \notin faults
    BY <1>3 DEF UnlinkFails, At, Goto, Note
  <1>5. Alone'
    BY <1>3, <1>4 DEF IInv, TypeOK, Resting, Apart, Alone, Active, Busy, Attempting,
       UnlinkFails, At, Goto, Note
  <1>6. Current'
    BY <1>4 DEF IInv, TypeOK, Resting, Apart, Alone, Active, Busy, Attempting, Current,
       UnlinkFails, At, Goto, Note, ReadRecord, Stamp
  <1>7. Writing'
    BY <1>4 DEF IInv, TypeOK, Resting, Apart, Alone, Active, Busy, Attempting, Writing,
       UnlinkFails, At, Goto, Note, CreatedBy
  <1>8. ASSUME "misread" \notin faults' PROVE Recorded' /\ Clear'
    <2>1. "misread" \notin faults
      BY <1>8 DEF UnlinkFails, At, Goto, Note
    <2>2. Recorded'
      BY <1>4, <1>8, <2>1 DEF IInv, TypeOK, Resting, Apart, Alone, Active, Busy,
         Attempting, Current, Writing, Recorded, Clear, Names, UnlinkFails, At, Goto,
         Note, CreatedBy, ReadRecord, Stamp, Mine, ExistingIsLive, Incomparable,
         NoRecord
    <2>3. Clear'
      BY <1>4, <1>8, <2>1 DEF IInv, TypeOK, Resting, Apart, Alone, Active, Busy,
         Attempting, Current, Writing, Recorded, Clear, Names, UnlinkFails, At, Goto,
         Note, CreatedBy, ReadRecord, Stamp, Mine, ExistingIsLive, Incomparable,
         NoRecord
    <2> QED BY <2>2, <2>3
  <1>9. ASSUME faults' \cap {"blind", "leftover"} = {} PROVE Gone' /\ Owned'
    <2>1. faults \cap {"blind", "leftover"} = {}
      BY <1>9 DEF UnlinkFails, At, Goto, Note
    <2>2. Gone'
      BY <1>4, <1>9, <2>1 DEF IInv, TypeOK, Resting, Apart, Alone, Active, Busy,
         Attempting, Gone, UnlinkFails, At, Goto, Note
    <2>3. Owned'
      BY <1>4, <1>9, <2>1 DEF IInv, TypeOK, Resting, RecordInv, Apart, Alone, Active,
         Busy, Attempting, Current, Writing, Gone, Owned, Names, UnlinkFails, At, Goto,
         Note, CreatedBy, ReadRecord, Stamp, Mine, ExistingIsLive, Incomparable,
         NoRecord
    <2> QED BY <2>2, <2>3
  <1> QED BY <1>5, <1>6, <1>7, <1>8, <1>9 DEF Apart

(* O_EXCL makes the file of whoever creates it its own. *)
LEMMA CreateStep ==
    ASSUME IInv, NEW p \in Pids, Create(p)
    PROVE  IInv'
  <1>1. TypeOK'
    <2>1. file' \in [pid : Pids, start : 1..MaxStarts, clock : Clocks \cup {NoClock},
                     written : BOOLEAN] \cup {NoFile}
      BY RecordIsFile DEF IInv, TypeOK, Create
    <2>2. /\ own' \in [Pids -> Clocks \cup {NoClock}]
          /\ pc' \in [Pids -> {"idle", "holding", "failed", "refused", "releasing"}
                                 \cup Attempting]
      BY DEF IInv, TypeOK, Create, Goto, Leave, Attempting
    <2>3. seen' \in [Pids -> [pid : Pids, start : 0..MaxStarts,
                              clock : Clocks \cup {NoClock}] \cup {NoRecord}]
      BY DEF IInv, TypeOK, Create, Leave
    <2> QED BY <2>1, <2>2, <2>3 DEF IInv, TypeOK, Create
  <1>2. RecordInv'
    BY DEF IInv, TypeOK, RecordInv, Create, At, Goto, Leave, CreatedBy
  <1>r. Resting'
    BY DEF IInv, TypeOK, Resting, Create, At, Goto, Leave
  <1>3. SUFFICES ASSUME "overlap" \notin faults' PROVE Apart'
    BY <1>1, <1>2, <1>r DEF IInv
  <1>4. "overlap" \notin faults
    BY <1>3 DEF Create, At, Goto, Leave
  <1>5. Alone'
    BY <1>3, <1>4 DEF IInv, TypeOK, Resting, Apart, Alone, Active, Busy, Attempting,
       Create, At, Goto, Leave
  <1>6. Current'
    BY <1>4 DEF IInv, TypeOK, Resting, Apart, Alone, Active, Busy, Attempting, Current,
       Create, At, Goto, Leave, ReadRecord, Stamp
  <1>7. Writing'
    <2>1. CASE file = NoFile
      <3>1. file' = [pid |-> p, start |-> started[p], clock |-> own[p], written |-> FALSE]
              /\ started' = started
        BY <2>1 DEF Create
      <3>a. file' # NoFile
        BY <3>1, RecordIsFile DEF IInv
      <3>b. CreatedBy(p)' /\ ~file'.written
        BY <3>1, <3>a DEF CreatedBy
      <3>2. \A q \in Pids : pc'[q] = "writing" => q = p
        BY <1>4, <2>1 DEF IInv, TypeOK, Resting, Apart, Alone, Active, Busy, Attempting,
           Create, At, Goto
      <3> QED BY <3>2, <3>b DEF Writing
    <2>2. CASE file # NoFile
      BY <1>4, <2>2 DEF IInv, TypeOK, Apart, Writing, Create, CreatedBy, Leave, Goto
    <2> QED BY <2>1, <2>2
  <1>8. ASSUME "misread" \notin faults' PROVE Recorded' /\ Clear'
    <2>1. "misread" \notin faults
      BY <1>8 DEF Create, At, Goto, Leave
    <2>2. Recorded'
      BY <1>4, <1>8, <2>1 DEF IInv, TypeOK, Resting, Apart, Alone, Active, Busy,
         Attempting, Current, Writing, Recorded, Clear, Names, Create, At, Goto, Leave,
         CreatedBy, ReadRecord, Stamp, Mine, ExistingIsLive, Incomparable, NoRecord
    <2>3. Clear'
      BY <1>4, <1>8, <2>1 DEF IInv, TypeOK, Resting, Apart, Alone, Active, Busy,
         Attempting, Current, Writing, Recorded, Clear, Names, Create, At, Goto, Leave,
         CreatedBy, ReadRecord, Stamp, Mine, ExistingIsLive, Incomparable, NoRecord
    <2> QED BY <2>2, <2>3
  <1>9. ASSUME faults' \cap {"blind", "leftover"} = {} PROVE Gone' /\ Owned'
    <2>1. faults \cap {"blind", "leftover"} = {}
      BY <1>9 DEF Create, At, Goto, Leave
    <2>2. Gone'
      BY <1>4, <1>9, <2>1 DEF IInv, TypeOK, Resting, Apart, Alone, Active, Busy,
         Attempting, Gone, Create, At, Goto, Leave
    <2>3. Owned'
      BY <1>4, <1>9, <2>1 DEF IInv, TypeOK, Resting, RecordInv, Apart, Alone, Active,
         Busy, Attempting, Current, Writing, Gone, Owned, Names, Create, At, Goto,
         Leave, CreatedBy, ReadRecord, Stamp, Mine, ExistingIsLive, Incomparable,
         NoRecord
    <2> QED BY <2>2, <2>3
  <1> QED BY <1>5, <1>6, <1>7, <1>8, <1>9 DEF Apart

(* An attempt that fails leaves the file. *)
LEMMA AcquireRaisesStep ==
    ASSUME IInv, NEW p \in Pids, AcquireRaises(p)
    PROVE  IInv'
  <1>1. TypeOK'
    BY CredentialLockAssumptions DEF IInv, TypeOK, AcquireRaises, At, Goto, Leave,
       Faults, ReadRecord, Stamp, Attempting, CreatedBy
  <1>2. RecordInv'
    BY DEF IInv, TypeOK, RecordInv, AcquireRaises, At, Goto, Leave, CreatedBy
  <1>r. Resting'
    BY DEF IInv, TypeOK, Resting, AcquireRaises, At, Goto, Leave
  <1>3. SUFFICES ASSUME "overlap" \notin faults' PROVE Apart'
    BY <1>1, <1>2, <1>r DEF IInv
  <1>4. "overlap" \notin faults
    BY <1>3 DEF AcquireRaises, At, Goto, Leave
  <1>5. Alone'
    BY <1>3, <1>4 DEF IInv, TypeOK, Resting, Apart, Alone, Active, Busy, Attempting,
       AcquireRaises, At, Goto, Leave
  <1>6. Current'
    BY <1>4 DEF IInv, TypeOK, Resting, Apart, Alone, Active, Busy, Attempting, Current,
       AcquireRaises, At, Goto, Leave, ReadRecord, Stamp
  <1>7. Writing'
    BY <1>4 DEF IInv, TypeOK, Resting, Apart, Alone, Active, Busy, Attempting, Writing,
       AcquireRaises, At, Goto, Leave, CreatedBy
  <1>8. ASSUME "misread" \notin faults' PROVE Recorded' /\ Clear'
    <2>1. "misread" \notin faults
      BY <1>8 DEF AcquireRaises, At, Goto, Leave
    <2>2. Recorded'
      BY <1>4, <1>8, <2>1 DEF IInv, TypeOK, Resting, Apart, Alone, Active, Busy,
         Attempting, Current, Writing, Recorded, Clear, Names, AcquireRaises, At, Goto,
         Leave, CreatedBy, ReadRecord, Stamp, Mine, ExistingIsLive, Incomparable,
         NoRecord
    <2>3. Clear'
      BY <1>4, <1>8, <2>1 DEF IInv, TypeOK, Resting, Apart, Alone, Active, Busy,
         Attempting, Current, Writing, Recorded, Clear, Names, AcquireRaises, At, Goto,
         Leave, CreatedBy, ReadRecord, Stamp, Mine, ExistingIsLive, Incomparable,
         NoRecord
    <2> QED BY <2>2, <2>3
  <1>9. ASSUME faults' \cap {"blind", "leftover"} = {} PROVE Gone' /\ Owned'
    <2>1. faults \cap {"blind", "leftover"} = {}
      BY <1>9 DEF AcquireRaises, At, Goto, Leave
    <2>2. Gone'
      BY <1>4, <1>9, <2>1 DEF IInv, TypeOK, Resting, Apart, Alone, Active, Busy,
         Attempting, Gone, AcquireRaises, At, Goto, Leave
    <2>3. Owned'
      BY <1>4, <1>9, <2>1 DEF IInv, TypeOK, Resting, RecordInv, Apart, Alone, Active,
         Busy, Attempting, Current, Writing, Gone, Owned, Names, AcquireRaises, At,
         Goto, Leave, CreatedBy, ReadRecord, Stamp, Mine, ExistingIsLive, Incomparable,
         NoRecord
    <2> QED BY <2>2, <2>3
  <1> QED BY <1>5, <1>6, <1>7, <1>8, <1>9 DEF Apart

(* Alone, the record that is written is the creator's. *)
LEMMA WriteStep ==
    ASSUME IInv, NEW p \in Pids, Write(p)
    PROVE  IInv'
  <1>1. TypeOK'
    BY CredentialLockAssumptions DEF IInv, TypeOK, Write, At, Goto, Leave, Faults,
       ReadRecord, Stamp, Attempting, CreatedBy
  <1>2. RecordInv'
    BY DEF IInv, TypeOK, RecordInv, Write, At, Goto, Leave, CreatedBy
  <1>r. Resting'
    BY DEF IInv, TypeOK, Resting, Write, At, Goto, Leave
  <1>3. SUFFICES ASSUME "overlap" \notin faults' PROVE Apart'
    BY <1>1, <1>2, <1>r DEF IInv
  <1>4. "overlap" \notin faults
    BY <1>3 DEF Write, At, Goto, Leave
  <1>5. Alone'
    BY <1>3, <1>4 DEF IInv, TypeOK, Resting, Apart, Alone, Active, Busy, Attempting,
       Write, At, Goto, Leave
  <1>6. Current'
    BY <1>4 DEF IInv, TypeOK, Resting, Apart, Alone, Active, Busy, Attempting, Current,
       Write, At, Goto, Leave, ReadRecord, Stamp
  <1>7. Writing'
    BY <1>4 DEF IInv, TypeOK, Resting, Apart, Alone, Active, Busy, Attempting, Writing,
       Write, At, Goto, Leave, CreatedBy
  <1>8. ASSUME "misread" \notin faults' PROVE Recorded' /\ Clear'
    <2>1. "misread" \notin faults
      BY <1>8 DEF Write, At, Goto, Leave
    <2>a. Names(p)'
      <3>1. CreatedBy(p) /\ file \in [pid : Pids, start : 1..MaxStarts,
                                      clock : Clocks \cup {NoClock}, written : BOOLEAN]
        BY <1>4 DEF IInv, TypeOK, Apart, Writing, Write, At, CreatedBy
      <3>2. file' = [file EXCEPT !.written = TRUE] /\ started' = started
        BY <3>1 DEF Write
      <3>3. file' \in [pid : Pids, start : 1..MaxStarts, clock : Clocks \cup {NoClock},
                       written : BOOLEAN]
        BY <3>1, <3>2
      <3>4. file' # NoFile
        BY <3>3, CredentialLockAssumptions, Zenon
      <3> QED BY <3>1, <3>2, <3>4 DEF CreatedBy, Names
    <2>b. \A q \in Pids : pc[q] # "holding"
      BY <1>4, <2>1 DEF IInv, Apart, Clear, Write, At
    <2>2. Recorded'
      BY <2>a, <2>b DEF IInv, TypeOK, Recorded, Write, Leave, Goto
    <2>3. Clear'
      BY <1>4, <1>8, <2>1 DEF IInv, TypeOK, Resting, Apart, Alone, Active, Busy,
         Attempting, Current, Writing, Recorded, Clear, Names, Write, At, Goto, Leave,
         CreatedBy, ReadRecord, Stamp, Mine, ExistingIsLive, Incomparable, NoRecord
    <2> QED BY <2>2, <2>3
  <1>9. ASSUME faults' \cap {"blind", "leftover"} = {} PROVE Gone' /\ Owned'
    <2>1. faults \cap {"blind", "leftover"} = {}
      BY <1>9 DEF Write, At, Goto, Leave
    <2>2. Gone'
      BY <1>4, <1>9, <2>1 DEF IInv, TypeOK, Resting, Apart, Alone, Active, Busy,
         Attempting, Gone, Write, At, Goto, Leave
    <2>3. Owned'
      BY <1>4, <1>9, <2>1 DEF IInv, TypeOK, Resting, RecordInv, Apart, Alone, Active,
         Busy, Attempting, Current, Writing, Gone, Owned, Names, Write, At, Goto, Leave,
         CreatedBy, ReadRecord, Stamp, Mine, ExistingIsLive, Incomparable, NoRecord
    <2> QED BY <2>2, <2>3
  <1> QED BY <1>5, <1>6, <1>7, <1>8, <1>9 DEF Apart

(* A creator that fails leaves no record. *)
LEMMA WriteRaisesStep ==
    ASSUME IInv, NEW p \in Pids, WriteRaises(p)
    PROVE  IInv'
  <1>1. TypeOK'
    BY CredentialLockAssumptions DEF IInv, TypeOK, WriteRaises, At, Goto, Leave, Faults,
       ReadRecord, Stamp, Attempting, CreatedBy
  <1>2. RecordInv'
    BY DEF IInv, TypeOK, RecordInv, WriteRaises, At, Goto, Leave, CreatedBy
  <1>r. Resting'
    BY DEF IInv, TypeOK, Resting, WriteRaises, At, Goto, Leave
  <1>3. SUFFICES ASSUME "overlap" \notin faults' PROVE Apart'
    BY <1>1, <1>2, <1>r DEF IInv
  <1>4. "overlap" \notin faults
    BY <1>3 DEF WriteRaises, At, Goto, Leave
  <1>5. Alone'
    BY <1>3, <1>4 DEF IInv, TypeOK, Resting, Apart, Alone, Active, Busy, Attempting,
       WriteRaises, At, Goto, Leave
  <1>6. Current'
    BY <1>4 DEF IInv, TypeOK, Resting, Apart, Alone, Active, Busy, Attempting, Current,
       WriteRaises, At, Goto, Leave, ReadRecord, Stamp
  <1>7. Writing'
    BY <1>4 DEF IInv, TypeOK, Resting, Apart, Alone, Active, Busy, Attempting, Writing,
       WriteRaises, At, Goto, Leave, CreatedBy
  <1>8. ASSUME "misread" \notin faults' PROVE Recorded' /\ Clear'
    <2>1. "misread" \notin faults
      BY <1>8 DEF WriteRaises, At, Goto, Leave
    <2>2. Recorded'
      BY <1>4, <1>8, <2>1 DEF IInv, TypeOK, Resting, Apart, Alone, Active, Busy,
         Attempting, Current, Writing, Recorded, Clear, Names, WriteRaises, At, Goto,
         Leave, CreatedBy, ReadRecord, Stamp, Mine, ExistingIsLive, Incomparable,
         NoRecord
    <2>3. Clear'
      BY <1>4, <1>8, <2>1 DEF IInv, TypeOK, Resting, Apart, Alone, Active, Busy,
         Attempting, Current, Writing, Recorded, Clear, Names, WriteRaises, At, Goto,
         Leave, CreatedBy, ReadRecord, Stamp, Mine, ExistingIsLive, Incomparable,
         NoRecord
    <2> QED BY <2>2, <2>3
  <1>9. ASSUME faults' \cap {"blind", "leftover"} = {} PROVE Gone' /\ Owned'
    <2>1. faults \cap {"blind", "leftover"} = {}
      BY <1>9 DEF WriteRaises, At, Goto, Leave
    <2>2. Gone'
      BY <1>4, <1>9, <2>1 DEF IInv, TypeOK, Resting, Apart, Alone, Active, Busy,
         Attempting, Gone, WriteRaises, At, Goto, Leave
    <2>3. Owned'
      BY <1>4, <1>9, <2>1 DEF IInv, TypeOK, Resting, RecordInv, Apart, Alone, Active,
         Busy, Attempting, Current, Writing, Gone, Owned, Names, WriteRaises, At, Goto,
         Leave, CreatedBy, ReadRecord, Stamp, Mine, ExistingIsLive, Incomparable,
         NoRecord
    <2> QED BY <2>2, <2>3
  <1> QED BY <1>5, <1>6, <1>7, <1>8, <1>9 DEF Apart

(* A release reads what the file holds. *)
LEMMA ReleaseReadStep ==
    ASSUME IInv, NEW p \in Pids, ReleaseRead(p)
    PROVE  IInv'
  <1>1. TypeOK'
    BY CredentialLockAssumptions DEF IInv, TypeOK, ReleaseRead, At, Goto, Note,
       NoteOverlap, Faults, ReadRecord, Stamp, Attempting, CreatedBy
  <1>2. RecordInv'
    BY DEF IInv, TypeOK, RecordInv, ReleaseRead, At, Goto, Note, NoteOverlap, CreatedBy
  <1>r. Resting'
    BY DEF IInv, TypeOK, Resting, ReleaseRead, At, Goto, Note, NoteOverlap
  <1>3. SUFFICES ASSUME "overlap" \notin faults' PROVE Apart'
    BY <1>1, <1>2, <1>r DEF IInv
  <1>4. "overlap" \notin faults
    BY <1>3 DEF ReleaseRead, At, Goto, Note, NoteOverlap
  <1>5. Alone'
    BY <1>3, <1>4 DEF IInv, TypeOK, Resting, Apart, Alone, Active, Busy, Attempting,
       ReleaseRead, At, Goto, Note, NoteOverlap
  <1>6. Current'
    BY <1>4 DEF IInv, TypeOK, Resting, Apart, Alone, Active, Busy, Attempting, Current,
       ReleaseRead, At, Goto, Note, NoteOverlap, ReadRecord, Stamp
  <1>7. Writing'
    BY <1>4 DEF IInv, TypeOK, Resting, Apart, Alone, Active, Busy, Attempting, Writing,
       ReleaseRead, At, Goto, Note, NoteOverlap, CreatedBy
  <1>8. ASSUME "misread" \notin faults' PROVE Recorded' /\ Clear'
    <2>1. "misread" \notin faults
      BY <1>8 DEF ReleaseRead, At, Goto, Note, NoteOverlap
    <2>2. Recorded'
      BY <1>4, <1>8, <2>1 DEF IInv, TypeOK, Resting, Apart, Alone, Active, Busy,
         Attempting, Current, Writing, Recorded, Clear, Names, ReleaseRead, At, Goto,
         Note, NoteOverlap, CreatedBy, ReadRecord, Stamp, Mine, ExistingIsLive,
         Incomparable, NoRecord
    <2>3. Clear'
      BY <1>4, <1>8, <2>1 DEF IInv, TypeOK, Resting, Apart, Alone, Active, Busy,
         Attempting, Current, Writing, Recorded, Clear, Names, ReleaseRead, At, Goto,
         Note, NoteOverlap, CreatedBy, ReadRecord, Stamp, Mine, ExistingIsLive,
         Incomparable, NoRecord
    <2> QED BY <2>2, <2>3
  <1>9. ASSUME faults' \cap {"blind", "leftover"} = {} PROVE Gone' /\ Owned'
    <2>1. faults \cap {"blind", "leftover"} = {}
      BY <1>9 DEF ReleaseRead, At, Goto, Note, NoteOverlap
    <2>2. Gone'
      BY <1>4, <1>9, <2>1 DEF IInv, TypeOK, Resting, Apart, Alone, Active, Busy,
         Attempting, Gone, ReleaseRead, At, Goto, Note, NoteOverlap
    <2>3. Owned'
      BY <1>4, <1>9, <2>1 DEF IInv, TypeOK, Resting, RecordInv, Apart, Alone, Active,
         Busy, Attempting, Current, Writing, Gone, Owned, Names, ReleaseRead, At, Goto,
         Note, NoteOverlap, CreatedBy, ReadRecord, Stamp, Mine, ExistingIsLive,
         Incomparable, NoRecord
    <2> QED BY <2>2, <2>3
  <1> QED BY <1>5, <1>6, <1>7, <1>8, <1>9 DEF Apart

(* A release that could not read is recorded as a fault. *)
LEMMA ReleaseReadFailsStep ==
    ASSUME IInv, NEW p \in Pids, ReleaseReadFails(p)
    PROVE  IInv'
  <1>1. TypeOK'
    BY CredentialLockAssumptions DEF IInv, TypeOK, ReleaseReadFails, At, Goto, Leave,
       Note, Faults, ReadRecord, Stamp, Attempting, CreatedBy
  <1>2. RecordInv'
    BY DEF IInv, TypeOK, RecordInv, ReleaseReadFails, At, Goto, Leave, Note, CreatedBy
  <1>r. Resting'
    BY DEF IInv, TypeOK, Resting, ReleaseReadFails, At, Goto, Leave, Note
  <1>3. SUFFICES ASSUME "overlap" \notin faults' PROVE Apart'
    BY <1>1, <1>2, <1>r DEF IInv
  <1>4. "overlap" \notin faults
    BY <1>3 DEF ReleaseReadFails, At, Goto, Leave, Note
  <1>5. Alone'
    BY <1>3, <1>4 DEF IInv, TypeOK, Resting, Apart, Alone, Active, Busy, Attempting,
       ReleaseReadFails, At, Goto, Leave, Note
  <1>6. Current'
    BY <1>4 DEF IInv, TypeOK, Resting, Apart, Alone, Active, Busy, Attempting, Current,
       ReleaseReadFails, At, Goto, Leave, Note, ReadRecord, Stamp
  <1>7. Writing'
    BY <1>4 DEF IInv, TypeOK, Resting, Apart, Alone, Active, Busy, Attempting, Writing,
       ReleaseReadFails, At, Goto, Leave, Note, CreatedBy
  <1>8. ASSUME "misread" \notin faults' PROVE Recorded' /\ Clear'
    <2>1. "misread" \notin faults
      BY <1>8 DEF ReleaseReadFails, At, Goto, Leave, Note
    <2>2. Recorded'
      BY <1>4, <1>8, <2>1 DEF IInv, TypeOK, Resting, Apart, Alone, Active, Busy,
         Attempting, Current, Writing, Recorded, Clear, Names, ReleaseReadFails, At,
         Goto, Leave, Note, CreatedBy, ReadRecord, Stamp, Mine, ExistingIsLive,
         Incomparable, NoRecord
    <2>3. Clear'
      BY <1>4, <1>8, <2>1 DEF IInv, TypeOK, Resting, Apart, Alone, Active, Busy,
         Attempting, Current, Writing, Recorded, Clear, Names, ReleaseReadFails, At,
         Goto, Leave, Note, CreatedBy, ReadRecord, Stamp, Mine, ExistingIsLive,
         Incomparable, NoRecord
    <2> QED BY <2>2, <2>3
  <1>9. ASSUME faults' \cap {"blind", "leftover"} = {} PROVE Gone' /\ Owned'
    <2>1. faults \cap {"blind", "leftover"} = {}
      BY <1>9 DEF ReleaseReadFails, At, Goto, Leave, Note
    <2>2. Gone'
      BY <1>4, <1>9, <2>1 DEF IInv, TypeOK, Resting, Apart, Alone, Active, Busy,
         Attempting, Gone, ReleaseReadFails, At, Goto, Leave, Note
    <2>3. Owned'
      BY <1>4, <1>9, <2>1 DEF IInv, TypeOK, Resting, RecordInv, Apart, Alone, Active,
         Busy, Attempting, Current, Writing, Gone, Owned, Names, ReleaseReadFails, At,
         Goto, Leave, Note, CreatedBy, ReadRecord, Stamp, Mine, ExistingIsLive,
         Incomparable, NoRecord
    <2> QED BY <2>2, <2>3
  <1> QED BY <1>5, <1>6, <1>7, <1>8, <1>9 DEF Apart

(* Alone, a release takes away its own record. *)
LEMMA ReleaseUnlinkStep ==
    ASSUME IInv, NEW p \in Pids, ReleaseUnlink(p)
    PROVE  IInv'
  <1>1. TypeOK'
    BY CredentialLockAssumptions DEF IInv, TypeOK, ReleaseUnlink, At, Goto, Leave,
       Faults, ReadRecord, Stamp, Attempting, CreatedBy
  <1>2. RecordInv'
    BY DEF IInv, TypeOK, RecordInv, ReleaseUnlink, At, Goto, Leave, CreatedBy
  <1>r. Resting'
    BY DEF IInv, TypeOK, Resting, ReleaseUnlink, At, Goto, Leave
  <1>3. SUFFICES ASSUME "overlap" \notin faults' PROVE Apart'
    BY <1>1, <1>2, <1>r DEF IInv
  <1>4. "overlap" \notin faults
    BY <1>3 DEF ReleaseUnlink, At, Goto, Leave
  <1>5. Alone'
    BY <1>3, <1>4 DEF IInv, TypeOK, Resting, Apart, Alone, Active, Busy, Attempting,
       ReleaseUnlink, At, Goto, Leave
  <1>6. Current'
    BY <1>4 DEF IInv, TypeOK, Resting, Apart, Alone, Active, Busy, Attempting, Current,
       ReleaseUnlink, At, Goto, Leave, ReadRecord, Stamp
  <1>7. Writing'
    BY <1>4 DEF IInv, TypeOK, Resting, Apart, Alone, Active, Busy, Attempting, Writing,
       ReleaseUnlink, At, Goto, Leave, CreatedBy
  <1>8. ASSUME "misread" \notin faults' PROVE Recorded' /\ Clear'
    <2>1. "misread" \notin faults
      BY <1>8 DEF ReleaseUnlink, At, Goto, Leave
    <2>2. Recorded'
      BY <1>4, <1>8, <2>1 DEF IInv, TypeOK, Resting, Apart, Alone, Active, Busy,
         Attempting, Current, Writing, Recorded, Clear, Names, ReleaseUnlink, At, Goto,
         Leave, CreatedBy, ReadRecord, Stamp, Mine, ExistingIsLive, Incomparable,
         NoRecord
    <2>3. Clear'
      BY <1>4, <1>8, <2>1 DEF IInv, TypeOK, Resting, Apart, Alone, Active, Busy,
         Attempting, Current, Writing, Recorded, Clear, Names, ReleaseUnlink, At, Goto,
         Leave, CreatedBy, ReadRecord, Stamp, Mine, ExistingIsLive, Incomparable,
         NoRecord
    <2> QED BY <2>2, <2>3
  <1>9. ASSUME faults' \cap {"blind", "leftover"} = {} PROVE Gone' /\ Owned'
    <2>1. faults \cap {"blind", "leftover"} = {}
      BY <1>9 DEF ReleaseUnlink, At, Goto, Leave
    <2>2. Gone'
      BY <1>4, <1>9, <2>1 DEF IInv, TypeOK, Resting, Apart, Alone, Active, Busy,
         Attempting, Gone, ReleaseUnlink, At, Goto, Leave
    <2>3. Owned'
      BY <1>4, <1>9, <2>1 DEF IInv, TypeOK, Resting, RecordInv, Apart, Alone, Active,
         Busy, Attempting, Current, Writing, Gone, Owned, Names, ReleaseUnlink, At,
         Goto, Leave, CreatedBy, ReadRecord, Stamp, Mine, ExistingIsLive, Incomparable,
         NoRecord
    <2> QED BY <2>2, <2>3
  <1> QED BY <1>5, <1>6, <1>7, <1>8, <1>9 DEF Apart

(* A release that could not unlink is recorded as a fault. *)
LEMMA ReleaseUnlinkFailsStep ==
    ASSUME IInv, NEW p \in Pids, ReleaseUnlinkFails(p)
    PROVE  IInv'
  <1>1. TypeOK'
    BY CredentialLockAssumptions DEF IInv, TypeOK, ReleaseUnlinkFails, At, Goto, Leave,
       Note, Faults, ReadRecord, Stamp, Attempting, CreatedBy
  <1>2. RecordInv'
    BY DEF IInv, TypeOK, RecordInv, ReleaseUnlinkFails, At, Goto, Leave, Note, CreatedBy
  <1>r. Resting'
    BY DEF IInv, TypeOK, Resting, ReleaseUnlinkFails, At, Goto, Leave, Note
  <1>3. SUFFICES ASSUME "overlap" \notin faults' PROVE Apart'
    BY <1>1, <1>2, <1>r DEF IInv
  <1>4. "overlap" \notin faults
    BY <1>3 DEF ReleaseUnlinkFails, At, Goto, Leave, Note
  <1>5. Alone'
    BY <1>3, <1>4 DEF IInv, TypeOK, Resting, Apart, Alone, Active, Busy, Attempting,
       ReleaseUnlinkFails, At, Goto, Leave, Note
  <1>6. Current'
    BY <1>4 DEF IInv, TypeOK, Resting, Apart, Alone, Active, Busy, Attempting, Current,
       ReleaseUnlinkFails, At, Goto, Leave, Note, ReadRecord, Stamp
  <1>7. Writing'
    BY <1>4 DEF IInv, TypeOK, Resting, Apart, Alone, Active, Busy, Attempting, Writing,
       ReleaseUnlinkFails, At, Goto, Leave, Note, CreatedBy
  <1>8. ASSUME "misread" \notin faults' PROVE Recorded' /\ Clear'
    <2>1. "misread" \notin faults
      BY <1>8 DEF ReleaseUnlinkFails, At, Goto, Leave, Note
    <2>2. Recorded'
      BY <1>4, <1>8, <2>1 DEF IInv, TypeOK, Resting, Apart, Alone, Active, Busy,
         Attempting, Current, Writing, Recorded, Clear, Names, ReleaseUnlinkFails, At,
         Goto, Leave, Note, CreatedBy, ReadRecord, Stamp, Mine, ExistingIsLive,
         Incomparable, NoRecord
    <2>3. Clear'
      BY <1>4, <1>8, <2>1 DEF IInv, TypeOK, Resting, Apart, Alone, Active, Busy,
         Attempting, Current, Writing, Recorded, Clear, Names, ReleaseUnlinkFails, At,
         Goto, Leave, Note, CreatedBy, ReadRecord, Stamp, Mine, ExistingIsLive,
         Incomparable, NoRecord
    <2> QED BY <2>2, <2>3
  <1>9. ASSUME faults' \cap {"blind", "leftover"} = {} PROVE Gone' /\ Owned'
    <2>1. faults \cap {"blind", "leftover"} = {}
      BY <1>9 DEF ReleaseUnlinkFails, At, Goto, Leave, Note
    <2>2. Gone'
      BY <1>4, <1>9, <2>1 DEF IInv, TypeOK, Resting, Apart, Alone, Active, Busy,
         Attempting, Gone, ReleaseUnlinkFails, At, Goto, Leave, Note
    <2>3. Owned'
      BY <1>4, <1>9, <2>1 DEF IInv, TypeOK, Resting, RecordInv, Apart, Alone, Active,
         Busy, Attempting, Current, Writing, Gone, Owned, Names, ReleaseUnlinkFails, At,
         Goto, Leave, Note, CreatedBy, ReadRecord, Stamp, Mine, ExistingIsLive,
         Incomparable, NoRecord
    <2> QED BY <2>2, <2>3
  <1> QED BY <1>5, <1>6, <1>7, <1>8, <1>9 DEF Apart

(* A process that dies leaves a record nobody alive stands behind. *)
LEMMA CrashStep ==
    ASSUME IInv, NEW p \in Pids, Crash(p)
    PROVE  IInv'
  <1>1. TypeOK'
    BY CredentialLockAssumptions DEF IInv, TypeOK, Crash, At, Goto, Leave, Faults,
       ReadRecord, Stamp, Attempting, CreatedBy
  <1>2. RecordInv'
    BY DEF IInv, TypeOK, RecordInv, Crash, At, Goto, Leave, CreatedBy
  <1>r. Resting'
    BY DEF IInv, TypeOK, Resting, Crash, At, Goto, Leave
  <1>3. SUFFICES ASSUME "overlap" \notin faults' PROVE Apart'
    BY <1>1, <1>2, <1>r DEF IInv
  <1>4. "overlap" \notin faults
    BY <1>3 DEF Crash, At, Goto, Leave
  <1>5. Alone'
    BY <1>3, <1>4 DEF IInv, TypeOK, Resting, Apart, Alone, Active, Busy, Attempting,
       Crash, At, Goto, Leave
  <1>6. Current'
    BY <1>4 DEF IInv, TypeOK, Resting, Apart, Alone, Active, Busy, Attempting, Current,
       Crash, At, Goto, Leave, ReadRecord, Stamp
  <1>7. Writing'
    BY <1>4 DEF IInv, TypeOK, Resting, Apart, Alone, Active, Busy, Attempting, Writing,
       Crash, At, Goto, Leave, CreatedBy
  <1>8. ASSUME "misread" \notin faults' PROVE Recorded' /\ Clear'
    <2>1. "misread" \notin faults
      BY <1>8 DEF Crash, At, Goto, Leave
    <2>2. Recorded'
      BY <1>4, <1>8, <2>1 DEF IInv, TypeOK, Resting, Apart, Alone, Active, Busy,
         Attempting, Current, Writing, Recorded, Clear, Names, Crash, At, Goto, Leave,
         CreatedBy, ReadRecord, Stamp, Mine, ExistingIsLive, Incomparable, NoRecord
    <2>3. Clear'
      BY <1>4, <1>8, <2>1 DEF IInv, TypeOK, Resting, Apart, Alone, Active, Busy,
         Attempting, Current, Writing, Recorded, Clear, Names, Crash, At, Goto, Leave,
         CreatedBy, ReadRecord, Stamp, Mine, ExistingIsLive, Incomparable, NoRecord
    <2> QED BY <2>2, <2>3
  <1>9. ASSUME faults' \cap {"blind", "leftover"} = {} PROVE Gone' /\ Owned'
    <2>1. faults \cap {"blind", "leftover"} = {}
      BY <1>9 DEF Crash, At, Goto, Leave
    <2>2. Gone'
      BY <1>4, <1>9, <2>1 DEF IInv, TypeOK, Resting, Apart, Alone, Active, Busy,
         Attempting, Gone, Crash, At, Goto, Leave
    <2>3. Owned'
      BY <1>4, <1>9, <2>1 DEF IInv, TypeOK, Resting, RecordInv, Apart, Alone, Active,
         Busy, Attempting, Current, Writing, Gone, Owned, Names, Crash, At, Goto, Leave,
         CreatedBy, ReadRecord, Stamp, Mine, ExistingIsLive, Incomparable, NoRecord
    <2> QED BY <2>2, <2>3
  <1> QED BY <1>5, <1>6, <1>7, <1>8, <1>9 DEF Apart

(* A new process with a pid used before differs from the record in its start. *)
LEMMA SpawnStep ==
    ASSUME IInv, NEW p \in Pids, Spawn(p)
    PROVE  IInv'
  <1>1. TypeOK'
    BY CredentialLockAssumptions DEF IInv, TypeOK, Spawn, At, Faults, ReadRecord, Stamp,
       Attempting, CreatedBy
  <1>2. RecordInv'
    BY DEF IInv, TypeOK, RecordInv, Spawn, At, CreatedBy
  <1>r. Resting'
    BY DEF IInv, TypeOK, Resting, Spawn, At
  <1>3. SUFFICES ASSUME "overlap" \notin faults' PROVE Apart'
    BY <1>1, <1>2, <1>r DEF IInv
  <1>4. "overlap" \notin faults
    BY <1>3 DEF Spawn, At
  <1>5. Alone'
    BY <1>3, <1>4 DEF IInv, TypeOK, Resting, Apart, Alone, Active, Busy, Attempting,
       Spawn, At
  <1>6. Current'
    BY <1>4 DEF IInv, TypeOK, Resting, Apart, Alone, Active, Busy, Attempting, Current,
       Spawn, At, ReadRecord, Stamp
  <1>7. Writing'
    BY <1>4 DEF IInv, TypeOK, Resting, Apart, Alone, Active, Busy, Attempting, Writing,
       Spawn, At, CreatedBy
  <1>8. ASSUME "misread" \notin faults' PROVE Recorded' /\ Clear'
    <2>1. "misread" \notin faults
      BY <1>8 DEF Spawn, At
    <2>2. Recorded'
      BY <1>4, <1>8, <2>1 DEF IInv, TypeOK, Resting, Apart, Alone, Active, Busy,
         Attempting, Current, Writing, Recorded, Clear, Names, Spawn, At, CreatedBy,
         ReadRecord, Stamp, Mine, ExistingIsLive, Incomparable, NoRecord
    <2>3. Clear'
      BY <1>4, <1>8, <2>1 DEF IInv, TypeOK, Resting, Apart, Alone, Active, Busy,
         Attempting, Current, Writing, Recorded, Clear, Names, Spawn, At, CreatedBy,
         ReadRecord, Stamp, Mine, ExistingIsLive, Incomparable, NoRecord
    <2> QED BY <2>2, <2>3
  <1>9. ASSUME faults' \cap {"blind", "leftover"} = {} PROVE Gone' /\ Owned'
    <2>1. faults \cap {"blind", "leftover"} = {}
      BY <1>9 DEF Spawn, At
    <2>2. Gone'
      BY <1>4, <1>9, <2>1 DEF IInv, TypeOK, Resting, Apart, Alone, Active, Busy,
         Attempting, Gone, Spawn, At
    <2>3. Owned'
      BY <1>4, <1>9, <2>1 DEF IInv, TypeOK, Resting, RecordInv, Apart, Alone, Active,
         Busy, Attempting, Current, Writing, Gone, Owned, Names, Spawn, At, CreatedBy,
         ReadRecord, Stamp, Mine, ExistingIsLive, Incomparable, NoRecord
    <2> QED BY <2>2, <2>3
  <1> QED BY <1>5, <1>6, <1>7, <1>8, <1>9 DEF Apart

(* Every step keeps the invariant. *)
LEMMA NextIInv == IInv /\ [Next]_vars => IInv'
  <1> SUFFICES ASSUME IInv, [Next]_vars PROVE IInv' OBVIOUS
  <1>1. CASE UNCHANGED vars
    BY <1>1 DEF vars, IInv, TypeOK, RecordInv, Resting, Apart, Alone, Current, Writing,
       Recorded, Clear, Gone, Owned, Active, Names, ReadRecord, CreatedBy
  <1>2. CASE Next
    BY <1>2, BeginStep, ReadStep, ReadFailsStep, DecideNoRecordStep, DecideMineStep,
       DecideMineRaisesStep, DecideOtherStep, UnlinkStep, UnlinkFailsStep, CreateStep,
       AcquireRaisesStep, WriteStep, WriteRaisesStep, ReleaseReadStep,
       ReleaseReadFailsStep, ReleaseUnlinkStep, ReleaseUnlinkFailsStep, CrashStep,
       SpawnStep DEF Next, Step
  <1> QED BY <1>1, <1>2

(* The invariant holds throughout. *)
LEMMA InvariantHolds == Spec => []IInv
  BY InitIInv, NextIInv, PTL DEF Spec

(* The lock file, and what a process read of it, keep their types. *)
THEOREM TypeCorrect == Spec => []TypeOK
  <1>1. IInv => TypeOK BY DEF IInv
  <1> QED BY <1>1, InvariantHolds, PTL

(* acquire_scoped_lock gives the lock to one process at a time, for any number of
   processes, deaths, torn writes, recycled pids, start times that are not available
   and unlinks that fail, as long as no two lock operations overlap and the record
   of a live owner is read right.                                           *)
THEOREM OneHolderIfApartHolds == Spec => []OneHolderIfApart
  <1>1. IInv => OneHolderIfApart
    BY DEF IInv, Apart, Recorded, Names, OneHolderIfApart, AtMostOneHolder, Holders, At
  <1> QED BY <1>1, InvariantHolds, PTL

(* Who is refused after it ran alone has read the record of a live process. *)
LEMMA RefusedStep ==
    ASSUME IInv, [Next]_vars, NEW p \in Pids, pc[p] # "refused", pc'[p] = "refused",
           faults' \cap {"overlap", "blind", "leftover"} = {}
    PROVE  \E q \in Pids \ {p} : Names(q) /\ alive[q] /\ pc[q] \in {"holding", "failed"}
  <1>1. faults \subseteq faults'
    BY DEF Next, Step, Begin, ReleaseRead, ReleaseReadFails, Crash, Spawn, vars,
       Read, ReadFails, DecideNoRecord, DecideMine, DecideMineRaises, DecideOther, Unlink,
       UnlinkFails, Create, AcquireRaises, Write, WriteRaises, ReleaseUnlink,
       ReleaseUnlinkFails, Note, NoteOverlap
  <1>2. /\ "overlap" \notin faults /\ faults \cap {"blind", "leftover"} = {}
        /\ "blind" \notin faults'
    BY <1>1
  <1>3. DecideOther(p) \/ Create(p)
    <2>1. CASE UNCHANGED vars
      BY <2>1 DEF vars
    <2>2. ASSUME NEW q \in Pids, Step(q) \/ Begin(q) \/ ReleaseRead(q) \/ ReleaseReadFails(q)
                                   \/ Crash(q) \/ Spawn(q)
          PROVE  q = p /\ (DecideOther(q) \/ Create(q))
      <3>1. CASE DecideOther(q) \/ Create(q)
        BY <3>1 DEF IInv, TypeOK, DecideOther, Create, Goto, Leave
      <3>2. CASE Read(q) \/ ReadFails(q) \/ DecideNoRecord(q) \/ Unlink(q) \/ UnlinkFails(q)
                   \/ Begin(q) \/ ReleaseRead(q) \/ Spawn(q)
        BY <3>2 DEF IInv, TypeOK, Read, ReadFails, DecideNoRecord, Unlink, UnlinkFails,
           Begin,
           ReleaseRead, Spawn, Goto
      <3>3. CASE DecideMine(q) \/ DecideMineRaises(q) \/ AcquireRaises(q) \/ Write(q)
                   \/ WriteRaises(q) \/ ReleaseUnlink(q) \/ ReleaseUnlinkFails(q)
                   \/ ReleaseReadFails(q) \/ Crash(q)
        BY <3>3 DEF IInv, TypeOK, DecideMine, DecideMineRaises, AcquireRaises, Write,
           WriteRaises, ReleaseUnlink, ReleaseUnlinkFails, ReleaseReadFails, Crash, Leave, Goto
      <3> QED BY <2>2, <3>1, <3>2, <3>3 DEF Step
    <2> QED BY <2>1, <2>2 DEF Next
  <1>4. CASE Create(p)
    BY <1>2, <1>4 DEF IInv, TypeOK, Apart, Gone, Create, At, Goto
  <1>5. CASE DecideOther(p)
    <2>1. PICK now \in Clocks \cup {NoClock} :
            ExistingIsLive(seen[p], now) /\ ~Incomparable(p, seen[p], now)
      BY <1>2, <1>5 DEF IInv, TypeOK, DecideOther, Goto, Note
    <2>2. seen[p] = ReadRecord /\ seen[p] # NoRecord /\ ~Mine(p, seen[p])
      BY <1>2, <1>5 DEF IInv, Apart, Current, DecideOther, At
    <2>3. /\ file # NoFile /\ file.written /\ seen[p].pid = file.pid
          /\ seen[p].start = Stamp(file.start, file.clock) /\ seen[p].clock = file.clock
      BY <2>2 DEF ReadRecord
    <2>4. PICK q \in Pids : file.pid = q
      BY <2>3 DEF IInv, TypeOK
    <2>5. /\ alive[q] /\ file.clock = now /\ now # NoClock /\ file.start = started[q]
          /\ q = p => own[p] = file.clock
      BY <2>1, <2>3, <2>4 DEF ExistingIsLive, Incomparable, Stamp
    <2>6. q # p
      BY <2>2, <2>3, <2>4, <2>5 DEF Mine, Stamp
    <2>7. Names(q)
      BY <2>3, <2>4, <2>5 DEF Names
    <2>8. pc[q] \notin Busy
      BY <1>2, <1>5, <2>5, <2>6 DEF IInv, Apart, Alone, Active, Busy, Attempting,
         DecideOther, At
    <2>9. pc[q] \in {"holding", "failed"}
      BY <1>2, <2>5, <2>7, <2>8 DEF IInv, Apart, Owned, Busy, Attempting
    <2> QED BY <2>5, <2>6, <2>7, <2>9
  <1> QED BY <1>3, <1>4, <1>5

(* acquire_scoped_lock turns an attempt that runs alone away only while another
   live process has the lock or was given an error, if unlinks work and start times
   compare: dead owners, half-written files, reused pids and records that could not
   be read never block a credential.                                        *)
THEOREM RefusedOnlyIfHeldHolds == Spec => RefusedOnlyIfHeld
  <1>1. IInv /\ [Next]_vars =>
          [\A p \in Pids :
              pc[p] # "refused" /\ pc'[p] = "refused"
                /\ faults' \cap {"overlap", "blind", "leftover"} = {} =>
                  \E q \in Pids \ {p} :
                      Names(q) /\ alive[q] /\ pc[q] \in {"holding", "failed"}]_vars
    BY RefusedStep
  <1> QED BY <1>1, InvariantHolds, PTL DEF Spec, RefusedOnlyIfHeld
=============================================================================
