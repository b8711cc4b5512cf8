------------------------ MODULE ResponseQueueProofs ------------------------
(***************************************************************************)
(* Proofs about ResponseQueue, for any set of requests.                     *)
(***************************************************************************)
EXTENDS ResponseQueue, TLAPS

(* While operations do not overlap, the one that is under way has read what is
   in the file.                                                             *)
Alone ==
    overlapped \/ \A a \in Actors : Inside(a) =>
        /\ seen[a] = file
        /\ \A b \in Actors : Inside(b) => b = a

(* What is about to be removed has been sent, or could not be encoded. *)
RemovesSent ==
    \A a \in Actors : stage[a] \in {"sent", "removing"} => Target(a) \in sent \cup Oversized

IInv == TypeOK /\ Alone /\ RemovesSent /\ AnsweredIsKept

(* The type invariant without its truth values. *)
Typed ==
    /\ file \subseteq Requests /\ sent \subseteq Requests /\ erred \subseteq Requests
    /\ seen \in [Actors -> SUBSET Requests]
    /\ stage \in [Actors -> {"none", "working", "enqueuing", "queued", "sent", "removing",
                            "done", "dropped", "off", "due", "next"}]
    /\ \A r \in Requests : stage[r] \notin {"off", "due", "next"}
    /\ stage[Flush] \in {"off", "due", "next", "sent", "removing"}
    /\ item \in Requests \cup {None} /\ todo \subseteq Requests
    /\ stage[Flush] = "next" => todo # {}
    /\ stage[Flush] \in {"sent", "removing"} => item # None
    /\ closes \in 0..MaxCloses /\ crashes \in 0..MaxCrashes /\ faults \in 0..MaxFaults

-----------------------------------------------------------------------------
(* The initial state is sound. *)
LEMMA InitIInv == Init => IInv
  <1> SUFFICES ASSUME Init PROVE IInv OBVIOUS
  <1>1. Typed
    BY ResponseQueueAssumptions DEF Init, Typed, Actors
  <1>2. TypeOK
    BY <1>1, Zenon DEF Init, Typed, TypeOK
  <1>3. Alone /\ RemovesSent /\ AnsweredIsKept
    BY ResponseQueueAssumptions DEF Init, Alone, RemovesSent, AnsweredIsKept, Inside,
       Actors
  <1> QED BY <1>2, <1>3 DEF IInv

(* A request that comes in has no answer yet. *)
LEMMA ReceiveStep ==
    ASSUME IInv, NEW r \in Requests, Receive(r)
    PROVE  IInv'
  <1>1. Typed'
    BY ResponseQueueAssumptions DEF IInv, TypeOK, Typed, Actors, Receive, Goto,
       bounds, flushing
  <1>2. TypeOK'
    BY <1>1, Zenon DEF IInv, TypeOK, Typed, Receive, Goto
  <1>3. Alone'
    BY ResponseQueueAssumptions DEF IInv, TypeOK, Alone, Inside, Actors, Receive, Goto
  <1>4. RemovesSent'
    BY ResponseQueueAssumptions DEF IInv, TypeOK, RemovesSent, Target, Actors,
       Receive, Goto, flushing
  <1>5. AnsweredIsKept'
    BY ResponseQueueAssumptions DEF IInv, TypeOK, Alone, RemovesSent, AnsweredIsKept,
       Inside, Target, Actors, Receive, Goto
  <1> QED BY <1>2, <1>3, <1>4, <1>5 DEF IInv

(* The list is read while nobody else is inside, or the overlap is recorded. *)
LEMMA EnqueueReadsStep ==
    ASSUME IInv, NEW r \in Requests, EnqueueReads(r)
    PROVE  IInv'
  <1>1. Typed'
    BY ResponseQueueAssumptions DEF IInv, TypeOK, Typed, Actors, EnqueueReads, Goto,
       ReadList, bounds, flushing
  <1>2. TypeOK'
    BY <1>1, Zenon DEF IInv, TypeOK, Typed, EnqueueReads, Goto, ReadList
  <1>3. Alone'
    BY ResponseQueueAssumptions DEF IInv, TypeOK, Alone, Inside, Actors, EnqueueReads,
       Goto, ReadList
  <1>4. RemovesSent'
    BY ResponseQueueAssumptions DEF IInv, TypeOK, RemovesSent, Target, Actors,
       EnqueueReads, Goto, ReadList, flushing
  <1>5. AnsweredIsKept'
    BY ResponseQueueAssumptions DEF IInv, TypeOK, Alone, RemovesSent, AnsweredIsKept,
       Inside, Target, Actors, EnqueueReads, Goto, ReadList
  <1> QED BY <1>2, <1>3, <1>4, <1>5 DEF IInv

(* Alone, the write adds the answer to what is in the file. *)
LEMMA EnqueueWritesStep ==
    ASSUME IInv, NEW r \in Requests, EnqueueWrites(r)
    PROVE  IInv'
  <1>1. Typed'
    BY ResponseQueueAssumptions DEF IInv, TypeOK, Typed, Actors, EnqueueWrites, Goto,
       Forget, bounds, flushing
  <1>2. TypeOK'
    BY <1>1, Zenon DEF IInv, TypeOK, Typed, EnqueueWrites, Goto, Forget
  <1>3. Alone'
    BY ResponseQueueAssumptions DEF IInv, TypeOK, Alone, Inside, Actors,
       EnqueueWrites, Goto, Forget
  <1>4. RemovesSent'
    BY ResponseQueueAssumptions DEF IInv, TypeOK, RemovesSent, Target, Actors,
       EnqueueWrites, Goto, Forget, flushing
  <1>5. AnsweredIsKept'
    BY ResponseQueueAssumptions DEF IInv, TypeOK, Alone, RemovesSent, AnsweredIsKept,
       Inside, Target, Actors, EnqueueWrites, Goto, Forget
  <1> QED BY <1>2, <1>3, <1>4, <1>5 DEF IInv

(* A write that fails leaves the file, and the answer is not queued. *)
LEMMA EnqueueFailsStep ==
    ASSUME IInv, NEW r \in Requests, EnqueueFails(r)
    PROVE  IInv'
  <1>1. Typed'
    BY ResponseQueueAssumptions DEF IInv, TypeOK, Typed, Actors, EnqueueFails, Goto,
       Fault, Forget, bounds, flushing
  <1>2. TypeOK'
    BY <1>1, Zenon DEF IInv, TypeOK, Typed, EnqueueFails, Goto, Fault, Forget
  <1>3. Alone'
    BY ResponseQueueAssumptions DEF IInv, TypeOK, Alone, Inside, Actors, EnqueueFails,
       Goto, Fault, Forget
  <1>4. RemovesSent'
    BY ResponseQueueAssumptions DEF IInv, TypeOK, RemovesSent, Target, Actors,
       EnqueueFails, Goto, Fault, Forget, flushing
  <1>5. AnsweredIsKept'
    BY ResponseQueueAssumptions DEF IInv, TypeOK, Alone, RemovesSent, AnsweredIsKept,
       Inside, Target, Actors, EnqueueFails, Goto, Fault, Forget
  <1> QED BY <1>2, <1>3, <1>4, <1>5 DEF IInv

(* What goes on to its removal has been put on the socket or cannot be
   encoded.                                                                 *)
LEMMA SendStep ==
    ASSUME IInv, NEW r \in Requests, Send(r)
    PROVE  IInv'
  <1>1. Typed'
    BY ResponseQueueAssumptions DEF IInv, TypeOK, Typed, Actors, Send, Goto, bounds,
       flushing
  <1>2. TypeOK'
    BY <1>1, Zenon DEF IInv, TypeOK, Typed, Send, Goto
  <1>3. Alone'
    BY ResponseQueueAssumptions DEF IInv, TypeOK, Alone, Inside, Actors, Send, Goto
  <1>4. RemovesSent'
    BY ResponseQueueAssumptions DEF IInv, TypeOK, RemovesSent, Target, Actors, Send,
       Goto, flushing
  <1>5. AnsweredIsKept'
    BY ResponseQueueAssumptions DEF IInv, TypeOK, Alone, RemovesSent, AnsweredIsKept,
       Inside, Target, Actors, Send, Goto
  <1> QED BY <1>2, <1>3, <1>4, <1>5 DEF IInv

(* The list is read while nobody else is inside, or the overlap is recorded. *)
LEMMA RemoveReadsStep ==
    ASSUME IInv, NEW c \in Actors, RemoveReads(c)
    PROVE  IInv'
  <1>1. Typed'
    BY ResponseQueueAssumptions DEF IInv, TypeOK, Typed, Actors, RemoveReads, Goto,
       ReadList, bounds, flushing
  <1>2. TypeOK'
    BY <1>1, Zenon DEF IInv, TypeOK, Typed, RemoveReads, Goto, ReadList
  <1>3. Alone'
    BY ResponseQueueAssumptions DEF IInv, TypeOK, Alone, Inside, Actors, RemoveReads,
       Goto, ReadList
  <1>4. RemovesSent'
    BY ResponseQueueAssumptions DEF IInv, TypeOK, RemovesSent, Target, Actors,
       RemoveReads, Goto, ReadList, flushing
  <1>5. AnsweredIsKept'
    BY ResponseQueueAssumptions DEF IInv, TypeOK, Alone, RemovesSent, AnsweredIsKept,
       Inside, Target, Actors, RemoveReads, Goto, ReadList
  <1> QED BY <1>2, <1>3, <1>4, <1>5 DEF IInv

(* What is not in the file needs no removal. *)
LEMMA RemoveFindsNoneStep ==
    ASSUME IInv, NEW c \in Actors, RemoveFindsNone(c)
    PROVE  IInv'
  <1>1. Typed'
    BY ResponseQueueAssumptions DEF IInv, TypeOK, Typed, Actors, RemoveFindsNone,
       Goto, AfterRemove, bounds, flushing
  <1>2. TypeOK'
    BY <1>1, Zenon DEF IInv, TypeOK, Typed, RemoveFindsNone, Goto, AfterRemove
  <1>3. Alone'
    BY ResponseQueueAssumptions DEF IInv, TypeOK, Alone, Inside, Actors,
       RemoveFindsNone, Goto, AfterRemove
  <1>4. RemovesSent'
    BY ResponseQueueAssumptions DEF IInv, TypeOK, RemovesSent, Target, Actors,
       RemoveFindsNone, Goto, AfterRemove, flushing
  <1>5. AnsweredIsKept'
    BY ResponseQueueAssumptions DEF IInv, TypeOK, Alone, RemovesSent, AnsweredIsKept,
       Inside, Target, Actors, RemoveFindsNone, Goto, AfterRemove
  <1> QED BY <1>2, <1>3, <1>4, <1>5 DEF IInv

(* Alone, the write drops nothing but an answer that was sent. *)
LEMMA RemoveWritesStep ==
    ASSUME IInv, NEW c \in Actors, RemoveWrites(c)
    PROVE  IInv'
  <1>1. Typed'
    BY ResponseQueueAssumptions DEF IInv, TypeOK, Typed, Actors, RemoveWrites, Goto,
       AfterRemove, Forget, bounds, flushing
  <1>2. TypeOK'
    BY <1>1, Zenon DEF IInv, TypeOK, Typed, RemoveWrites, Goto, AfterRemove, Forget
  <1>3. Alone'
    BY ResponseQueueAssumptions DEF IInv, TypeOK, Alone, Inside, Actors, RemoveWrites,
       Goto, AfterRemove, Forget
  <1>4. RemovesSent'
    BY ResponseQueueAssumptions DEF IInv, TypeOK, RemovesSent, Target, Actors,
       RemoveWrites, Goto, AfterRemove, Forget, flushing
  <1>5. AnsweredIsKept'
    BY ResponseQueueAssumptions DEF IInv, TypeOK, Alone, RemovesSent, AnsweredIsKept,
       Inside, Target, Actors, RemoveWrites, Goto, AfterRemove, Forget
  <1> QED BY <1>2, <1>3, <1>4, <1>5 DEF IInv

(* A removal that fails leaves the answer in the file. *)
LEMMA RemoveFailsStep ==
    ASSUME IInv, NEW c \in Actors, RemoveFails(c)
    PROVE  IInv'
  <1>1. Typed'
    BY ResponseQueueAssumptions DEF IInv, TypeOK, Typed, Actors, RemoveFails, Goto,
       Fault, Forget, bounds, flushing
  <1>2. TypeOK'
    BY <1>1, Zenon DEF IInv, TypeOK, Typed, RemoveFails, Goto, Fault, Forget
  <1>3. Alone'
    BY ResponseQueueAssumptions DEF IInv, TypeOK, Alone, Inside, Actors, RemoveFails,
       Goto, Fault, Forget
  <1>4. RemovesSent'
    BY ResponseQueueAssumptions DEF IInv, TypeOK, RemovesSent, Target, Actors,
       RemoveFails, Goto, Fault, Forget, flushing
  <1>5. AnsweredIsKept'
    BY ResponseQueueAssumptions DEF IInv, TypeOK, Alone, RemovesSent, AnsweredIsKept,
       Inside, Target, Actors, RemoveFails, Goto, Fault, Forget
  <1> QED BY <1>2, <1>3, <1>4, <1>5 DEF IInv

(* A new connection starts a flush that has nothing in hand. *)
LEMMA ConnectStep ==
    ASSUME IInv, Connect
    PROVE  IInv'
  <1>1. Typed'
    BY ResponseQueueAssumptions DEF IInv, TypeOK, Typed, Actors, Connect, Goto,
       bounds, flushing
  <1>2. TypeOK'
    BY <1>1, Zenon DEF IInv, TypeOK, Typed, Connect, Goto
  <1>3. Alone'
    BY ResponseQueueAssumptions DEF IInv, TypeOK, Alone, Inside, Actors, Connect, Goto
  <1>4. RemovesSent'
    BY ResponseQueueAssumptions DEF IInv, TypeOK, RemovesSent, Target, Actors,
       Connect, Goto, flushing
  <1>5. AnsweredIsKept'
    BY ResponseQueueAssumptions DEF IInv, TypeOK, Alone, RemovesSent, AnsweredIsKept,
       Inside, Target, Actors, Connect, Goto
  <1> QED BY <1>2, <1>3, <1>4, <1>5 DEF IInv

(* A flush that does not begin changes nothing. *)
LEMMA ReplayFailsStep ==
    ASSUME IInv, ReplayFails
    PROVE  IInv'
  <1>1. Typed'
    BY ResponseQueueAssumptions DEF IInv, TypeOK, Typed, Actors, ReplayFails, Goto,
       bounds, flushing
  <1>2. TypeOK'
    BY <1>1, Zenon DEF IInv, TypeOK, Typed, ReplayFails, Goto
  <1>3. Alone'
    BY ResponseQueueAssumptions DEF IInv, TypeOK, Alone, Inside, Actors, ReplayFails,
       Goto
  <1>4. RemovesSent'
    BY ResponseQueueAssumptions DEF IInv, TypeOK, RemovesSent, Target, Actors,
       ReplayFails, Goto, flushing
  <1>5. AnsweredIsKept'
    BY ResponseQueueAssumptions DEF IInv, TypeOK, Alone, RemovesSent, AnsweredIsKept,
       Inside, Target, Actors, ReplayFails, Goto
  <1> QED BY <1>2, <1>3, <1>4, <1>5 DEF IInv

(* The flush only reads the file. *)
LEMMA FlushListsStep ==
    ASSUME IInv, FlushLists
    PROVE  IInv'
  <1>1. Typed'
    BY ResponseQueueAssumptions DEF IInv, TypeOK, Typed, Actors, FlushLists, Goto,
       bounds, flushing
  <1>2. TypeOK'
    BY <1>1, Zenon DEF IInv, TypeOK, Typed, FlushLists, Goto
  <1>3. Alone'
    BY ResponseQueueAssumptions DEF IInv, TypeOK, Alone, Inside, Actors, FlushLists,
       Goto
  <1>4. RemovesSent'
    BY ResponseQueueAssumptions DEF IInv, TypeOK, RemovesSent, Target, Actors,
       FlushLists, Goto, flushing
  <1>5. AnsweredIsKept'
    BY ResponseQueueAssumptions DEF IInv, TypeOK, Alone, RemovesSent, AnsweredIsKept,
       Inside, Target, Actors, FlushLists, Goto
  <1> QED BY <1>2, <1>3, <1>4, <1>5 DEF IInv

(* The flush sends an answer before it removes it. *)
LEMMA FlushSendsStep ==
    ASSUME IInv, NEW r \in Requests, FlushSends(r)
    PROVE  IInv'
  <1>1. Typed'
    BY ResponseQueueAssumptions DEF IInv, TypeOK, Typed, Actors, FlushSends, Goto,
       bounds, flushing
  <1>2. TypeOK'
    BY <1>1, Zenon DEF IInv, TypeOK, Typed, FlushSends, Goto
  <1>3. Alone'
    BY ResponseQueueAssumptions DEF IInv, TypeOK, Alone, Inside, Actors, FlushSends,
       Goto
  <1>4. RemovesSent'
    BY ResponseQueueAssumptions DEF IInv, TypeOK, RemovesSent, Target, Actors,
       FlushSends, Goto, flushing
  <1>5. AnsweredIsKept'
    BY ResponseQueueAssumptions DEF IInv, TypeOK, Alone, RemovesSent, AnsweredIsKept,
       Inside, Target, Actors, FlushSends, Goto
  <1> QED BY <1>2, <1>3, <1>4, <1>5 DEF IInv

(* A flush that stops leaves the file. *)
LEMMA FlushStopsStep ==
    ASSUME IInv, FlushStops
    PROVE  IInv'
  <1>1. Typed'
    BY ResponseQueueAssumptions DEF IInv, TypeOK, Typed, Actors, FlushStops, Goto,
       bounds, flushing
  <1>2. TypeOK'
    BY <1>1, Zenon DEF IInv, TypeOK, Typed, FlushStops, Goto
  <1>3. Alone'
    BY ResponseQueueAssumptions DEF IInv, TypeOK, Alone, Inside, Actors, FlushStops,
       Goto
  <1>4. RemovesSent'
    BY ResponseQueueAssumptions DEF IInv, TypeOK, RemovesSent, Target, Actors,
       FlushStops, Goto, flushing
  <1>5. AnsweredIsKept'
    BY ResponseQueueAssumptions DEF IInv, TypeOK, Alone, RemovesSent, AnsweredIsKept,
       Inside, Target, Actors, FlushStops, Goto
  <1> QED BY <1>2, <1>3, <1>4, <1>5 DEF IInv

(* A lost connection takes nothing off the file. *)
LEMMA CloseStep ==
    ASSUME IInv, Close
    PROVE  IInv'
  <1>1. Typed'
    BY ResponseQueueAssumptions DEF IInv, TypeOK, Typed, Actors, Close, bounds,
       flushing
  <1>2. TypeOK'
    BY <1>1, Zenon DEF IInv, TypeOK, Typed, Close
  <1>3. Alone'
    BY ResponseQueueAssumptions DEF IInv, TypeOK, Alone, Inside, Actors, Close
  <1>4. RemovesSent'
    BY ResponseQueueAssumptions DEF IInv, TypeOK, RemovesSent, Target, Actors, Close,
       flushing
  <1>5. AnsweredIsKept'
    BY ResponseQueueAssumptions DEF IInv, TypeOK, Alone, RemovesSent, AnsweredIsKept,
       Inside, Target, Actors, Close
  <1> QED BY <1>2, <1>3, <1>4, <1>5 DEF IInv

(* A death ends every operation and leaves the file as last written. *)
LEMMA CrashStep ==
    ASSUME IInv, Crash
    PROVE  IInv'
  <1>1. Typed'
    <2>1. stage'[Flush] = "off"
      BY DEF Crash, AfterCrash, Actors
    <2>2. ASSUME NEW r \in Requests
          PROVE  stage'[r] \in {"none", "dropped", "done"}
      <3>1. stage[r] \in {"none", "working", "enqueuing", "queued", "sent", "removing",
                          "done", "dropped"}
        BY DEF IInv, TypeOK, Actors
      <3>2. stage'[r] = AfterCrash(r) /\ r # Flush
        BY ResponseQueueAssumptions DEF Crash, Actors
      <3> QED BY <3>1, <3>2 DEF AfterCrash
    <2>3. stage' \in [Actors -> {"none", "dropped", "done", "off"}]
      BY <2>1, <2>2 DEF Crash, Actors
    <2> QED BY <2>1, <2>2, <2>3, ResponseQueueAssumptions DEF IInv, TypeOK, Typed,
               Crash, Actors, flushing
  <1>2. TypeOK'
    BY <1>1, Zenon DEF IInv, TypeOK, Typed, Crash, AfterCrash
  <1>3. Alone'
    BY ResponseQueueAssumptions DEF IInv, TypeOK, Alone, Inside, Actors, Crash,
       AfterCrash
  <1>4. RemovesSent'
    BY ResponseQueueAssumptions DEF IInv, TypeOK, RemovesSent, Target, Actors, Crash,
       AfterCrash, flushing
  <1>5. AnsweredIsKept'
    BY ResponseQueueAssumptions DEF IInv, TypeOK, Alone, RemovesSent, AnsweredIsKept,
       Inside, Target, Actors, Crash, AfterCrash
  <1> QED BY <1>2, <1>3, <1>4, <1>5 DEF IInv

(* Every step preserves the invariant. *)
LEMMA NextIInv == IInv /\ [Next]_vars => IInv'
  <1> SUFFICES ASSUME IInv, [Next]_vars PROVE IInv' OBVIOUS
  <1>1. ASSUME NEW a \in Actors, Remove(a) \/ RemoveFails(a) PROVE IInv'
    BY <1>1, RemoveReadsStep, RemoveFindsNoneStep, RemoveWritesStep, RemoveFailsStep
       DEF Remove
  <1>2. ASSUME NEW r \in Requests, Receive(r) \/ Handler(r) \/ EnqueueFails(r)
        PROVE  IInv'
    BY <1>1, <1>2, ReceiveStep, EnqueueReadsStep, EnqueueWritesStep, SendStep,
       EnqueueFailsStep DEF Handler, Actors
  <1>3. CASE Connection
    BY <1>1, <1>3, ConnectStep, ReplayFailsStep, FlushListsStep, FlushStopsStep,
       FlushSendsStep DEF Connection, Actors
  <1>4. CASE UNCHANGED vars
    BY <1>4 DEF vars, IInv, TypeOK, Alone, RemovesSent, AnsweredIsKept, Inside, Target
  <1> QED BY <1>1, <1>2, <1>3, <1>4, CloseStep, CrashStep DEF Next

(* The invariant holds in every state. *)
LEMMA InvariantHolds == Spec => []IInv
  BY InitIInv, NextIInv, PTL DEF Spec

(* Type correctness of the queue's state. *)
THEOREM TypeCorrect == Spec => []TypeOK
  <1>1. IInv => TypeOK
    BY DEF IInv
  <1> QED BY <1>1, InvariantHolds, PTL

(* Whatever the connection does and whenever the process dies, a queued answer
   is sent or kept, if the operations on the file are kept apart.            *)
THEOREM AnswersAreKept == Spec => []AnsweredIsKept
  <1>1. IInv => AnsweredIsKept
    BY DEF IInv
  <1> QED BY <1>1, InvariantHolds, PTL
=============================================================================
