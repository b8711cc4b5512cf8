--------------------------- MODULE ResponseQueue ---------------------------
(***************************************************************************)
(* The answers a gateway owes the cloud: sendResponse writes each answer to *)
(* pending-responses.json before it tries the socket and removes it once it *)
(* is out; connect() flushes what is left (empyralis-gateway/src/           *)
(* cloud/ws-client.ts, state/pending-responses.ts, state/db.ts).            *)
(*                                                                          *)
(* The requests of the cloud are handled side by side.  An operation on the *)
(* file reads the whole list, awaits, and writes a whole list; only the     *)
(* writes are put in a line, so what was written in between is written over. *)
(*                                                                          *)
(* Which of the queued answers a flush takes first is left open.            *)
(*                                                                          *)
(* Left out: a list that cannot be parsed, which readJson sets aside.  Each *)
(* write goes to a file of its own that is then renamed, so no death of the *)
(* process leaves one; the death of the machine before its disk has the     *)
(* contents could.                                                          *)
(***************************************************************************)
EXTENDS Naturals, FiniteSets

CONSTANTS Requests,
          Flush,        \* the flush of connect(), at most one at a time
          None,
          Oversized,    \* requests whose answer exceeds MAX_FRAME_BYTES
          MaxCloses,    \* bound: connections lost
          MaxCrashes,   \* bound: deaths of the process
          MaxFaults     \* bound: reads and writes of the file that fail

ASSUME ResponseQueueAssumptions ==
    /\ Flush \notin Requests /\ None \notin Requests
    /\ Oversized \subseteq Requests
    /\ MaxCloses \in Nat /\ MaxCrashes \in Nat /\ MaxFaults \in Nat

VARIABLES
    open,        \* this.socket is there and OPEN
    file,        \* the requests with an entry in pending-responses.json
    stage,       \* where the handler of each request is, and the flush
    seen,        \* the list that its operation on the file read
    erred,       \* requests whose handler has come to its catch
    item, todo,  \* the flush: the answer it is about, and those to come
    sent,        \* answers that were put on an open socket
    closes, crashes, faults,
    overlapped   \* history: an operation on the file began during another

vars == <<open, file, stage, seen, erred, item, todo, sent, closes, crashes, faults,
          overlapped>>
bounds == <<closes, crashes, faults>>
flushing == <<item, todo>>

Actors == Requests \cup {Flush}

Init ==
    /\ open = FALSE /\ file = {}
    /\ stage = [a \in Actors |-> IF a = Flush THEN "off" ELSE "none"]
    /\ seen = [a \in Actors |-> {}] /\ erred = {}
    /\ item = None /\ todo = {} /\ sent = {}
    /\ closes = 0 /\ crashes = 0 /\ faults = 0 /\ overlapped = FALSE

Goto(a, s) == stage' = [stage EXCEPT ![a] = s]
Fault == faults < MaxFaults /\ faults' = faults + 1 /\ UNCHANGED <<closes, crashes>>

(* Between the read and the write of an operation on the file. *)
Inside(a) == stage[a] \in {"enqueuing", "removing"}

(* this.list() at the start of an operation that will write. *)
ReadList(a) ==
    /\ seen' = [seen EXCEPT ![a] = file]
    /\ overlapped' = (overlapped \/ \E b \in Actors \ {a} : Inside(b))

(* The operation is over, and its list gone. *)
Forget(a) == seen' = [seen EXCEPT ![a] = {}]

-----------------------------------------------------------------------------
(* handleIncomingFrame of a request *)
Receive(r) ==
    /\ open
    /\ stage[r] = "none"
    /\ Goto(r, "working")
    /\ UNCHANGED <<open, file, seen, erred, flushing, sent, bounds, overlapped>>

(* The work is done, or has raised: enqueue reads the list ... *)
EnqueueReads(r) ==
    /\ stage[r] = "working"
    /\ ReadList(r)
    /\ Goto(r, "enqueuing")
    /\ UNCHANGED <<open, file, erred, flushing, sent, bounds>>

(* ... and writes it with the answer. *)
EnqueueWrites(r) ==
    /\ stage[r] = "enqueuing"
    /\ file' = seen[r] \cup {r} /\ Forget(r)
    /\ Goto(r, "queued")
    /\ UNCHANGED <<open, erred, flushing, sent, bounds, overlapped>>

(* The file cannot be written: handleServerRequest answers with the error
   instead, and if that fails too, nobody answers.                          *)
EnqueueFails(r) ==
    /\ stage[r] = "enqueuing"
    /\ Fault /\ Forget(r)
    /\ Goto(r, IF r \in erred THEN "dropped" ELSE "working")
    /\ erred' = erred \cup {r}
    /\ UNCHANGED <<open, file, flushing, sent, overlapped>>

(* Mutant: without a socket the answer counts as sent. *)
SendAnyhow(r) ==
    /\ stage[r] = "queued"
    /\ sent' = IF open THEN sent \cup ({r} \ Oversized) ELSE sent
    /\ Goto(r, "sent")
    /\ UNCHANGED <<open, file, seen, erred, flushing, bounds, overlapped>>

(* sendEncodedResponseNow: without a socket it raises, and the answer stays
   queued.  An answer that cannot be encoded goes for sent.                  *)
Send(r) ==
    /\ stage[r] = "queued"
    /\ sent' = IF open THEN sent \cup ({r} \ Oversized) ELSE sent
    /\ Goto(r, IF open THEN "sent" ELSE "done")
    /\ UNCHANGED <<open, file, seen, erred, flushing, bounds, overlapped>>

-----------------------------------------------------------------------------
(* remove(requestId), of a handler or of the flush *)
Target(a) == IF a = Flush THEN item ELSE a

AfterRemove(a) == IF a # Flush THEN "done" ELSE IF todo = {} THEN "off" ELSE "next"

RemoveReads(a) ==
    /\ stage[a] = "sent" /\ Target(a) \in file
    /\ ReadList(a)
    /\ Goto(a, "removing")
    /\ UNCHANGED <<open, file, erred, flushing, sent, bounds>>

(* The answer is not in the list: nothing is written. *)
RemoveFindsNone(a) ==
    /\ stage[a] = "sent" /\ Target(a) \notin file
    /\ Goto(a, AfterRemove(a))
    /\ UNCHANGED <<open, file, seen, erred, flushing, sent, bounds, overlapped>>

RemoveWrites(a) ==
    /\ stage[a] = "removing"
    /\ file' = seen[a] \ {Target(a)} /\ Forget(a)
    /\ Goto(a, AfterRemove(a))
    /\ UNCHANGED <<open, erred, flushing, sent, bounds, overlapped>>

(* An error ends the handler, or the whole flush; the answer stays queued. *)
RemoveFails(a) ==
    /\ stage[a] = "removing"
    /\ Fault /\ Forget(a)
    /\ Goto(a, IF a = Flush THEN "off" ELSE "done")
    /\ UNCHANGED <<open, file, erred, flushing, sent, overlapped>>

-----------------------------------------------------------------------------
(* Mutant: what was left by earlier connections is not flushed. *)
ConnectOnly ==
    /\ ~open /\ stage[Flush] = "off"
    /\ open' = TRUE
    /\ UNCHANGED <<file, stage, seen, erred, flushing, sent, bounds, overlapped>>

(* connect(), called again by run() once the last one has returned. *)
Connect ==
    /\ ~open /\ stage[Flush] = "off"
    /\ open' = TRUE
    /\ Goto(Flush, "due") /\ item' = None /\ todo' = {}
    /\ UNCHANGED <<file, seen, erred, sent, bounds, overlapped>>

(* replayPendingOutbox found the socket closed: no flush this time. *)
ReplayFails ==
    /\ stage[Flush] = "due" /\ ~open
    /\ Goto(Flush, "off")
    /\ UNCHANGED <<open, file, seen, erred, flushing, sent, bounds, overlapped>>

FlushLists ==
    /\ stage[Flush] = "due"
    /\ todo' = file
    /\ Goto(Flush, IF file = {} THEN "off" ELSE "next")
    /\ UNCHANGED <<open, file, seen, erred, item, sent, bounds, overlapped>>

FlushSends(r) ==
    /\ stage[Flush] = "next" /\ open
    /\ r \in todo
    /\ item' = r /\ todo' = todo \ {r}
    /\ sent' = sent \cup ({r} \ Oversized)
    /\ Goto(Flush, "sent")
    /\ UNCHANGED <<open, file, seen, erred, bounds, overlapped>>

FlushStops ==
    /\ stage[Flush] = "next" /\ ~open
    /\ Goto(Flush, "off")
    /\ UNCHANGED <<open, file, seen, erred, flushing, sent, bounds, overlapped>>

(* onclose *)
Close ==
    /\ open /\ closes < MaxCloses
    /\ open' = FALSE /\ closes' = closes + 1
    /\ UNCHANGED <<file, stage, seen, erred, flushing, sent, crashes, faults, overlapped>>

(* The process dies and is started again. *)
AfterCrash(a) ==
    IF a = Flush THEN "off"
    ELSE IF stage[a] \in {"working", "enqueuing"} THEN "dropped"
    ELSE IF stage[a] \in {"queued", "sent", "removing"} THEN "done"
    ELSE stage[a]

Crash ==
    /\ crashes < MaxCrashes /\ crashes' = crashes + 1
    /\ open' = FALSE
    /\ stage' = [a \in Actors |-> AfterCrash(a)] /\ seen' = [a \in Actors |-> {}]
    /\ UNCHANGED <<file, erred, flushing, sent, closes, faults, overlapped>>

-----------------------------------------------------------------------------
Remove(a) == RemoveReads(a) \/ RemoveFindsNone(a) \/ RemoveWrites(a)

Handler(r) == EnqueueReads(r) \/ EnqueueWrites(r) \/ Send(r) \/ Remove(r)

Connection == \/ Connect \/ ReplayFails \/ FlushLists \/ FlushStops \/ Remove(Flush)
              \/ \E r \in Requests : FlushSends(r)

Next ==
    \/ \E r \in Requests : Receive(r) \/ Handler(r) \/ EnqueueFails(r)
    \/ \E a \in Actors : RemoveFails(a)
    \/ Connection \/ Close \/ Crash

Spec == Init /\ [][Next]_vars

(* The handlers and the connect loop are tasks of one event loop; that the
   cloud lets the gateway in again is assumed.                              *)
FairSpec ==
    /\ Spec
    /\ \A r \in Requests : WF_vars(Handler(r))
    /\ WF_vars(Connection)

-----------------------------------------------------------------------------
(* The type invariant: where the handlers and the flush may be. *)
TypeOK ==
    /\ open \in BOOLEAN /\ overlapped \in BOOLEAN
    /\ file \subseteq Requests /\ sent \subseteq Requests /\ erred \subseteq Requests
    /\ seen \in [Actors -> SUBSET Requests]
    /\ stage \in [Actors -> {"none", "working", "enqueuing", "queued", "sent", "removing",
                            "done", "dropped", "off", "due", "next"}]
    /\ \A r \in Requests : stage[r] \notin {"off", "due", "next"}
    /\ stage[Flush] \in {"off", "due", "next", "sent", "removing"}
    /\ item \in Requests \cup {None} /\ todo \subseteq Requests
    /\ stage[Flush] = "next" => todo # {}
    /\ stage[Flush] \in {"sent", "removing"} => item # None
    /\ closes \in 0..MaxCloses /\ crashes \in 0..MaxCrashes /\ faults \in 0..MaxFaults

(* sendResponse is durable: an answer that was queued has been sent or is still
   in the file, after a crash too.  It holds of answers that fit a frame and
   as long as no two operations on the file overlap.                         *)
AnsweredIsKept ==
    overlapped \/ \A r \in Requests \ Oversized :
        stage[r] \in {"queued", "sent", "removing", "done"} => r \in sent \cup file

(* An answer in the file is sent over this connection or a later one, if no two
   operations on the file overlap and none of them fails.                    *)
QueuedIsSent ==
    \A r \in Requests \ Oversized : r \in file ~> r \in sent \/ overlapped \/ faults > 0
=============================================================================
