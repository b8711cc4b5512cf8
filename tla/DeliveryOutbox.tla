--------------------------- MODULE DeliveryOutbox ---------------------------
(***************************************************************************)
(* The transactional outbox of the backend: the table runtime_outbox       *)
(* (run_state_repository.py), the delivery loop that claims due rows and   *)
(* delivers them (outbox_service.py), the receipts with which channel      *)
(* deliveries avoid a resend (channel_delivery_outbox_service.py and the   *)
(* Telegram and WhatsApp dispatchers) and the retention job.               *)
(*                                                                         *)
(* A claim token stands for one claim of one row: claim[k] is the worker's *)
(* copy of the row at the time it was claimed and how far the delivery got.*)
(* Time is abstract: a claim expires, and a back-off ends, at any moment.  *)
(***************************************************************************)
EXTENDS Integers, FiniteSets

CONSTANTS
    Events,        \* event ids: one per idempotency key
    Workers,       \* threads that run deliver_due_outbox_events_once
    Tokens,        \* claim tokens
    Connectors,    \* channel connectors (a Telegram bot, a WhatsApp number)
    ConnectorOf,   \* Events -> connector, NoConnector for runtime events
    Notifications, \* channel deliveries that carry their own notification_text
    NoToken, NoConnector, NoEvent, NoWorker,
    MaxAttempts,   \* OUTBOX_MAX_DELIVERY_ATTEMPTS
    BatchLimit,    \* rows one claim takes
    MaxEmits,      \* bound: emits of one event
    MaxFaults      \* bound: crashes, database errors, overrun claims

ASSUME OutboxAssumptions ==
    /\ NoToken \notin Tokens /\ NoConnector \notin Connectors
    /\ NoEvent \notin Events /\ NoWorker \notin Workers
    /\ ConnectorOf \in [Events -> Connectors \cup {NoConnector}]
    /\ MaxAttempts \in Nat \ {0}
    /\ BatchLimit \in Nat \ {0}
    /\ MaxEmits \in Nat /\ MaxFaults \in Nat

VARIABLES
    \* the columns of runtime_outbox
    exists, delivered, poisoned, retryCount, claimToken,
    expired,       \* claim_expires_at <= NOW()
    due,           \* COALESCE(next_attempt_at, created_at) <= NOW()
    receipt,       \* payload.delivery.receipt is present
    \* the delivering workers
    claim,         \* Tokens -> the claim it stands for
    connectorKey,  \* connector -> event its state has a receipt for
    runReady,      \* poll_run_terminal_result answers ready for the event's run
    \* history and bounds
    wasSent,       \* the receiver got the event at least once
    resendCredit,  \* causes for a send minus sends, see SendsAccountedFor
    emits, faults

row == <<exists, delivered, poisoned, retryCount, claimToken, expired, due, receipt>>
vars == <<row, claim, connectorKey, runReady, wasSent, resendCredit, emits, faults>>

FreeClaim == [stage |-> "free", worker |-> NoWorker, event |-> NoEvent,
              retry |-> 0, receipt |-> FALSE]

Init ==
    /\ exists = [e \in Events |-> FALSE]
    /\ delivered = [e \in Events |-> FALSE]
    /\ poisoned = [e \in Events |-> FALSE]
    /\ retryCount = [e \in Events |-> 0]
    /\ claimToken = [e \in Events |-> NoToken]
    /\ expired = [e \in Events |-> FALSE]
    /\ due = [e \in Events |-> FALSE]
    /\ receipt = [e \in Events |-> FALSE]
    /\ claim = [k \in Tokens |-> FreeClaim]
    /\ connectorKey = [c \in Connectors |-> NoEvent]
    /\ runReady = [e \in Events |-> FALSE]
    /\ wasSent = [e \in Events |-> FALSE]
    /\ resendCredit = [e \in Events |-> 0]
    /\ emits = [e \in Events |-> 0]
    /\ faults = 0

-----------------------------------------------------------------------------
(* Emitting and forgetting an event.                                       *)

(* persist_outbox_event: INSERT, or on a conflict replace the payload -- and
   with it a receipt a worker may have patched in -- and keep the delivery
   columns.                                                                *)
Emit(e) ==
    /\ emits[e] < MaxEmits
    /\ emits' = [emits EXCEPT ![e] = @ + 1]
    /\ receipt' = [receipt EXCEPT ![e] = FALSE]
    /\ exists' = [exists EXCEPT ![e] = TRUE]
    /\ due' = [due EXCEPT ![e] = IF exists[e] THEN @ ELSE TRUE]
    /\ resendCredit' = [resendCredit EXCEPT ![e] = IF exists[e] THEN @ ELSE @ + 1]
    /\ UNCHANGED <<delivered, poisoned, retryCount, claimToken, expired, claim,
                   connectorKey, runReady, wasSent, faults>>

(* prune_delivered_outbox_events: only delivered rows leave the table. *)
Prune(e) ==
    /\ exists[e] /\ delivered[e]
    /\ exists' = [exists EXCEPT ![e] = FALSE]
    /\ delivered' = [delivered EXCEPT ![e] = FALSE]
    /\ retryCount' = [retryCount EXCEPT ![e] = 0]
    /\ expired' = [expired EXCEPT ![e] = FALSE]
    /\ due' = [due EXCEPT ![e] = FALSE]
    /\ receipt' = [receipt EXCEPT ![e] = FALSE]
    /\ UNCHANGED <<poisoned, claimToken, claim, connectorKey, runReady, wasSent,
                   resendCredit, emits, faults>>

(* A runtime event, and a notification, is delivered without asking for its run. *)
AwaitsRun(e) == ConnectorOf[e] # NoConnector /\ e \notin Notifications

(* The run an event reports on is completed, failed or timed out, has an error
   that no retry mends, or is not found any more.  A run that waits, or was
   cancelled or stopped, is never ready.                                   *)
RunReady(e) ==
    /\ AwaitsRun(e) /\ ~runReady[e]
    /\ runReady' = [runReady EXCEPT ![e] = TRUE]
    /\ UNCHANGED <<row, claim, connectorKey, wasSent, resendCredit, emits, faults>>

-----------------------------------------------------------------------------
(* Claiming.                                                               *)

(* Mutant: the claim of another worker is not looked at. *)
ClaimableWhileClaimed(e) ==
    exists[e] /\ ~delivered[e] /\ ~poisoned[e] /\ due[e]

(* Mutant: the expiry of a claim is not looked at. *)
ClaimableIfUnclaimed(e) ==
    /\ exists[e] /\ ~delivered[e] /\ ~poisoned[e] /\ due[e]
    /\ claimToken[e] = NoToken

Claimable(e) ==
    /\ exists[e] /\ ~delivered[e] /\ ~poisoned[e] /\ due[e]
    /\ claimToken[e] = NoToken \/ expired[e]

(* A fresh random token: no row and no worker has it. *)
FreshTokens == {k \in Tokens : /\ claim[k].stage = "free"
                               /\ \A e \in Events : claimToken[e] # k}

(* A worker is between two batches. *)
Idle(w) == \A k \in Tokens : claim[k].worker # w

(* claim_due_outbox_events: one statement gives every row of the batch S a
   fresh token (FOR UPDATE SKIP LOCKED passes over rows that another claim
   has locked, so S is any part of the due rows).                          *)
ClaimBatch(w, S, token) ==
    /\ Idle(w)
    /\ \A e \in S : Claimable(e)
    /\ \A d, e \in S : token[d] = token[e] => d = e
    /\ claimToken' = [e \in Events |-> IF e \in S THEN token[e] ELSE claimToken[e]]
    /\ expired' = [e \in Events |-> IF e \in S THEN FALSE ELSE expired[e]]
    /\ resendCredit' = [e \in Events |->
            IF e \in S /\ expired[e] THEN resendCredit[e] + 1 ELSE resendCredit[e]]
    /\ claim' = [k \in Tokens |->
            IF \E e \in S : token[e] = k
              THEN LET e == CHOOSE d \in S : token[d] = k IN
                   [stage |-> "queued", worker |-> w, event |-> e,
                    retry |-> retryCount[e], receipt |-> receipt[e]]
              ELSE claim[k]]
    /\ UNCHANGED <<exists, delivered, poisoned, retryCount, due, receipt,
                   connectorKey, runReady, wasSent, emits, faults>>

ClaimRows(w, S) ==
    /\ S # {} /\ Cardinality(S) <= BatchLimit
    /\ \E token \in [S -> FreshTokens] : ClaimBatch(w, S, token)

Claim(w) == \E S \in SUBSET Events : ClaimRows(w, S)

-----------------------------------------------------------------------------
(* Delivering one event of the batch.                                      *)

Connector(k) == ConnectorOf[claim[k].event]

(* Mutant: the patched payload of the claimed copy is not looked at and the
   connector's last delivery counts as this event's, whatever its key.     *)
AnyReceiptKnown(k) ==
    /\ Connector(k) # NoConnector
    /\ claim[k].receipt \/ connectorKey[Connector(k)] # NoEvent

(* _skip_resend_if_receipted: the copy of the payload has a receipt, or the
   connector's state remembers this idempotency key as its last delivery.  *)
ReceiptKnown(k) ==
    /\ Connector(k) # NoConnector
    /\ claim[k].receipt \/ connectorKey[Connector(k)] = claim[k].event

Goto(k, stage) == claim' = [claim EXCEPT ![k].stage = stage]

(* The worker is between two events of its batch. *)
BetweenEvents(k) ==
    \A j \in Tokens : claim[j].worker = claim[k].worker => claim[j].stage = "queued"

(* deliver_outbox_event starts on the next event of the worker's batch:
   already receipted, or not ready (OutboxRetryLater), or to be sent.      *)
Begin(k) ==
    /\ claim[k].stage = "queued"
    /\ BetweenEvents(k)
    /\ \/ ReceiptKnown(k) /\ Goto(k, "receipting")
       \/ /\ ~ReceiptKnown(k)
          /\ AwaitsRun(claim[k].event) /\ ~runReady[claim[k].event]
          /\ Goto(k, "deferring")
       \/ /\ ~ReceiptKnown(k)
          /\ ~AwaitsRun(claim[k].event) \/ runReady[claim[k].event]
          /\ Goto(k, "sending")
    /\ UNCHANGED <<row, connectorKey, runReady, wasSent, resendCredit, emits, faults>>

(* What comes before these checks raises: a field of the payload is missing, or
   the connectors cannot be set up.                                        *)
BeginRaises(k) ==
    /\ claim[k].stage = "queued"
    /\ BetweenEvents(k)
    /\ Connector(k) # NoConnector
    /\ Goto(k, "failing")
    /\ UNCHANGED <<row, connectorKey, runReady, wasSent, resendCredit, emits, faults>>

(* Telegram edits its pending message and the answer is lost: edit_message takes
   any exception for "not edited", and the text is sent as well.           *)
EditLost(k) ==
    /\ claim[k].stage = "sending" /\ Connector(k) # NoConnector
    /\ wasSent' = [wasSent EXCEPT ![claim[k].event] = TRUE]
    /\ Goto(k, "resending")
    /\ UNCHANGED <<row, connectorKey, runReady, resendCredit, emits, faults>>

Sending == {"sending", "resending"}

(* The provider takes the message, or the edit of the pending one, and says so. *)
SendAccepted(k) ==
    LET e == claim[k].event IN
    /\ claim[k].stage \in Sending
    /\ wasSent' = [wasSent EXCEPT ![e] = TRUE]
    /\ resendCredit' = [resendCredit EXCEPT ![e] = @ - 1]
    /\ Goto(k, IF Connector(k) = NoConnector THEN "marking" ELSE "accepted")
    /\ UNCHANGED <<row, connectorKey, runReady, emits, faults>>

(* WhatsApp writes a failed delivery into the connector's state, over the
   receipt of an earlier one; Telegram does not.                           *)
ConnectorFailed(k) ==
    \/ UNCHANGED connectorKey
    \/ /\ Connector(k) # NoConnector
       /\ connectorKey' = [connectorKey EXCEPT ![Connector(k)] = NoEvent]

(* The send raises: the message was refused, or it was taken and the answer
   was lost.                                                               *)
SendRaises(k) ==
    LET e == claim[k].event IN
    /\ claim[k].stage \in Sending
    /\ \/ UNCHANGED <<wasSent, resendCredit>>
       \/ /\ wasSent' = [wasSent EXCEPT ![e] = TRUE]
          /\ resendCredit' = [resendCredit EXCEPT ![e] = @ - 1]
    /\ ConnectorFailed(k)
    /\ Goto(k, "failing")
    /\ UNCHANGED <<row, runReady, emits, faults>>

(* set_connector_state with last_delivery_idempotency_key, in
   deliver_final_response after the send.                                  *)
RememberDelivery(k) ==
    /\ claim[k].stage = "accepted"
    /\ connectorKey' = [connectorKey EXCEPT ![Connector(k)] = claim[k].event]
    /\ Goto(k, "receipting")
    /\ UNCHANGED <<row, runReady, wasSent, resendCredit, emits, faults>>

(* Recording the sent message raises, before the connector's state is written or,
   in Telegram's escalation record, after it: the delivery counts as failed
   although the message is out.                                            *)
RememberRaises(k) ==
    /\ claim[k].stage = "accepted"
    /\ \/ ConnectorFailed(k)
       \/ connectorKey' = [connectorKey EXCEPT ![Connector(k)] = claim[k].event]
    /\ Goto(k, "failing")
    /\ UNCHANGED <<row, runReady, wasSent, resendCredit, emits, faults>>

(* _patch_delivery_state: not fenced by the claim, and a RunStatePersistenceError
   is ignored.                                                             *)
PatchReceipt(k) ==
    LET e == claim[k].event IN
    /\ claim[k].stage = "receipting"
    /\ receipt' \in {receipt, [receipt EXCEPT ![e] = exists[e]]}
    /\ Goto(k, "marking")
    /\ UNCHANGED <<exists, delivered, poisoned, retryCount, claimToken, expired,
                   due, connectorKey, runReady, wasSent, resendCredit, emits, faults>>

(* Any other error is not. *)
PatchRaises(k) ==
    /\ claim[k].stage = "receipting"
    /\ Goto(k, "failing")
    /\ UNCHANGED <<row, connectorKey, runReady, wasSent, resendCredit, emits, faults>>

-----------------------------------------------------------------------------
(* Settling the claim.                                                     *)

(* Mutant: the UPDATE statements check delivered_at but not claim_token. *)
UnfencedHolds(k) == exists[claim[k].event] /\ ~delivered[claim[k].event]

(* WHERE event_id = $1 AND claim_token = $2 AND delivered_at IS NULL *)
Holds(k) ==
    /\ claimToken[claim[k].event] = k
    /\ ~delivered[claim[k].event]

Done(k) == claim' = [claim EXCEPT ![k] = FreeClaim]

Unclaim(e) ==
    /\ claimToken' = [claimToken EXCEPT ![e] = NoToken]
    /\ expired' = [expired EXCEPT ![e] = FALSE]

(* The claim was taken over: the UPDATE matches no row. *)
Fenced(k, stage) ==
    /\ claim[k].stage = stage
    /\ ~Holds(k)
    /\ Done(k)
    /\ UNCHANGED <<row, connectorKey, runReady, wasSent, resendCredit, emits, faults>>

(* mark_outbox_event_delivered *)
MarkDelivered(k) ==
    LET e == claim[k].event IN
    /\ claim[k].stage = "marking"
    /\ Holds(k)
    /\ delivered' = [delivered EXCEPT ![e] = TRUE]
    /\ poisoned' = [poisoned EXCEPT ![e] = FALSE]
    /\ Unclaim(e)
    /\ Done(k)
    /\ UNCHANGED <<exists, retryCount, due, receipt, connectorKey, runReady,
                   wasSent, resendCredit, emits, faults>>

(* Mutant: off by one in the attempt at which the back-off runs out. *)
PoisonsLate(retry) == retry + 1 > MaxAttempts

(* _delivery_retry_delay_for_attempt(retry_count + 1) is None *)
Poisons(retry) == retry + 1 >= MaxAttempts

(* retry_count = COALESCE(retry_count, 0) + 1 *)
RetryUp(n) == n + 1

(* record_outbox_delivery_failure: the count of the row is incremented, the
   decision to poison is taken from the worker's copy of it.               *)
RecordFailure(k) ==
    LET e == claim[k].event IN
    /\ claim[k].stage = "failing"
    /\ Holds(k)
    /\ retryCount' = [retryCount EXCEPT ![e] = RetryUp(@)]
    /\ poisoned' = [poisoned EXCEPT ![e] = Poisons(claim[k].retry)]
    /\ due' = [due EXCEPT ![e] = Poisons(claim[k].retry)]
    /\ resendCredit' = [resendCredit EXCEPT ![e] = @ + 1]
    /\ Unclaim(e)
    /\ Done(k)
    /\ UNCHANGED <<exists, delivered, receipt, connectorKey, runReady, wasSent,
                   emits, faults>>

(* The same for OutboxRetryLater, with increment_retry = False. *)
Defer(k) ==
    LET e == claim[k].event IN
    /\ claim[k].stage = "deferring"
    /\ Holds(k)
    /\ poisoned' = [poisoned EXCEPT ![e] = FALSE]
    /\ due' = [due EXCEPT ![e] = FALSE]
    /\ Unclaim(e)
    /\ Done(k)
    /\ UNCHANGED <<exists, delivered, retryCount, receipt, connectorKey, runReady,
                   wasSent, resendCredit, emits, faults>>

Settling == {"marking", "failing", "deferring"}

(* The UPDATE raises; the loop logs it and goes on.  The row stays claimed. *)
SettleRaises(k) ==
    /\ claim[k].stage \in Settling
    /\ faults < MaxFaults
    /\ faults' = faults + 1
    /\ Done(k)
    /\ UNCHANGED <<row, connectorKey, runReady, wasSent, resendCredit, emits>>

(* The process of a worker dies with its batch. *)
Crash(w) ==
    /\ ~Idle(w)
    /\ faults < MaxFaults
    /\ faults' = faults + 1
    /\ claim' = [k \in Tokens |-> IF claim[k].worker = w THEN FreeClaim ELSE claim[k]]
    /\ UNCHANGED <<row, connectorKey, runReady, wasSent, resendCredit, emits>>

-----------------------------------------------------------------------------
(* Time.                                                                   *)

(* claim_expires_at passes.  While the claim's delivery is still under way
   (a long batch, a slow provider) this counts as a fault.                 *)
Expire(e) ==
    /\ claimToken[e] # NoToken /\ ~expired[e]
    /\ \/ claim[claimToken[e]].stage = "free" /\ UNCHANGED faults
       \/ /\ claim[claimToken[e]].stage # "free"
          /\ faults < MaxFaults
          /\ faults' = faults + 1
    /\ expired' = [expired EXCEPT ![e] = TRUE]
    /\ UNCHANGED <<exists, delivered, poisoned, retryCount, claimToken, due,
                   receipt, claim, connectorKey, runReady, wasSent, resendCredit,
                   emits>>

(* next_attempt_at passes. *)
BackoffEnds(e) ==
    /\ exists[e] /\ ~due[e]
    /\ due' = [due EXCEPT ![e] = TRUE]
    /\ UNCHANGED <<exists, delivered, poisoned, retryCount, claimToken, expired,
                   receipt, claim, connectorKey, runReady, wasSent, resendCredit,
                   emits, faults>>

Deliver(k) ==
    \/ Begin(k) \/ BeginRaises(k)
    \/ EditLost(k) \/ SendAccepted(k) \/ SendRaises(k)
    \/ RememberDelivery(k) \/ RememberRaises(k)
    \/ PatchReceipt(k) \/ PatchRaises(k)
    \/ MarkDelivered(k) \/ RecordFailure(k) \/ Defer(k)
    \/ \E stage \in Settling : Fenced(k, stage)

Next ==
    \/ \E e \in Events : \/ Emit(e) \/ Prune(e) \/ RunReady(e)
                         \/ Expire(e) \/ BackoffEnds(e)
    \/ \E w \in Workers : Claim(w) \/ Crash(w)
    \/ \E k \in Tokens : Deliver(k) \/ SettleRaises(k)

Spec == Init /\ [][Next]_vars

(* run_outbox_delivery_forever polls every poll_seconds and rows are claimed in the
   order in which they fell due, so a row that is due is not passed over for ever;
   a claimed batch is worked off, and time passes.  Nothing is assumed about emitting, pruning,
   faults, or the runs that events report on.                              *)
Fairness ==
    /\ \A e \in Events :
          SF_vars(\E w \in Workers, S \in SUBSET Events : e \in S /\ ClaimRows(w, S))
    /\ \A k \in Tokens : WF_vars(Deliver(k))
    /\ \A e \in Events : WF_vars(Expire(e)) /\ WF_vars(BackoffEnds(e))

FairSpec == Spec /\ Fairness

-----------------------------------------------------------------------------
Stages == {"free", "queued", "accepted", "receipting"} \cup Sending \cup Settling

ClaimRecords ==
    [stage : Stages, worker : Workers \cup {NoWorker},
     event : Events \cup {NoEvent}, retry : Nat, receipt : BOOLEAN]

(* The type invariant: what each field of the code may hold. *)
TypeOK ==
    /\ exists \in [Events -> BOOLEAN]
    /\ delivered \in [Events -> BOOLEAN]
    /\ poisoned \in [Events -> BOOLEAN]
    /\ retryCount \in [Events -> Nat]
    /\ claimToken \in [Events -> Tokens \cup {NoToken}]
    /\ expired \in [Events -> BOOLEAN]
    /\ due \in [Events -> BOOLEAN]
    /\ receipt \in [Events -> BOOLEAN]
    /\ claim \in [Tokens -> ClaimRecords]
    /\ connectorKey \in [Connectors -> Events \cup {NoEvent}]
    /\ runReady \in [Events -> BOOLEAN]
    /\ wasSent \in [Events -> BOOLEAN]
    /\ resendCredit \in [Events -> Int]
    /\ emits \in [Events -> Nat]
    /\ faults \in Nat

(* An event is set aside exactly when its last attempt failed: it never gets
   more than MaxAttempts counted attempts, and never fewer.                *)
PoisonedAtLimit ==
    \A e \in Events :
        /\ retryCount[e] <= MaxAttempts
        /\ poisoned[e] <=> retryCount[e] = MaxAttempts

(* No outcome without a cause: an event marked delivered has been taken by
   its receiver.  The skip paths (receipt in the payload, receipt in the
   connector's state) never stand for the delivery of another event.       *)
DeliveredWasSent ==
    \A e \in Events : delivered[e] => wasSent[e]

(* Duplicates are accounted for: every send of an event after the first has a
   cause of its own -- a counted failure, a claim taken over after it expired, a
   new insert after the row was pruned, or an edit in the same delivery whose
   answer was lost, of which a delivery has at most one.  Two workers never send
   the same event on the strength of the same claim, and no delivery of a claim
   sends again once it has an answer.                                       *)
SendsAccountedFor ==
    \A e \in Events : resendCredit[e] >= 0

(* An outcome is final: a late worker, whose claim was taken over, neither
   revives a dead-lettered event nor undoes a delivery.                    *)
OutcomeIsFinal ==
    [][\A e \in Events :
          /\ poisoned[e] => poisoned'[e]
          /\ delivered[e] => delivered'[e] \/ ~exists'[e]]_vars

(* Every accepted event is eventually delivered or set aside, whatever the
   worker crashes, database errors and overrun claims -- once there is something
   to report: a channel delivery of a run that is never ready (it waits for ever,
   or was cancelled or stopped) is put off for ever.                        *)
EventuallySettled ==
    \A e \in Events :
        exists[e] /\ (~AwaitsRun(e) \/ runReady[e])
        ~> delivered[e] \/ poisoned[e]

-----------------------------------------------------------------------------
statusOf == [e \in Events |-> IF ~exists[e] THEN "absent"
                              ELSE IF delivered[e] THEN "confirmed"
                              ELSE IF poisoned[e] THEN "dead" ELSE "owed"]

Abstract == INSTANCE AtLeastOnceDelivery WITH status <- statusOf

(* "This is the transactional-outbox / at-least-once-delivery queue" says
   prune_delivered_outbox_events: the outbox implements AtLeastOnceDelivery. *)
ImplementsAtLeastOnce == Abstract!Spec
=============================================================================
