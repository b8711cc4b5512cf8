------------------------ MODULE DeliveryOutboxProofs ------------------------
(***************************************************************************)
(* Theorems about DeliveryOutbox for every set of events, workers, tokens  *)
(* and connectors, every limit on attempts and every number of faults.     *)
(***************************************************************************)
EXTENDS DeliveryOutbox, FiniteSetTheorems, TLAPS

(* The copy a worker decides with is the row it writes to: as long as the
   token of a claim is still in its row, the retry count the worker read when
   it claimed is the one in the table, although deliveries by workers whose
   claim expired may have ended in between.                                *)
CopyIsCurrent ==
    \A e \in Events : \A k \in Tokens :
        claimToken[e] = k /\ claim[k].stage # "free" =>
            claim[k].event = e /\ claim[k].retry = retryCount[e]

(* A row never has two outcomes, and a settled row is not claimed: nobody can
   start another delivery of it.                                           *)
SettledIsUnclaimed ==
    \A e \in Events :
        /\ ~(delivered[e] /\ poisoned[e])
        /\ delivered[e] \/ poisoned[e] \/ ~exists[e] => claimToken[e] = NoToken

(* A claim under way is the claim of an event by a worker. *)
ActiveClaims ==
    \A k \in Tokens : claim[k].stage # "free" => claim[k].event \in Events

(* A row that is not in the table has no outcome. *)
AbsentIsBlank ==
    \A e \in Events : ~exists[e] => ~delivered[e] /\ ~poisoned[e]

(* Whatever a worker may take for the evidence of a delivery, and whatever
   stage it reached after one, the event it names was really sent.         *)
SentEvidence ==
    /\ \A c \in Connectors : connectorKey[c] \in Events => wasSent[connectorKey[c]]
    /\ \A e \in Events : receipt[e] => wasSent[e]
    /\ \A k \in Tokens :
          /\ claim[k].stage # "free" /\ claim[k].receipt => wasSent[claim[k].event]
          /\ claim[k].stage \in {"accepted", "receipting", "marking"} =>
                wasSent[claim[k].event]

(* The row part of the invariant: fencing keeps the worker's copy and the
   table in step, which is what makes the poison decision exact.           *)
RowInv ==
    /\ TypeOK
    /\ ActiveClaims
    /\ AbsentIsBlank
    /\ CopyIsCurrent
    /\ PoisonedAtLimit
    /\ SettledIsUnclaimed

IInv == RowInv /\ SentEvidence /\ DeliveredWasSent

(* The empty table satisfies the invariant. *)
LEMMA InitIInv == Init => IInv
  BY OutboxAssumptions
  DEF Init, FreeClaim, IInv, RowInv, TypeOK, ClaimRecords, Stages, Settling, ActiveClaims,
      AbsentIsBlank, CopyIsCurrent, PoisonedAtLimit, SettledIsUnclaimed,
      SentEvidence, DeliveredWasSent

-----------------------------------------------------------------------------
(* A step of a worker that moves one claim from a stage under way to another
   and leaves the table alone keeps RowInv.                                *)
LEMMA StageStepRowInv ==
    ASSUME RowInv, NEW k \in Tokens, NEW s \in Stages \ {"free"},
           claim[k].stage # "free", Goto(k, s),
           UNCHANGED <<exists, delivered, poisoned, retryCount, claimToken>>,
           expired' \in [Events -> BOOLEAN], due' \in [Events -> BOOLEAN],
           receipt' \in [Events -> BOOLEAN],
           connectorKey' \in [Connectors -> Events \cup {NoEvent}],
           runReady' \in [Events -> BOOLEAN], wasSent' \in [Events -> BOOLEAN],
           resendCredit' \in [Events -> Int], emits' = emits, faults' = faults
    PROVE  RowInv'
<1>1. claim' \in [Tokens -> ClaimRecords]
  BY DEF RowInv, TypeOK, Goto, ClaimRecords
<1>2. \A j \in Tokens : /\ claim'[j].event = claim[j].event
                        /\ claim'[j].retry = claim[j].retry
                        /\ claim'[j].stage # "free" <=> claim[j].stage # "free"
  BY DEF RowInv, TypeOK, Goto, ClaimRecords
<1>3. TypeOK'
  BY <1>1 DEF RowInv, TypeOK
<1>4. ActiveClaims' /\ CopyIsCurrent'
  BY <1>2 DEF RowInv, ActiveClaims, CopyIsCurrent
<1>5. AbsentIsBlank' /\ PoisonedAtLimit' /\ SettledIsUnclaimed'
  BY DEF RowInv, AbsentIsBlank, PoisonedAtLimit, SettledIsUnclaimed
<1> QED
  BY <1>3, <1>4, <1>5 DEF RowInv

(* A claim that ends leaves the other claims as they are. *)
LEMMA DoneClaims ==
    ASSUME TypeOK, NEW k \in Tokens, Done(k)
    PROVE  /\ claim' \in [Tokens -> ClaimRecords]
           /\ claim'[k] = FreeClaim
           /\ \A j \in Tokens : j # k => claim'[j] = claim[j]
  BY DEF TypeOK, Done, FreeClaim, ClaimRecords, Stages, Settling

(* The fence: a worker whose token is still in the row of its event knows the
   row's retry count, and the row is not settled.                          *)
LEMMA FenceFacts ==
    ASSUME RowInv, NEW k \in Tokens, claim[k].stage # "free", Holds(k)
    PROVE  /\ claim[k].event \in Events
           /\ claimToken[claim[k].event] = k
           /\ claim[k].retry = retryCount[claim[k].event]
           /\ exists[claim[k].event]
           /\ ~delivered[claim[k].event]
           /\ ~poisoned[claim[k].event]
           /\ retryCount[claim[k].event] < MaxAttempts
<1> DEFINE e == claim[k].event
<1>1. e \in Events
  BY DEF RowInv, ActiveClaims
<1>2. claimToken[e] = k /\ ~delivered[e]
  BY DEF Holds
<1>3. claim[k].retry = retryCount[e]
  BY <1>1, <1>2 DEF RowInv, CopyIsCurrent
<1>4. claimToken[e] # NoToken
  BY <1>2, OutboxAssumptions
<1>5. exists[e] /\ ~poisoned[e]
  BY <1>1, <1>4 DEF RowInv, SettledIsUnclaimed
<1>6. retryCount[e] # MaxAttempts /\ retryCount[e] <= MaxAttempts
  BY <1>1, <1>5 DEF RowInv, PoisonedAtLimit
<1>7. retryCount[e] < MaxAttempts
  BY <1>1, <1>6, OutboxAssumptions DEF RowInv, TypeOK
<1> QED
  BY <1>1, <1>2, <1>3, <1>5, <1>7

-----------------------------------------------------------------------------
(* Steps on the table: emit, prune, time and the run's end. *)
LEMMA EnvironmentIInv ==
    ASSUME IInv, NEW e \in Events,
           Emit(e) \/ Prune(e) \/ RunReady(e) \/ Expire(e) \/ BackoffEnds(e)
    PROVE  IInv'
<1> USE OutboxAssumptions
<1>1. CASE Emit(e)
  <2>1. TypeOK'
    <3>1. due' \in [Events -> BOOLEAN]
      BY <1>1 DEF IInv, RowInv, TypeOK, Emit
    <3>2. resendCredit' \in [Events -> Int]
      BY <1>1 DEF IInv, RowInv, TypeOK, Emit
    <3>3. emits' \in [Events -> Nat]
      BY <1>1 DEF IInv, RowInv, TypeOK, Emit
    <3> QED
      BY <1>1, <3>1, <3>2, <3>3 DEF IInv, RowInv, TypeOK, Emit
  <2>2. \A d \in Events : /\ exists[d] => exists'[d]
                          /\ receipt'[d] => receipt[d]
    BY <1>1 DEF IInv, RowInv, TypeOK, Emit
  <2>3. UNCHANGED <<delivered, poisoned, retryCount, claimToken, claim,
                    connectorKey, wasSent>>
    BY <1>1 DEF Emit
  <2>4. ActiveClaims' /\ CopyIsCurrent' /\ PoisonedAtLimit' /\ DeliveredWasSent'
    BY <2>3 DEF IInv, RowInv, ActiveClaims, CopyIsCurrent, PoisonedAtLimit,
                DeliveredWasSent
  <2>5. AbsentIsBlank' /\ SettledIsUnclaimed'
    BY <2>2, <2>3 DEF IInv, RowInv, AbsentIsBlank, SettledIsUnclaimed
  <2>6. SentEvidence'
    BY <2>2, <2>3 DEF IInv, SentEvidence
  <2> QED
    BY <2>1, <2>4, <2>5, <2>6 DEF IInv, RowInv
<1>2. CASE Prune(e)
  BY <1>2 DEF IInv, RowInv, TypeOK, ActiveClaims, AbsentIsBlank, CopyIsCurrent,
              PoisonedAtLimit, SettledIsUnclaimed, SentEvidence,
              DeliveredWasSent, Prune
<1>3. CASE RunReady(e)
  BY <1>3 DEF IInv, RowInv, TypeOK, ActiveClaims, AbsentIsBlank, CopyIsCurrent,
              PoisonedAtLimit, SettledIsUnclaimed, SentEvidence,
              DeliveredWasSent, RunReady, row
<1>4. CASE Expire(e)
  BY <1>4 DEF IInv, RowInv, TypeOK, ActiveClaims, AbsentIsBlank, CopyIsCurrent,
              PoisonedAtLimit, SettledIsUnclaimed, SentEvidence,
              DeliveredWasSent, Expire
<1>5. CASE BackoffEnds(e)
  BY <1>5 DEF IInv, RowInv, TypeOK, ActiveClaims, AbsentIsBlank, CopyIsCurrent,
              PoisonedAtLimit, SettledIsUnclaimed, SentEvidence,
              DeliveredWasSent, BackoffEnds
<1> QED
  BY <1>1, <1>2, <1>3, <1>4, <1>5

(* claim_due_outbox_events: fresh tokens, one per row of the batch. *)
LEMMA ClaimIInv ==
    ASSUME IInv, NEW w \in Workers, Claim(w)
    PROVE  IInv'
<1> USE OutboxAssumptions
<1>0. PICK S \in SUBSET Events :
        \E token \in [S -> FreshTokens] : ClaimBatch(w, S, token)
  BY DEF Claim, ClaimRows
<1>1. PICK token \in [S -> FreshTokens] : ClaimBatch(w, S, token)
  BY <1>0
<1> DEFINE Picked(k) == CHOOSE d \in S : token[d] = k
<1>2. \A e \in S : /\ token[e] \in Tokens
                   /\ claim[token[e]].stage = "free"
                   /\ \A d \in Events : claimToken[d] # token[e]
                   /\ Picked(token[e]) = e
  BY <1>1 DEF FreshTokens, ClaimBatch
<1>3. \A e \in Events : e \in S => /\ claimToken'[e] = token[e]
                                   /\ Claimable(e)
                                   /\ claim'[token[e]] =
                                        [stage |-> "queued", worker |-> w, event |-> e,
                                         retry |-> retryCount[e], receipt |-> receipt[e]]
  BY <1>1, <1>2 DEF ClaimBatch
<1>3a. \A e \in S : /\ e \in Events
                    /\ claim'[token[e]] \in ClaimRecords
                    /\ claim'[token[e]].stage = "queued"
                    /\ claim'[token[e]].event = e
                    /\ claim'[token[e]].retry = retryCount[e]
                    /\ claim'[token[e]].receipt = receipt[e]
  <2> SUFFICES ASSUME NEW e \in S
               PROVE  /\ e \in Events
                      /\ claim'[token[e]] \in ClaimRecords
                      /\ claim'[token[e]].stage = "queued"
                      /\ claim'[token[e]].event = e
                      /\ claim'[token[e]].retry = retryCount[e]
                      /\ claim'[token[e]].receipt = receipt[e]
    OBVIOUS
  <2>1. e \in Events /\ retryCount[e] \in Nat /\ receipt[e] \in BOOLEAN
    BY DEF IInv, RowInv, TypeOK
  <2>2. claim'[token[e]] = [stage |-> "queued", worker |-> w, event |-> e,
                            retry |-> retryCount[e], receipt |-> receipt[e]]
    BY <1>3, <2>1
  <2>3. "queued" \in Stages
    BY DEF Stages
  <2>4. claim'[token[e]] \in ClaimRecords
    BY <2>1, <2>2, <2>3 DEF ClaimRecords
  <2> QED
    BY <2>1, <2>2, <2>4
<1>4. \A e \in Events : e \notin S => claimToken'[e] = claimToken[e]
  BY <1>1 DEF ClaimBatch
<1>5. \A k \in Tokens : (\A e \in S : token[e] # k) => claim'[k] = claim[k]
  BY <1>1 DEF ClaimBatch
<1>6. claim' \in [Tokens -> ClaimRecords]
  <2>1. ASSUME NEW k \in Tokens PROVE claim'[k] \in ClaimRecords
    <3>1. CASE \E e \in S : token[e] = k
      <4>1. PICK e \in S : token[e] = k
        BY <3>1
      <4> QED
        BY <1>3a, <4>1
    <3>2. CASE \A e \in S : token[e] # k
      BY <1>5, <3>2 DEF IInv, RowInv, TypeOK
    <3> QED
      BY <3>1, <3>2
  <2>2. claim' = [k \in Tokens |-> claim'[k]]
    BY <1>1 DEF ClaimBatch
  <2> QED
    BY <2>1, <2>2
<1>7. TypeOK'
  <2>1. /\ claimToken' \in [Events -> Tokens \cup {NoToken}]
        /\ expired' \in [Events -> BOOLEAN]
    BY <1>1, <1>2 DEF ClaimBatch, IInv, RowInv, TypeOK
  <2>2. resendCredit' \in [Events -> Int]
    BY <1>1 DEF ClaimBatch, IInv, RowInv, TypeOK
  <2> QED
    BY <1>1, <1>6, <2>1, <2>2 DEF ClaimBatch, IInv, RowInv, TypeOK
<1>8. UNCHANGED <<exists, delivered, poisoned, retryCount, due, receipt,
                  connectorKey, runReady, wasSent, emits, faults>>
  BY <1>1 DEF ClaimBatch
<1>9. ActiveClaims'
  BY <1>3a, <1>5 DEF IInv, RowInv, ActiveClaims
<1>10. CopyIsCurrent'
  <2> SUFFICES ASSUME NEW e \in Events, NEW k \in Tokens,
                      claimToken'[e] = k, claim'[k].stage # "free"
               PROVE  claim'[k].event = e /\ claim'[k].retry = retryCount'[e]
    BY DEF CopyIsCurrent
  <2>1. CASE e \in S
    BY <1>3, <1>3a, <1>8, <2>1
  <2>2. CASE e \notin S
    <3>1. claimToken[e] = k /\ \A d \in S : token[d] # k
      BY <1>2, <1>4, <2>2
    <3> QED
      BY <1>5, <1>8, <3>1 DEF IInv, RowInv, CopyIsCurrent
  <2> QED
    BY <2>1, <2>2
<1>11. AbsentIsBlank' /\ PoisonedAtLimit' /\ DeliveredWasSent'
  BY <1>8 DEF IInv, RowInv, AbsentIsBlank, PoisonedAtLimit, DeliveredWasSent
<1>12. SettledIsUnclaimed'
  BY <1>3, <1>4, <1>8 DEF IInv, RowInv, SettledIsUnclaimed, Claimable
<1>13. SentEvidence'
  <2> SUFFICES ASSUME NEW k \in Tokens
               PROVE  /\ claim'[k].stage # "free" /\ claim'[k].receipt => wasSent[claim'[k].event]
                      /\ claim'[k].stage \in {"accepted", "receipting", "marking"} =>
                            wasSent[claim'[k].event]
    BY <1>8 DEF IInv, SentEvidence
  <2>1. CASE \E e \in S : token[e] = k
    <3>1. PICK e \in S : token[e] = k
      BY <2>1
    <3> QED
      BY <1>3a, <3>1 DEF IInv, SentEvidence
  <2>2. CASE \A e \in S : token[e] # k
    BY <1>5, <2>2 DEF IInv, SentEvidence
  <2> QED
    BY <2>1, <2>2
<1> QED
  BY <1>7, <1>9, <1>10, <1>11, <1>12, <1>13 DEF IInv, RowInv

-----------------------------------------------------------------------------
(* Delivering: stages of a claim, no change of an outcome. *)
LEMMA WorkIInv ==
    ASSUME IInv, NEW k \in Tokens,
           \/ Begin(k) \/ BeginRaises(k) \/ EditLost(k) \/ SendAccepted(k)
           \/ SendRaises(k) \/ RememberDelivery(k) \/ RememberRaises(k)
           \/ PatchReceipt(k) \/ PatchRaises(k)
    PROVE  IInv'
<1> USE OutboxAssumptions
<1> DEFINE e == claim[k].event
<1>1. claim[k].stage # "free" /\ e \in Events
  BY DEF IInv, RowInv, ActiveClaims, Begin, BeginRaises, EditLost, SendAccepted, SendRaises,
         Sending, RememberDelivery, RememberRaises, PatchReceipt, PatchRaises
<1>2. PICK s \in Stages \ {"free"} : Goto(k, s)
  BY DEF Begin, BeginRaises, EditLost, SendAccepted, SendRaises,
         RememberDelivery, RememberRaises, PatchReceipt, PatchRaises, Stages, Sending, Settling
<1>3. /\ claim'[k].stage = s
      /\ \A j \in Tokens : /\ claim'[j].event = claim[j].event
                           /\ claim'[j].receipt = claim[j].receipt
                           /\ j # k => claim'[j] = claim[j]
  BY <1>2 DEF IInv, RowInv, TypeOK, ClaimRecords, Goto
<1>4. Connector(k) # NoConnector => Connector(k) \in Connectors
  BY <1>1 DEF Connector
<1>5. UNCHANGED <<exists, delivered, poisoned, retryCount, claimToken, expired,
                  due, runReady, emits, faults>>
  BY DEF Begin, BeginRaises, EditLost, SendAccepted, SendRaises,
         RememberDelivery, RememberRaises, PatchReceipt, PatchRaises, row
<1>6. connectorKey' \in [Connectors -> Events \cup {NoEvent}]
  BY <1>1, <1>4 DEF IInv, RowInv, TypeOK, Begin, BeginRaises, EditLost, SendAccepted, SendRaises,
         RememberDelivery, RememberRaises, PatchReceipt, PatchRaises, ConnectorFailed
<1>7. receipt' \in [Events -> BOOLEAN]
  BY <1>1 DEF IInv, RowInv, TypeOK, Begin, BeginRaises, EditLost, SendAccepted, SendRaises,
         RememberDelivery, RememberRaises, PatchReceipt, PatchRaises, row
<1>8. /\ wasSent' \in [Events -> BOOLEAN]
      /\ \A d \in Events : wasSent[d] => wasSent'[d]
  BY <1>1 DEF IInv, RowInv, TypeOK, Begin, BeginRaises, EditLost, SendAccepted, SendRaises,
         RememberDelivery, RememberRaises, PatchReceipt, PatchRaises
<1>9. resendCredit' \in [Events -> Int]
  BY <1>1 DEF IInv, RowInv, TypeOK, Begin, BeginRaises, EditLost, SendAccepted, SendRaises,
         RememberDelivery, RememberRaises, PatchReceipt, PatchRaises
<1>10. RowInv'
  BY <1>1, <1>2, <1>5, <1>6, <1>7, <1>8, <1>9, StageStepRowInv
     DEF IInv, RowInv, TypeOK
<1>11. DeliveredWasSent'
  BY <1>5, <1>8 DEF IInv, DeliveredWasSent
<1>12. \A d \in Events : receipt'[d] => wasSent'[d]
  <2>1. CASE PatchReceipt(k)
    BY <1>1, <2>1 DEF IInv, RowInv, TypeOK, SentEvidence, PatchReceipt
  <2>2. CASE receipt' = receipt
    BY <1>8, <2>2 DEF IInv, SentEvidence
  <2> QED
    BY <2>1, <2>2 DEF Begin, BeginRaises, EditLost, SendAccepted, SendRaises,
         RememberDelivery, RememberRaises, PatchRaises, row
<1>13. \A c \in Connectors : connectorKey'[c] \in Events => wasSent'[connectorKey'[c]]
  <2>1. CASE /\ RememberDelivery(k) \/ RememberRaises(k)
             /\ connectorKey' = [connectorKey EXCEPT ![Connector(k)] = claim[k].event]
    BY <1>1, <2>1
    DEF IInv, RowInv, TypeOK, SentEvidence, RememberDelivery, RememberRaises
  <2>2. CASE \A c \in Connectors : connectorKey'[c] \in {connectorKey[c], NoEvent}
    BY <1>8, <2>2 DEF IInv, SentEvidence
  <2> QED
    BY <1>4, <2>1, <2>2 DEF IInv, RowInv, TypeOK, Begin, BeginRaises, EditLost,
       SendAccepted, SendRaises, RememberDelivery, RememberRaises, PatchReceipt,
       PatchRaises, ConnectorFailed
<1>14. s \in {"accepted", "receipting", "marking"} => wasSent'[e]
  <2>1. CASE Begin(k)
    <3>1. s \in {"queued", "deferring", "sending"} \/ ReceiptKnown(k)
      BY <1>3, <2>1 DEF Begin, Goto, IInv, RowInv, TypeOK, ClaimRecords
    <3>2. ASSUME ReceiptKnown(k) PROVE wasSent[e]
      BY <1>1, <1>4, <3>2 DEF IInv, SentEvidence, ReceiptKnown
    <3> QED
      BY <1>1, <1>8, <3>1, <3>2
  <2>2. CASE SendAccepted(k)
    BY <1>1, <2>2 DEF SendAccepted, Sending, IInv, RowInv, TypeOK
  <2>3. CASE \/ BeginRaises(k) \/ EditLost(k) \/ SendRaises(k) \/ RememberRaises(k)
             \/ PatchRaises(k)
    BY <1>3, <2>3 DEF BeginRaises, EditLost, SendRaises, RememberRaises, PatchRaises, Goto,
       IInv, RowInv, TypeOK, ClaimRecords
  <2>4. CASE RememberDelivery(k) \/ PatchReceipt(k)
    BY <1>1, <1>8, <2>4 DEF RememberDelivery, PatchReceipt, IInv, SentEvidence
  <2> QED
    BY <2>1, <2>2, <2>3, <2>4
<1>15. SentEvidence'
  <2> SUFFICES ASSUME NEW j \in Tokens
               PROVE  /\ claim'[j].stage # "free" /\ claim'[j].receipt =>
                            wasSent'[claim'[j].event]
                      /\ claim'[j].stage \in {"accepted", "receipting", "marking"} =>
                            wasSent'[claim'[j].event]
    BY <1>12, <1>13 DEF SentEvidence
  <2>1. CASE j = k
    BY <1>1, <1>3, <1>8, <1>14, <2>1 DEF IInv, SentEvidence
  <2>2. CASE j # k
    BY <1>3, <1>8, <2>2 DEF IInv, RowInv, ActiveClaims, SentEvidence
  <2> QED
    BY <2>1, <2>2
<1> QED
  BY <1>10, <1>11, <1>15 DEF IInv

-----------------------------------------------------------------------------
(* Ending claims without writing to a row: a fenced write, a database error
   or the death of a worker process.                                       *)
LEMMA DropIInv ==
    ASSUME IInv, claim' \in [Tokens -> ClaimRecords],
           \A j \in Tokens : claim'[j] \in {claim[j], FreeClaim},
           UNCHANGED <<row, connectorKey, runReady, wasSent, resendCredit, emits>>,
           faults' \in Nat
    PROVE  IInv'
<1>1. FreeClaim.stage = "free"
  BY DEF FreeClaim
<1>2. TypeOK'
  BY DEF IInv, RowInv, TypeOK, row
<1>3. ActiveClaims' /\ CopyIsCurrent'
  BY <1>1 DEF IInv, RowInv, ActiveClaims, CopyIsCurrent, row
<1>4. AbsentIsBlank' /\ PoisonedAtLimit' /\ SettledIsUnclaimed' /\ DeliveredWasSent'
  BY DEF IInv, RowInv, AbsentIsBlank, PoisonedAtLimit, SettledIsUnclaimed,
         DeliveredWasSent, row
<1>5. SentEvidence'
  BY <1>1 DEF IInv, SentEvidence, row
<1> QED
  BY <1>2, <1>3, <1>4, <1>5 DEF IInv, RowInv

(* A failing UPDATE, one that matches no row and a dying worker keep the
   invariant: they only drop claims.                                       *)
LEMMA FaultIInv ==
    ASSUME IInv,
           \/ \E k \in Tokens : SettleRaises(k) \/ \E s \in Settling : Fenced(k, s)
           \/ \E w \in Workers : Crash(w)
    PROVE  IInv'
<1>1. FreeClaim \in ClaimRecords
  BY DEF FreeClaim, ClaimRecords, Stages
<1>2. faults \in Nat /\ claim \in [Tokens -> ClaimRecords]
  BY DEF IInv, RowInv, TypeOK
<1>3. ASSUME NEW k \in Tokens, SettleRaises(k) PROVE IInv'
  <2>1. /\ claim' \in [Tokens -> ClaimRecords]
        /\ \A j \in Tokens : claim'[j] \in {claim[j], FreeClaim}
    BY <1>1, <1>2, <1>3 DEF SettleRaises, Done
  <2> QED
    BY <1>2, <1>3, <2>1, DropIInv DEF SettleRaises
<1>4. ASSUME NEW k \in Tokens, NEW s \in Settling, Fenced(k, s) PROVE IInv'
  <2>1. /\ claim' \in [Tokens -> ClaimRecords]
        /\ \A j \in Tokens : claim'[j] \in {claim[j], FreeClaim}
    BY <1>1, <1>2, <1>4 DEF Fenced, Done
  <2> QED
    BY <1>2, <1>4, <2>1, DropIInv DEF Fenced
<1>5. ASSUME NEW w \in Workers, Crash(w) PROVE IInv'
  <2>1. /\ claim' \in [Tokens -> ClaimRecords]
        /\ \A j \in Tokens : claim'[j] \in {claim[j], FreeClaim}
    BY <1>1, <1>2, <1>5 DEF Crash
  <2> QED
    BY <1>2, <1>5, <2>1, DropIInv DEF Crash
<1> QED
  BY <1>3, <1>4, <1>5

(* What the three fenced UPDATE statements have in common: the claim ends, the
   row of its event is unclaimed, and other rows stay as they are.         *)
LEMMA SettleIInv ==
    ASSUME IInv, NEW k \in Tokens,
           MarkDelivered(k) \/ RecordFailure(k) \/ Defer(k)
    PROVE  IInv'
<1> USE OutboxAssumptions
<1>0. PICK e \in Events : e = claim[k].event
  BY DEF IInv, RowInv, ActiveClaims, MarkDelivered, RecordFailure, Defer
<1>1. claim[k].stage \in Settling /\ claim[k].stage # "free" /\ Holds(k)
  BY DEF MarkDelivered, RecordFailure, Defer, Settling
<1>2. /\ claimToken[e] = k
      /\ claim[k].retry = retryCount[e]
      /\ exists[e] /\ ~delivered[e] /\ ~poisoned[e]
      /\ retryCount[e] < MaxAttempts
  BY <1>0, <1>1, FenceFacts DEF IInv
<1>3. /\ claim' \in [Tokens -> ClaimRecords]
      /\ claim'[k].stage = "free"
      /\ \A j \in Tokens : j # k => claim'[j] = claim[j]
  <2>1. TypeOK /\ Done(k)
    BY DEF IInv, RowInv, MarkDelivered, RecordFailure, Defer
  <2> QED
    BY <2>1, DoneClaims DEF FreeClaim
<1>4. /\ claimToken' = [claimToken EXCEPT ![e] = NoToken]
      /\ expired' = [expired EXCEPT ![e] = FALSE]
  BY <1>0 DEF MarkDelivered, RecordFailure, Defer, Unclaim
<1>5. UNCHANGED <<exists, receipt, connectorKey, runReady, wasSent, emits, faults>>
  BY DEF MarkDelivered, RecordFailure, Defer
<1>6. /\ delivered' \in [Events -> BOOLEAN]
      /\ poisoned' \in [Events -> BOOLEAN]
      /\ due' \in [Events -> BOOLEAN]
      /\ \A d \in Events : d # e => /\ delivered'[d] = delivered[d]
                                    /\ poisoned'[d] = poisoned[d]
  <2>1. Poisons(claim[k].retry) \in BOOLEAN
    BY DEF Poisons
  <2>2. CASE MarkDelivered(k)
    BY <1>0, <2>2 DEF IInv, RowInv, TypeOK, MarkDelivered
  <2>3. CASE RecordFailure(k)
    BY <1>0, <2>1, <2>3 DEF IInv, RowInv, TypeOK, RecordFailure
  <2>4. CASE Defer(k)
    BY <1>0, <2>4 DEF IInv, RowInv, TypeOK, Defer
  <2> QED
    BY <2>2, <2>3, <2>4
<1>7. /\ retryCount' \in [Events -> Nat]
      /\ \A d \in Events : d # e => retryCount'[d] = retryCount[d]
      /\ resendCredit' \in [Events -> Int]
  BY <1>0 DEF IInv, RowInv, TypeOK, MarkDelivered, RecordFailure, Defer, RetryUp
<1>8. TypeOK'
  BY <1>3, <1>4, <1>5, <1>6, <1>7 DEF IInv, RowInv, TypeOK
<1>9. ActiveClaims'
  BY <1>3 DEF IInv, RowInv, ActiveClaims
<1>10. AbsentIsBlank'
  BY <1>2, <1>5, <1>6 DEF IInv, RowInv, AbsentIsBlank
<1>11. CopyIsCurrent'
  BY <1>3, <1>4, <1>7 DEF IInv, RowInv, TypeOK, CopyIsCurrent
<1>12. PoisonedAtLimit'
  <2>1. retryCount'[e] <= MaxAttempts /\ (poisoned'[e] <=> retryCount'[e] = MaxAttempts)
    <3>1. CASE MarkDelivered(k) \/ Defer(k)
      BY <1>0, <1>2, <3>1 DEF IInv, RowInv, TypeOK, MarkDelivered, Defer
    <3>2. CASE RecordFailure(k)
      <4>1. poisoned'[e] = Poisons(claim[k].retry) /\ retryCount'[e] = RetryUp(retryCount[e])
        BY <1>0, <3>2 DEF IInv, RowInv, TypeOK, RecordFailure
      <4>2. Poisons(claim[k].retry) <=> RetryUp(retryCount[e]) = MaxAttempts
        BY <1>2 DEF IInv, RowInv, TypeOK, Poisons, RetryUp
      <4>3. RetryUp(retryCount[e]) <= MaxAttempts
        BY <1>2 DEF IInv, RowInv, TypeOK, RetryUp
      <4> QED
        BY <4>1, <4>2, <4>3
    <3> QED
      BY <3>1, <3>2
  <2> QED
    BY <1>6, <1>7, <2>1 DEF IInv, RowInv, PoisonedAtLimit
<1>13. SettledIsUnclaimed'
  <2>1. ~(delivered'[e] /\ poisoned'[e])
    BY <1>0, <1>2 DEF IInv, RowInv, TypeOK, MarkDelivered, RecordFailure, Defer
  <2>2. claimToken'[e] = NoToken /\ \A d \in Events : d # e => claimToken'[d] = claimToken[d]
    BY <1>4 DEF IInv, RowInv, TypeOK
  <2> QED
    BY <1>5, <1>6, <2>1, <2>2 DEF IInv, RowInv, SettledIsUnclaimed
<1>14. SentEvidence'
  BY <1>3, <1>5 DEF IInv, SentEvidence
<1>15. DeliveredWasSent'
  <2>1. delivered'[e] => wasSent[e]
    <3>1. CASE MarkDelivered(k)
      BY <1>0, <3>1 DEF IInv, SentEvidence, MarkDelivered
    <3>2. CASE RecordFailure(k) \/ Defer(k)
      BY <1>2, <3>2 DEF RecordFailure, Defer
    <3> QED
      BY <3>1, <3>2
  <2> QED
    BY <1>5, <1>6, <2>1 DEF IInv, DeliveredWasSent
<1> QED
  BY <1>8, <1>9, <1>10, <1>11, <1>12, <1>13, <1>14, <1>15 DEF IInv, RowInv

(* Each statement on the table and each step of a delivery keeps the
   invariant.                                                              *)
LEMMA NextIInv == IInv /\ [Next]_vars => IInv'
<1> SUFFICES ASSUME IInv, [Next]_vars PROVE IInv'
  OBVIOUS
<1>1. CASE \E e \in Events : Emit(e) \/ Prune(e) \/ RunReady(e) \/ Expire(e)
                               \/ BackoffEnds(e)
  BY <1>1, EnvironmentIInv
<1>2. CASE \E w \in Workers : Claim(w)
  BY <1>2, ClaimIInv
<1>3. CASE \/ \E k \in Tokens : SettleRaises(k) \/ \E s \in Settling : Fenced(k, s)
           \/ \E w \in Workers : Crash(w)
  BY <1>3, FaultIInv
<1>4. CASE \E k \in Tokens : \/ Begin(k) \/ BeginRaises(k) \/ EditLost(k)
                             \/ SendAccepted(k) \/ SendRaises(k)
                             \/ RememberDelivery(k) \/ RememberRaises(k)
                             \/ PatchReceipt(k) \/ PatchRaises(k)
  BY <1>4, WorkIInv
<1>5. CASE \E k \in Tokens : MarkDelivered(k) \/ RecordFailure(k) \/ Defer(k)
  BY <1>5, SettleIInv
<1>6. CASE UNCHANGED vars
  BY <1>6 DEF vars, row, IInv, RowInv, TypeOK, ActiveClaims, AbsentIsBlank,
              CopyIsCurrent, PoisonedAtLimit, SettledIsUnclaimed, SentEvidence,
              DeliveredWasSent
<1> QED
  BY <1>1, <1>2, <1>3, <1>4, <1>5, <1>6 DEF Next, Deliver

(* The rows of runtime_outbox, the copies the workers hold and the receipts
   agree in every reachable state: IInv is an invariant.                   *)
THEOREM Invariance == Spec => []IInv
  BY InitIInv, NextIInv, PTL DEF Spec

-----------------------------------------------------------------------------
(* The retry limit is exact for every schedule of workers: a row has at most
   MaxAttempts counted failures, and it is poisoned by the last of them.   *)
THEOREM PoisonedAtLimitHolds == Spec => []PoisonedAtLimit
<1>1. IInv => PoisonedAtLimit
  BY DEF IInv, RowInv
<1> QED
  BY <1>1, Invariance, PTL

(* The columns of runtime_outbox and the workers' copies keep their types. *)
THEOREM TypeCorrect == Spec => []TypeOK
<1>1. IInv => TypeOK
  BY DEF IInv, RowInv
<1> QED
  BY <1>1, Invariance, PTL

(* No event is marked delivered that its receiver never got. *)
THEOREM DeliveredWasSentHolds == Spec => []DeliveredWasSent
<1>1. IInv => DeliveredWasSent
  BY DEF IInv
<1> QED
  BY <1>1, Invariance, PTL

(* Outcomes are final, whatever a late worker does. *)
THEOREM OutcomeIsFinalHolds == Spec => OutcomeIsFinal
<1> DEFINE Final == \A e \in Events : /\ poisoned[e] => poisoned'[e]
                                      /\ delivered[e] => delivered'[e] \/ ~exists'[e]
<1>1. IInv /\ [Next]_vars => [Final]_vars
  <2> SUFFICES ASSUME IInv, Next PROVE Final
    OBVIOUS
  <2>1. ASSUME NEW k \in Tokens, MarkDelivered(k) \/ RecordFailure(k) \/ Defer(k)
        PROVE  Final
    <3>0. PICK e \in Events : e = claim[k].event
      BY <2>1 DEF IInv, RowInv, ActiveClaims, MarkDelivered, RecordFailure, Defer
    <3>1. claim[k].stage # "free" /\ Holds(k)
      BY <2>1 DEF MarkDelivered, RecordFailure, Defer
    <3>2. ~delivered[e] /\ ~poisoned[e]
      BY <3>0, <3>1, FenceFacts DEF IInv
    <3>3. \A d \in Events : d # e => /\ delivered'[d] = delivered[d]
                                     /\ poisoned'[d] = poisoned[d]
      BY <2>1, <3>0 DEF IInv, RowInv, TypeOK, MarkDelivered, RecordFailure, Defer
    <3> QED
      BY <3>2, <3>3
  <2>2. ASSUME NEW e \in Events, Prune(e) PROVE Final
    BY <2>2 DEF Prune, IInv, RowInv, TypeOK
  <2>3. CASE delivered' = delivered /\ poisoned' = poisoned
    BY <2>3
  <2> QED
    BY <2>1, <2>2, <2>3
    DEF Next, Deliver, Emit, RunReady, Expire, BackoffEnds, Claim, ClaimRows, ClaimBatch,
        Crash, SettleRaises, Begin, BeginRaises, EditLost, SendAccepted, SendRaises,
         RememberDelivery, RememberRaises, PatchReceipt, PatchRaises, Fenced, row
<1> QED
  BY <1>1, Invariance, PTL DEF Spec, OutcomeIsFinal

-----------------------------------------------------------------------------
(* Every step of the outbox is a step of AtLeastOnceDelivery or none. *)
LEMMA StepSimulation ==
    ASSUME IInv, [Next]_vars
    PROVE  [Abstract!Next]_<<statusOf, wasSent>>
<1> USE OutboxAssumptions
<1>1. ASSUME NEW e \in Events, Emit(e)
      PROVE  UNCHANGED <<statusOf, wasSent>> \/ Abstract!Accept(e)
  <2>1. CASE exists[e]
    <3>1. exists' = exists
      BY <1>1, <2>1 DEF Emit, IInv, RowInv, TypeOK
    <3> QED
      BY <1>1, <3>1 DEF Emit, statusOf
  <2>2. CASE ~exists[e]
    <3>1. ~delivered[e] /\ ~poisoned[e]
      BY <2>2 DEF IInv, RowInv, AbsentIsBlank
    <3>2. statusOf[e] = "absent"
      BY <2>2 DEF statusOf
    <3>3. statusOf' = [statusOf EXCEPT ![e] = "owed"]
      BY <1>1, <3>1 DEF Emit, statusOf, IInv, RowInv, TypeOK
    <3> QED
      BY <1>1, <3>2, <3>3 DEF Emit, Abstract!Accept, Abstract!Move
  <2> QED
    BY <2>1, <2>2
<1>2. ASSUME NEW e \in Events, Prune(e) PROVE Abstract!Forget(e)
  <2>1. statusOf[e] = "confirmed"
    BY <1>2 DEF Prune, statusOf
  <2>2. statusOf' = [statusOf EXCEPT ![e] = "absent"]
    BY <1>2 DEF Prune, statusOf, IInv, RowInv, TypeOK
  <2> QED
    BY <1>2, <2>1, <2>2 DEF Prune, Abstract!Forget, Abstract!Move
<1>3. ASSUME NEW k \in Tokens, MarkDelivered(k) \/ RecordFailure(k) \/ Defer(k)
      PROVE  \/ UNCHANGED <<statusOf, wasSent>>
             \/ \E e \in Events : Abstract!Confirm(e) \/ Abstract!GiveUp(e)
  <2>0. PICK e \in Events : e = claim[k].event
    BY <1>3 DEF IInv, RowInv, ActiveClaims, MarkDelivered, RecordFailure, Defer
  <2>1. claim[k].stage # "free" /\ Holds(k)
    BY <1>3 DEF MarkDelivered, RecordFailure, Defer
  <2>2. exists[e] /\ ~delivered[e] /\ ~poisoned[e]
    BY <2>0, <2>1, FenceFacts DEF IInv
  <2>3. statusOf[e] = "owed"
    BY <2>2 DEF statusOf
  <2>4. CASE MarkDelivered(k)
    <3>1. wasSent[e]
      BY <2>0, <2>4 DEF IInv, SentEvidence, MarkDelivered
    <3>2. statusOf' = [statusOf EXCEPT ![e] = "confirmed"]
      BY <2>0, <2>2, <2>4 DEF MarkDelivered, statusOf, IInv, RowInv, TypeOK
    <3> QED
      BY <2>3, <2>4, <3>1, <3>2 DEF MarkDelivered, Abstract!Confirm, Abstract!Move
  <2>5. CASE RecordFailure(k) /\ Poisons(claim[k].retry)
    <3>1. statusOf' = [statusOf EXCEPT ![e] = "dead"]
      BY <2>0, <2>2, <2>5 DEF RecordFailure, statusOf, IInv, RowInv, TypeOK
    <3> QED
      BY <2>3, <2>5, <3>1 DEF RecordFailure, Abstract!GiveUp, Abstract!Move
  <2>6. CASE Defer(k) \/ (RecordFailure(k) /\ ~Poisons(claim[k].retry))
    <3>1. exists' = exists /\ delivered' = delivered /\ wasSent' = wasSent
      BY <2>6 DEF Defer, RecordFailure
    <3>2. \A d \in Events : poisoned'[d] <=> poisoned[d]
      BY <2>0, <2>2, <2>6 DEF Defer, RecordFailure, IInv, RowInv, TypeOK
    <3> QED
      BY <3>1, <3>2 DEF statusOf
  <2> QED
    BY <1>3, <2>4, <2>5, <2>6
<1>4. ASSUME NEW k \in Tokens, EditLost(k) \/ SendAccepted(k) \/ SendRaises(k)
      PROVE  UNCHANGED <<statusOf, wasSent>> \/ \E e \in Events : Abstract!Send(e)
  <2>1. claim[k].event \in Events
    BY <1>4 DEF IInv, RowInv, ActiveClaims, EditLost, SendAccepted, SendRaises, Sending
  <2>2. statusOf' = statusOf
    BY <1>4 DEF EditLost, SendAccepted, SendRaises, row, statusOf
  <2> QED
    BY <1>4, <2>1, <2>2 DEF EditLost, SendAccepted, SendRaises, Abstract!Send
<1>5. CASE UNCHANGED <<exists, delivered, poisoned, wasSent>>
  BY <1>5 DEF statusOf
<1>6. CASE UNCHANGED vars
  BY <1>6 DEF vars, row, statusOf
<1> QED
  BY <1>1, <1>2, <1>3, <1>4, <1>5, <1>6
  DEF Next, Deliver, RunReady, Expire, BackoffEnds, Claim, ClaimRows, ClaimBatch, Crash,
      SettleRaises, Begin, BeginRaises, RememberDelivery, RememberRaises, PatchReceipt,
      PatchRaises, Fenced, row, Abstract!Next

(* The outbox is an at-least-once queue for every number of workers and every
   crash, lost answer and overrun claim.                                   *)
THEOREM Refinement == Spec => ImplementsAtLeastOnce
<1>1. Init => Abstract!Init
  BY DEF Init, Abstract!Init, statusOf
<1>2. IInv /\ [Next]_vars => [Abstract!Next]_<<statusOf, wasSent>>
  BY StepSimulation
<1> QED
  BY <1>1, <1>2, Invariance, PTL DEF Spec, ImplementsAtLeastOnce, Abstract!Spec
-----------------------------------------------------------------------------
(* The claims under way that may still send event e, or give it back unsent. *)
Waiting(e) == {k \in Tokens : /\ claim[k].event = e
                              /\ claim[k].stage \in {"queued", "sending", "resending", "deferring"}}

(* The row of e is there for the next claim. *)
Free(e) == exists[e] /\ ~delivered[e] /\ ~poisoned[e] /\ claimToken[e] = NoToken
Owed(e) == IF Free(e) THEN 1 ELSE 0

(* Inductive, with IInv: each send that may still come without a further cause,
   by a claim under way or by the next claim of the row, has its credit.     *)
CreditInv ==
    \A e \in Events : /\ IsFiniteSet(Waiting(e))
                      /\ Cardinality(Waiting(e)) + Owed(e) <= resendCredit[e]

(* Nothing is owed at the start. *)
LEMMA InitCreditInv == Init => CreditInv
<1> SUFFICES ASSUME Init, NEW e \in Events
             PROVE  /\ IsFiniteSet(Waiting(e))
                    /\ Cardinality(Waiting(e)) + Owed(e) <= resendCredit[e]
  BY DEF CreditInv
<1>1. Waiting(e) = {}
  BY DEF Init, FreeClaim, Waiting
<1>2. Owed(e) = 0 /\ resendCredit[e] = 0
  BY DEF Init, Owed, Free
<1> QED BY <1>1, <1>2, FS_EmptySet

(* The count of one event in a step in which no claim of it begins ... *)
LEMMA NoMoreWaiting ==
    ASSUME TypeOK, TypeOK', CreditInv, NEW e \in Events, Waiting(e)' \subseteq Waiting(e),
           Owed(e)' - Owed(e) <= resendCredit'[e] - resendCredit[e]
    PROVE  /\ IsFiniteSet(Waiting(e)')
           /\ Cardinality(Waiting(e)') + Owed(e)' <= resendCredit'[e]
<1>1. IsFiniteSet(Waiting(e)') /\ Cardinality(Waiting(e)') <= Cardinality(Waiting(e))
  BY FS_Subset DEF CreditInv
<1>2. Cardinality(Waiting(e)') \in Nat /\ Cardinality(Waiting(e)) \in Nat
  BY <1>1, FS_CardinalityType DEF CreditInv
<1>3. Owed(e) \in Int /\ Owed(e)' \in Int /\ resendCredit[e] \in Int /\ resendCredit'[e] \in Int
  BY DEF Owed, TypeOK
<1>4. Cardinality(Waiting(e)) + Owed(e) <= resendCredit[e]
  BY DEF CreditInv
<1> QED BY <1>1, <1>2, <1>3, <1>4

(* ... in one in which a claim of it sends or gives it back ... *)
LEMMA OneFewerWaiting ==
    ASSUME TypeOK, TypeOK', CreditInv, NEW e \in Events, NEW k \in Waiting(e),
           Waiting(e)' \subseteq Waiting(e) \ {k},
           Owed(e)' - Owed(e) <= resendCredit'[e] - resendCredit[e] + 1
    PROVE  /\ IsFiniteSet(Waiting(e)')
           /\ Cardinality(Waiting(e)') + Owed(e)' <= resendCredit'[e]
<1>1. IsFiniteSet(Waiting(e) \ {k}) /\ Cardinality(Waiting(e) \ {k}) = Cardinality(Waiting(e)) - 1
  BY FS_RemoveElement DEF CreditInv
<1>2. IsFiniteSet(Waiting(e)') /\ Cardinality(Waiting(e)') <= Cardinality(Waiting(e) \ {k})
  BY <1>1, FS_Subset
<1>3. Cardinality(Waiting(e)') \in Nat /\ Cardinality(Waiting(e)) \in Nat
  BY <1>2, FS_CardinalityType DEF CreditInv
<1>4. Owed(e) \in Int /\ Owed(e)' \in Int /\ resendCredit[e] \in Int /\ resendCredit'[e] \in Int
  BY DEF Owed, TypeOK
<1>5. Cardinality(Waiting(e)) + Owed(e) <= resendCredit[e]
  BY DEF CreditInv
<1> QED BY <1>1, <1>2, <1>3, <1>4, <1>5

(* ... and in one in which its row is claimed. *)
LEMMA OneMoreWaiting ==
    ASSUME TypeOK, TypeOK', CreditInv, NEW e \in Events, NEW k, k \notin Waiting(e),
           Waiting(e)' = Waiting(e) \cup {k},
           Owed(e)' - Owed(e) <= resendCredit'[e] - resendCredit[e] - 1
    PROVE  /\ IsFiniteSet(Waiting(e)')
           /\ Cardinality(Waiting(e)') + Owed(e)' <= resendCredit'[e]
<1>1. IsFiniteSet(Waiting(e)') /\ Cardinality(Waiting(e)') = Cardinality(Waiting(e)) + 1
  BY FS_AddElement DEF CreditInv
<1>2. Cardinality(Waiting(e)) \in Nat
  BY FS_CardinalityType DEF CreditInv
<1>3. Owed(e) \in Int /\ Owed(e)' \in Int /\ resendCredit[e] \in Int /\ resendCredit'[e] \in Int
  BY DEF Owed, TypeOK
<1>4. Cardinality(Waiting(e)) + Owed(e) <= resendCredit[e]
  BY DEF CreditInv
<1> QED BY <1>1, <1>2, <1>3, <1>4

(* An insert is a cause; deletion, time and the run's end are none and need none. *)
LEMMA EnvironmentCredit ==
    ASSUME IInv, TypeOK', CreditInv, NEW d \in Events,
           Emit(d) \/ Prune(d) \/ RunReady(d) \/ Expire(d) \/ BackoffEnds(d)
    PROVE  CreditInv'
<1>0. SUFFICES ASSUME NEW e \in Events
               PROVE  /\ Waiting(e)' \subseteq Waiting(e)
                      /\ Owed(e)' - Owed(e) <= resendCredit'[e] - resendCredit[e]
  BY NoMoreWaiting DEF IInv, RowInv, CreditInv
<1>1. UNCHANGED claim
  BY DEF Emit, Prune, RunReady, Expire, BackoffEnds, row
<1>2. Waiting(e)' = Waiting(e)
  BY <1>1 DEF Waiting
<1>3. resendCredit[e] \in Int /\ Owed(e) \in {0, 1} /\ Owed(e)' \in {0, 1}
  BY DEF IInv, RowInv, TypeOK, Owed
<1>4. CASE Emit(d)
  <2>1. CASE e = d /\ ~exists[d]
    <3>1. resendCredit'[e] = resendCredit[e] + 1
      BY <1>4, <2>1 DEF Emit, IInv, RowInv, TypeOK
    <3>2. Owed(e) = 0
      BY <2>1 DEF Owed, Free
    <3> QED BY <1>2, <1>3, <3>1, <3>2
  <2>2. CASE ~(e = d /\ ~exists[d])
    <3>1. resendCredit'[e] = resendCredit[e]
      BY <1>4, <2>2 DEF Emit, IInv, RowInv, TypeOK
    <3>2. Free(e)' <=> Free(e)
      BY <1>4, <2>2 DEF Emit, Free, IInv, RowInv, TypeOK
    <3>3. Owed(e)' = Owed(e)
      BY <3>2 DEF Owed
    <3> QED BY <1>2, <1>3, <3>1, <3>3
  <2> QED BY <2>1, <2>2
<1>5. CASE Prune(d)
  <2>1. Free(e)' => Free(e)
    BY <1>5 DEF Prune, Free, IInv, RowInv, TypeOK
  <2>2. Owed(e)' <= Owed(e)
    BY <2>1 DEF Owed
  <2> QED BY <1>2, <1>3, <1>5, <2>2 DEF Prune
<1>6. CASE RunReady(d) \/ Expire(d) \/ BackoffEnds(d)
  <2>1. Owed(e)' = Owed(e) /\ resendCredit'[e] = resendCredit[e]
    BY <1>6 DEF RunReady, Expire, BackoffEnds, row, Owed, Free
  <2> QED BY <1>2, <1>3, <2>1
<1> QED BY <1>4, <1>5, <1>6

(* A claim of an unclaimed row uses what the row was owed, one of an expired claim
   is a cause of its own.                                                   *)
LEMMA ClaimCredit ==
    ASSUME IInv, TypeOK', CreditInv, NEW w \in Workers, Claim(w)
    PROVE  CreditInv'
<1> USE OutboxAssumptions
<1>0. PICK S \in SUBSET Events :
        \E token \in [S -> FreshTokens] : ClaimBatch(w, S, token)
  BY DEF Claim, ClaimRows
<1>1. PICK token \in [S -> FreshTokens] : ClaimBatch(w, S, token)
  BY <1>0
<1>2. \A d \in S : token[d] \in Tokens /\ claim[token[d]].stage = "free"
  BY <1>1 DEF FreshTokens
<1>3. \A d \in S : claim'[token[d]].event = d /\ claim'[token[d]].stage = "queued"
  <2> SUFFICES ASSUME NEW d \in S
               PROVE  claim'[token[d]].event = d /\ claim'[token[d]].stage = "queued"
    OBVIOUS
  <2>1. (CHOOSE c \in S : token[c] = token[d]) = d
    BY <1>1 DEF ClaimBatch
  <2>2. claim'[token[d]] = [stage |-> "queued", worker |-> w, event |-> d,
                            retry |-> retryCount[d], receipt |-> receipt[d]]
    BY <1>1, <1>2, <2>1 DEF ClaimBatch
  <2> QED BY <2>2
<1>4. \A k \in Tokens : (\A d \in S : token[d] # k) => claim'[k] = claim[k]
  BY <1>1 DEF ClaimBatch
<1>5. SUFFICES ASSUME NEW e \in Events
               PROVE  /\ IsFiniteSet(Waiting(e)')
                      /\ Cardinality(Waiting(e)') + Owed(e)' <= resendCredit'[e]
  BY DEF CreditInv
<1>6. resendCredit[e] \in Int /\ TypeOK
  BY DEF IInv, RowInv, TypeOK
<1>7. CASE e \in S
  <2>1. token[e] \notin Waiting(e)
    BY <1>2, <1>7 DEF Waiting
  <2>2. Waiting(e)' = Waiting(e) \cup {token[e]}
    <3>1. ASSUME NEW k \in Tokens
          PROVE  k \in Waiting(e)' <=> k \in Waiting(e) \/ k = token[e]
      <4>1. CASE \A d \in S : token[d] # k
        BY <1>4, <1>7, <4>1 DEF Waiting
      <4>2. CASE \E d \in S : token[d] = k
        <5>1. PICK d \in S : token[d] = k
          BY <4>2
        <5>2. claim'[k].event = d /\ claim'[k].stage = "queued" /\ k \notin Waiting(e)
          BY <1>2, <1>3, <5>1 DEF Waiting
        <5>3. k \in Waiting(e)' <=> d = e
          BY <5>2 DEF Waiting
        <5>4. d = e <=> k = token[e]
          BY <1>1, <1>7, <5>1 DEF ClaimBatch
        <5> QED BY <5>2, <5>3, <5>4
      <4> QED BY <4>1, <4>2
    <3> QED BY <1>2, <1>7, <3>1 DEF Waiting
  <2>3. claimToken'[e] = token[e]
    BY <1>1, <1>7 DEF ClaimBatch
  <2>4. Owed(e)' = 0
    BY <1>2, <1>7, <2>3 DEF Owed, Free
  <2>5. Owed(e)' - Owed(e) <= resendCredit'[e] - resendCredit[e] - 1
    <3>1. CASE expired[e]
      <4>1. resendCredit'[e] = resendCredit[e] + 1
        BY <1>1, <1>7, <3>1 DEF ClaimBatch
      <4>2. Owed(e) \in {0, 1}
        BY DEF Owed
      <4> QED BY <1>6, <2>4, <4>1, <4>2
    <3>2. CASE ~expired[e]
      <4>1. resendCredit'[e] = resendCredit[e]
        BY <1>1, <1>7, <3>2 DEF ClaimBatch
      <4>2. Owed(e) = 1
        BY <1>1, <1>7, <3>2 DEF ClaimBatch, Claimable, Owed, Free
      <4> QED BY <1>6, <2>4, <4>1, <4>2
    <3> QED BY <3>1, <3>2
  <2> QED BY <1>6, <2>1, <2>2, <2>5, OneMoreWaiting
<1>8. CASE e \notin S
  <2>1. Waiting(e)' \subseteq Waiting(e)
    <3>1. ASSUME NEW k \in Tokens, k \in Waiting(e)' PROVE k \in Waiting(e)
      BY <1>3, <1>4, <1>8, <3>1 DEF Waiting
    <3> QED BY <3>1 DEF Waiting
  <2>2. Owed(e)' = Owed(e) /\ resendCredit'[e] = resendCredit[e]
    BY <1>1, <1>8 DEF ClaimBatch, Owed, Free
  <2>3. Owed(e) \in {0, 1}
    BY DEF Owed
  <2> QED BY <1>6, <2>1, <2>2, <2>3, NoMoreWaiting
<1> QED BY <1>7, <1>8

(* A step of the delivery that moves claim k on leaves the other claims, and no
   claim begins to wait.                                                    *)
LEMMA MovedClaims ==
    ASSUME TypeOK, NEW k \in Tokens, NEW e \in Events,
           \A j \in Tokens \ {k} : claim'[j] = claim[j]
    PROVE  /\ Waiting(e)' \subseteq Waiting(e) \cup {k}
           /\ k \notin Waiting(e)' => Waiting(e)' \subseteq Waiting(e) \ {k}
  BY DEF Waiting

(* A send uses the credit of its claim, and the other stages use none. *)
LEMMA WorkCredit ==
    ASSUME IInv, TypeOK', CreditInv, NEW k \in Tokens,
           \/ Begin(k) \/ BeginRaises(k) \/ EditLost(k) \/ SendAccepted(k)
           \/ SendRaises(k) \/ RememberDelivery(k) \/ RememberRaises(k)
           \/ PatchReceipt(k) \/ PatchRaises(k)
    PROVE  CreditInv'
<1>0. SUFFICES ASSUME NEW e \in Events
               PROVE  /\ IsFiniteSet(Waiting(e)')
                      /\ Cardinality(Waiting(e)') + Owed(e)' <= resendCredit'[e]
  BY DEF CreditInv
<1>1. TypeOK /\ resendCredit \in [Events -> Int]
  BY DEF IInv, RowInv, TypeOK
<1>2. PICK s \in Stages : Goto(k, s)
  BY DEF Begin, BeginRaises, EditLost, SendAccepted, SendRaises,
         RememberDelivery, RememberRaises, PatchReceipt, PatchRaises, Stages, Sending, Settling
<1>3. /\ claim'[k].stage = s /\ claim'[k].event = claim[k].event
      /\ \A j \in Tokens \ {k} : claim'[j] = claim[j]
  BY <1>1, <1>2 DEF TypeOK, ClaimRecords, Goto
<1>4. UNCHANGED <<exists, delivered, poisoned, claimToken>>
  BY DEF Begin, BeginRaises, EditLost, SendAccepted, SendRaises,
         RememberDelivery, RememberRaises, PatchReceipt, PatchRaises, row
<1>5. Owed(e)' = Owed(e) /\ Owed(e) \in {0, 1}
  BY <1>4 DEF Owed, Free
<1>6. CASE Begin(k) \/ BeginRaises(k) \/ EditLost(k)
  <2>1. Waiting(e)' \subseteq Waiting(e)
    BY <1>3, <1>6 DEF Begin, BeginRaises, EditLost, Waiting
  <2>2. resendCredit' = resendCredit
    BY <1>6 DEF Begin, BeginRaises, EditLost
  <2> QED BY <1>1, <1>5, <2>1, <2>2, NoMoreWaiting
<1>7. CASE SendAccepted(k) \/ SendRaises(k)
  <2>1. /\ claim[k].stage \in Sending
        /\ s \notin {"queued", "sending", "resending", "deferring"}
    <3>1. claim'[k].stage \in {"marking", "accepted", "failing"}
      BY <1>1, <1>7 DEF SendAccepted, SendRaises, Goto, TypeOK, ClaimRecords
    <3> QED BY <1>3, <1>7, <3>1 DEF SendAccepted, SendRaises
  <2>2. k \notin Waiting(e)'
    BY <1>3, <2>1 DEF Waiting
  <2>3. Waiting(e)' \subseteq Waiting(e) \ {k}
    BY <1>1, <1>3, <2>2, MovedClaims
  <2>4. CASE claim[k].event = e
    <3>1. k \in Waiting(e)
      BY <2>1, <2>4 DEF Waiting, Sending
    <3>2. resendCredit'[e] = resendCredit[e] - 1 \/ resendCredit'[e] = resendCredit[e]
      BY <1>1, <1>7, <2>4 DEF SendAccepted, SendRaises
    <3>3. Owed(e)' - Owed(e) <= resendCredit'[e] - resendCredit[e] + 1
      BY <1>1, <1>5, <3>2
    <3> QED BY <1>1, <2>3, <3>1, <3>3, OneFewerWaiting
  <2>5. CASE claim[k].event # e
    <3>1. resendCredit'[e] = resendCredit[e]
      BY <1>1, <1>7, <2>5 DEF SendAccepted, SendRaises
    <3>2. Owed(e)' - Owed(e) <= resendCredit'[e] - resendCredit[e]
      BY <1>1, <1>5, <3>1
    <3> QED BY <1>1, <2>3, <3>2, NoMoreWaiting
  <2> QED BY <2>4, <2>5
<1>8. CASE RememberDelivery(k) \/ RememberRaises(k) \/ PatchReceipt(k) \/ PatchRaises(k)
  <2>1. s \in {"receipting", "failing", "marking"}
    <3>1. claim'[k].stage \in {"receipting", "failing", "marking"}
      BY <1>1, <1>8 DEF RememberDelivery, RememberRaises, PatchReceipt, PatchRaises, Goto,
         TypeOK, ClaimRecords
    <3> QED BY <1>3, <3>1
  <2>2. k \notin Waiting(e)'
    BY <1>3, <2>1 DEF Waiting
  <2>3. Waiting(e)' \subseteq Waiting(e)
    BY <1>1, <1>3, <2>2, MovedClaims
  <2>4. resendCredit' = resendCredit
    BY <1>8 DEF RememberDelivery, RememberRaises, PatchReceipt, PatchRaises
  <2> QED BY <1>1, <1>5, <2>3, <2>4, NoMoreWaiting
<1> QED BY <1>6, <1>7, <1>8

(* A counted failure is a cause; a claim that gives its row back unsent returns
   its credit to the row; one that is fenced off, or dies, keeps nothing.   *)
LEMMA SettleCredit ==
    ASSUME IInv, TypeOK', CreditInv, NEW k \in Tokens,
           \/ MarkDelivered(k) \/ RecordFailure(k) \/ Defer(k) \/ SettleRaises(k)
           \/ \E stage \in Settling : Fenced(k, stage)
    PROVE  CreditInv'
<1> USE OutboxAssumptions
<1>0. SUFFICES ASSUME NEW e \in Events
               PROVE  /\ IsFiniteSet(Waiting(e)')
                      /\ Cardinality(Waiting(e)') + Owed(e)' <= resendCredit'[e]
  BY DEF CreditInv
<1>1. /\ TypeOK /\ resendCredit \in [Events -> Int]
      /\ Owed(e) \in {0, 1} /\ Owed(e)' \in {0, 1}
  BY DEF IInv, RowInv, TypeOK, Owed
<1>2. Done(k)
  BY DEF MarkDelivered, RecordFailure, Defer, SettleRaises, Fenced
<1>3. claim'[k] = FreeClaim /\ \A j \in Tokens \ {k} : claim'[j] = claim[j]
  BY <1>1, <1>2 DEF Done, TypeOK
<1>4. Waiting(e)' \subseteq Waiting(e) \ {k}
  <2>1. k \notin Waiting(e)'
    BY <1>3 DEF Waiting, FreeClaim
  <2> QED BY <1>1, <1>3, <2>1, MovedClaims
<1>5. CASE MarkDelivered(k)
  <2>1. Free(e)' => Free(e)
    BY <1>1, <1>5 DEF MarkDelivered, Unclaim, Free, TypeOK
  <2>2. resendCredit' = resendCredit /\ Owed(e)' <= Owed(e)
    BY <1>5, <2>1 DEF MarkDelivered, Owed
  <2> QED BY <1>1, <1>4, <2>2, NoMoreWaiting
<1>6. CASE RecordFailure(k)
  <2>1. CASE claim[k].event = e
    <3>1. resendCredit'[e] = resendCredit[e] + 1
      BY <1>1, <1>6, <2>1 DEF RecordFailure
    <3>2. Owed(e)' - Owed(e) <= resendCredit'[e] - resendCredit[e]
      BY <1>1, <3>1
    <3> QED BY <1>1, <1>4, <3>2, NoMoreWaiting
  <2>2. CASE claim[k].event # e
    <3>1. resendCredit'[e] = resendCredit[e] /\ (Free(e)' <=> Free(e))
      BY <1>1, <1>6, <2>2 DEF RecordFailure, Unclaim, Free, TypeOK
    <3>2. Owed(e)' - Owed(e) <= resendCredit'[e] - resendCredit[e]
      BY <1>1, <3>1 DEF Owed
    <3> QED BY <1>1, <1>4, <3>2, NoMoreWaiting
  <2> QED BY <2>1, <2>2
<1>7. CASE Defer(k)
  <2>0. resendCredit' = resendCredit
    BY <1>7 DEF Defer
  <2>1. CASE claim[k].event = e
    <3>1. k \in Waiting(e)
      BY <1>7, <2>1 DEF Defer, Waiting
    <3>2. Owed(e)' - Owed(e) <= resendCredit'[e] - resendCredit[e] + 1
      BY <1>1, <2>0
    <3> QED BY <1>1, <1>4, <3>1, <3>2, OneFewerWaiting
  <2>2. CASE claim[k].event # e
    <3>1. Free(e)' <=> Free(e)
      BY <1>1, <1>7, <2>2 DEF Defer, Unclaim, Free, TypeOK
    <3>2. Owed(e)' - Owed(e) <= resendCredit'[e] - resendCredit[e]
      BY <1>1, <2>0, <3>1 DEF Owed
    <3> QED BY <1>1, <1>4, <3>2, NoMoreWaiting
  <2> QED BY <2>1, <2>2
<1>8. CASE SettleRaises(k) \/ \E stage \in Settling : Fenced(k, stage)
  <2>1. Owed(e)' = Owed(e) /\ resendCredit' = resendCredit
    BY <1>8 DEF SettleRaises, Fenced, row, Owed, Free
  <2> QED BY <1>1, <1>4, <2>1, NoMoreWaiting
<1> QED BY <1>5, <1>6, <1>7, <1>8

(* Every step keeps the credits. *)
LEMMA NextCreditInv == IInv /\ CreditInv /\ [Next]_vars => CreditInv'
<1> SUFFICES ASSUME IInv, CreditInv, [Next]_vars
             PROVE  CreditInv'
  OBVIOUS
<1>1. TypeOK /\ TypeOK'
  BY NextIInv DEF IInv, RowInv
<1>2. ASSUME NEW e \in Events,
             Emit(e) \/ Prune(e) \/ RunReady(e) \/ Expire(e) \/ BackoffEnds(e)
      PROVE  CreditInv'
  BY <1>1, <1>2, EnvironmentCredit
<1>3. ASSUME NEW w \in Workers, Claim(w)
      PROVE  CreditInv'
  BY <1>1, <1>3, ClaimCredit
<1>4. ASSUME NEW w \in Workers, Crash(w)
      PROVE  CreditInv'
  <2>1. SUFFICES ASSUME NEW e \in Events
                 PROVE  /\ Waiting(e)' \subseteq Waiting(e)
                        /\ Owed(e)' - Owed(e) <= resendCredit'[e] - resendCredit[e]
    BY <1>1, NoMoreWaiting DEF CreditInv
  <2>2. Owed(e)' = Owed(e) /\ resendCredit' = resendCredit /\ Owed(e) \in {0, 1}
    BY <1>4 DEF Crash, row, Owed, Free
  <2>3. \A k \in Tokens : claim'[k] = claim[k] \/ claim'[k].stage = "free"
    BY <1>4 DEF Crash, FreeClaim
  <2>4. Waiting(e)' \subseteq Waiting(e)
    BY <2>3 DEF Waiting
  <2> QED BY <1>1, <2>2, <2>4 DEF TypeOK
<1>5. ASSUME NEW k \in Tokens, Deliver(k) \/ SettleRaises(k)
      PROVE  CreditInv'
  <2>1. CASE \/ Begin(k) \/ BeginRaises(k) \/ EditLost(k) \/ SendAccepted(k)
             \/ SendRaises(k) \/ RememberDelivery(k) \/ RememberRaises(k)
             \/ PatchReceipt(k) \/ PatchRaises(k)
    BY <1>1, <2>1, WorkCredit
  <2>2. CASE \/ MarkDelivered(k) \/ RecordFailure(k) \/ Defer(k) \/ SettleRaises(k)
             \/ \E stage \in Settling : Fenced(k, stage)
    BY <1>1, <2>2, SettleCredit
  <2> QED BY <1>5, <2>1, <2>2 DEF Deliver
<1>6. CASE UNCHANGED vars
  BY <1>6 DEF vars, row, CreditInv, Waiting, Owed, Free
<1> QED BY <1>2, <1>3, <1>4, <1>5, <1>6 DEF Next

(* Duplicates are accounted for, with any number of workers, tokens and faults:
   no claim, expired or taken over, sends an event again after an answer, and each
   send beyond the first has a cause of its own; an edit of Telegram's pending
   message whose answer was lost is one, once per delivery.                 *)
THEOREM SendsAccountedForHolds == Spec => []SendsAccountedFor
<1>1. Init => CreditInv
  BY InitCreditInv
<1>2. IInv /\ CreditInv /\ [Next]_vars => CreditInv'
  BY NextCreditInv
<1>3. IInv /\ CreditInv => SendsAccountedFor
  <2> SUFFICES ASSUME IInv, CreditInv, NEW e \in Events
               PROVE  resendCredit[e] >= 0
    BY DEF SendsAccountedFor
  <2>1. Cardinality(Waiting(e)) \in Nat
    BY FS_CardinalityType DEF CreditInv
  <2>2. Owed(e) \in {0, 1} /\ resendCredit[e] \in Int
    BY DEF Owed, IInv, RowInv, TypeOK
  <2>3. Cardinality(Waiting(e)) + Owed(e) <= resendCredit[e]
    BY DEF CreditInv
  <2> QED BY <2>1, <2>2, <2>3
<1> QED
  BY <1>1, <1>2, <1>3, Invariance, PTL DEF Spec
=============================================================================
