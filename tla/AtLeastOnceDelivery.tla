------------------------ MODULE AtLeastOnceDelivery ------------------------
(***************************************************************************)
(* What the runtime outbox promises the code that emits an event, with no  *)
(* claims, workers or receipts: an event that was accepted stays owed      *)
(* until it is confirmed, and it is confirmed only after it was sent, or   *)
(* it is set aside as dead.  A settled event never becomes owed again;     *)
(* only confirmed events are forgotten.                                    *)
(***************************************************************************)
CONSTANT Events

VARIABLES status,   \* "absent", "owed", "confirmed" or "dead"
          wasSent   \* TRUE once the event reached its receiver

Init == /\ status = [e \in Events |-> "absent"]
        /\ wasSent = [e \in Events |-> FALSE]

Move(e, from, to) == /\ status[e] = from
                     /\ status' = [status EXCEPT ![e] = to]
                     /\ UNCHANGED wasSent

Accept(e)  == Move(e, "absent", "owed")
Confirm(e) == wasSent[e] /\ Move(e, "owed", "confirmed")
GiveUp(e)  == Move(e, "owed", "dead")
Forget(e)  == Move(e, "confirmed", "absent")

Send(e) == /\ wasSent' = [wasSent EXCEPT ![e] = TRUE]
           /\ UNCHANGED status

Next == \E e \in Events : \/ Accept(e) \/ Send(e) \/ Confirm(e)
                          \/ GiveUp(e) \/ Forget(e)

Spec == Init /\ [][Next]_<<status, wasSent>>
=============================================================================
