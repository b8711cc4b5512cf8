--------------------------- MODULE MCSessionTurns ---------------------------
(* SessionTurns with two requests for one turn, and one for another, under the
   kernel's own lists, the lists with "ready" added, and the kernel of the tests
   (_mock_run_runtime_kernel in conftest.py), which lets every write pass. *)
EXTENDS SessionTurns

CONSTANTS r1, r2, r3, t1, t2

Retry == [r \in Requests |-> IF r = r3 THEN t2 ELSE t1]

(* SESSION_STATUSES and TURN_STATUSES *)
DeployedKernel ==
    [sessions |-> {"active", "running", "paused", "closed", "expired", "failed",
                   "terminated"},
     turns |-> {"queued", "running", "completed", "failed", "cancelled", "canceled",
                "paused"}]

ReadyKernel == [DeployedKernel EXCEPT !.sessions = @ \cup {"ready"}]

TestKernel ==
    [sessions |-> DeployedKernel.sessions \cup {"ready", "error", "interrupted"},
     turns |-> DeployedKernel.turns \cup {"error"}]

AllKernels == {DeployedKernel, ReadyKernel, TestKernel}
=============================================================================
