-------------------------- MODULE MCCredentialLock --------------------------
(* CredentialLock with pids as interchangeable model values. *)
EXTENDS CredentialLock, TLC

Symmetry == Permutations(Pids)

(* The passing run says nothing of a behaviour once two operations overlapped:
   CredentialLockRace is about those.                                      *)
NoOverlap == "overlap" \notin faults

(* The race run: every record that is read is read right. *)
NoMisread == "misread" \notin faults
=============================================================================
