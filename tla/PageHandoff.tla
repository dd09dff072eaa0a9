---------------------------- MODULE PageHandoff ----------------------------
(***************************************************************************)
(* What the SwiftBaton-U scheduler promises about each page of a migration *)
(* (criu/criu/include/sb-sched.h): a page is transferred by one owner, and *)
(* is committed only by the acknowledgement of that transfer, or of the    *)
(* local copy it was reserved for before any work was submitted.           *)
(***************************************************************************)
CONSTANT Pages
VARIABLE status

Init == status \in [Pages -> {"idle", "reserved"}]

Move(p, from, to) == status[p] \in from /\ status' = [status EXCEPT ![p] = to]

Want(p) == Move(p, {"idle"}, "wanted")
Own(p) == Move(p, {"wanted"}, "owned")
Commit(p) == Move(p, {"owned", "reserved"}, "committed")
Fail(p) == Move(p, {"owned"}, "failed")

Next == \E p \in Pages : Want(p) \/ Own(p) \/ Commit(p) \/ Fail(p)

Spec == Init /\ [][Next]_status

(* A wanted page is picked up unless a page failed, and owners finish. *)
NoFailure == \A p \in Pages : status[p] # "failed"
FairSpec ==
  /\ Spec
  /\ \A p \in Pages : WF_status(NoFailure /\ Own(p)) /\ WF_status(Commit(p) \/ Fail(p))
============================================================================
