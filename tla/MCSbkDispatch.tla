--------------------------- MODULE MCSbkDispatch ---------------------------
EXTENDS SbkDispatch, TLC

CONSTANTS o1, o2, a1, a2, b1, s1, bg, ft, t1, t2, t3

(* Region o1 has a background job, a prefetch job and a staging job;       *)
(* region o2 a background job.  The background pool has two threads.       *)
MCOwnerOf == (a1 :> o1) @@ (a2 :> o1) @@ (s1 :> o1) @@ (b1 :> o2)
MCPoolOf == (a1 :> bg) @@ (a2 :> ft) @@ (s1 :> bg) @@ (b1 :> bg)
MCThreadPool == (t1 :> bg) @@ (t2 :> bg) @@ (t3 :> ft)
Symmetry == Permutations({t1, t2})

(* One pool of two threads, for the temporal properties. *)
LiveOwnerOf == (a1 :> o1) @@ (s1 :> o1) @@ (b1 :> o2)
LivePoolOf == [w \in {a1, b1, s1} |-> bg]
LiveThreadPool == [t \in {t1, t2} |-> bg]
============================================================================
