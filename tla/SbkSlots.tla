------------------------------ MODULE SbkSlots ------------------------------
(***************************************************************************)
(* The slots of one lane of the SwiftBaton-K RDMA transport,               *)
(* kernel/module/sbk_rdma.c: readers wait for a slot (a queue pair with    *)
(* its completion queue) in FIFO order, post the reads of a batch, poll    *)
(* the completions, and hand the slot on.  A read with an unknown outcome  *)
(* fails the session and destroys the queue pair before the pages are      *)
(* unmapped, or retains them if that is impossible.                        *)
(*                                                                         *)
(* A critical section of slot_lock is one step.  The lanes share only      *)
(* `stopped'; the other lanes' failures are the action Cancel.             *)
(***************************************************************************)
EXTENDS Naturals, Sequences, SequencesExt, FiniteSets

CONSTANTS Readers, \* threads that call sbk_rdma_reserve and sbk_rdma_read_reserved
          Slots,   \* the lane's slots
          Count,   \* the work requests of one read
          None

ASSUME SlotsAssumption ==
  /\ IsFiniteSet(Readers) /\ IsFiniteSet(Slots)
  /\ Slots # {} /\ Count \in Nat \ {0} /\ None \notin Slots

Batch == 0..(Count - 1)

VARIABLES stopped,     \* r->stopped
          quarantined, \* r->quarantined
          slot,        \* slot[s]: busy, failed, its queue pair, the retained pages
          hw,          \* hw[s]: reads the device may still write to memory for
          waiters,     \* the list r->slot_waiters
          reader       \* reader[r]: where reader r is, its slot and mapped pages

vars == <<stopped, quarantined, slot, hw, waiters, reader>>

Idle == [pc |-> "idle", slot |-> None, moved |-> FALSE, mapped |-> {}, ready |-> {}]

(* sbk_rdma_create and sbk_rdma_connect *)
Init ==
  /\ stopped = FALSE /\ quarantined = FALSE
  /\ slot = [s \in Slots |-> [busy |-> FALSE, failed |-> FALSE, qp |-> TRUE, retained |-> {}]]
  /\ hw = [s \in Slots |-> {}]
  /\ waiters = <<>>
  /\ reader = [r \in Readers |-> Idle]

Goto(r, pc) == reader' = [reader EXCEPT ![r].pc = pc]

----------------------------------------------------------------------------
(* sbk_acquire_slot: a free slot at once if nobody waits, else queue up. *)
Acquire(r) ==
  /\ reader[r].pc = "idle" /\ ~stopped
  /\ \/ \E s \in Slots :
          /\ waiters = <<>> /\ ~slot[s].busy
          /\ slot' = [slot EXCEPT ![s].busy = TRUE]
          /\ reader' = [reader EXCEPT ![r].pc = "held", ![r].slot = s]
          /\ UNCHANGED waiters
     \/ /\ waiters # <<>> \/ \A s \in Slots : slot[s].busy
        /\ waiters' = Append(waiters, r)
        /\ Goto(r, "wait") /\ UNCHANGED slot
  /\ UNCHANGED <<stopped, quarantined, hw>>

(* Its wait: ended by a slot or a cancel, renewed when the lane has made    *)
(* progress, given up after timeout_ms without progress or by a signal.     *)
(* Mutant (first): the wait does not look at stopped. *)
AwakeForSlot(r) ==
  /\ reader[r].pc = "wait" /\ reader[r].slot # None
  /\ Goto(r, "take")
  /\ UNCHANGED <<stopped, quarantined, slot, hw, waiters>>
Awake(r) ==
  /\ reader[r].pc = "wait" /\ (reader[r].slot # None \/ stopped)
  /\ Goto(r, "take")
  /\ UNCHANGED <<stopped, quarantined, slot, hw, waiters>>
WaitAgain(r) ==
  /\ reader[r].pc = "wait" /\ reader[r].moved /\ reader[r].slot = None /\ ~stopped
  /\ reader' = [reader EXCEPT ![r].moved = FALSE]
  /\ UNCHANGED <<stopped, quarantined, slot, hw, waiters>>
GiveUp(r) ==
  /\ reader[r].pc = "wait" /\ reader[r].slot = None /\ ~stopped /\ ~reader[r].moved
  /\ Goto(r, "take")
  /\ UNCHANGED <<stopped, quarantined, slot, hw, waiters>>

(* Mutant: a cancelled reader does not look whether it was given a slot. *)
TakeBlind(r) ==
  /\ reader[r].pc = "take"
  /\ waiters' = RemoveFirst(waiters, r)
  /\ reader' = [reader EXCEPT ![r] =
       IF stopped \/ reader[r].slot = None THEN Idle
       ELSE [Idle EXCEPT !.pc = "held", !.slot = reader[r].slot]]
  /\ UNCHANGED <<stopped, quarantined, slot, hw>>

(* The lock decides: a slot handed over meanwhile is kept, or released when *)
(* the session has stopped.                                                 *)
Take(r) ==
  /\ reader[r].pc = "take"
  /\ waiters' = RemoveFirst(waiters, r)
  /\ reader' = [reader EXCEPT ![r] =
       IF reader[r].slot = None THEN Idle
       ELSE [Idle EXCEPT !.pc = IF stopped THEN "release" ELSE "held", !.slot = reader[r].slot]]
  /\ UNCHANGED <<stopped, quarantined, slot, hw>>

----------------------------------------------------------------------------
(* sbk_rdma_read_reserved.  A failed slot, or a failed mapping of the       *)
(* pages, posts nothing; nor does a caller whose page was claimed by        *)
(* another while it waited.                                                 *)
NoPost(r) ==
  /\ reader[r].pc = "held"
  /\ Goto(r, "release")
  /\ UNCHANGED <<stopped, quarantined, slot, hw, waiters>>

(* ib_post_send; a failing post may have submitted a prefix of the batch. *)
Post(r) ==
  LET s == reader[r].slot
  IN  /\ reader[r].pc = "held" /\ ~slot[s].failed
      /\ \E sent \in 0..Count :
           /\ hw' = [hw EXCEPT ![s] = {i \in Batch : i < sent}]
           /\ reader' = [reader EXCEPT ![r].mapped = Batch,
                           ![r].pc = IF sent = Count THEN "poll" ELSE "quiesce"]
      /\ UNCHANGED <<stopped, quarantined, slot, waiters>>

(* ib_poll_cq returns the completion of read i: the page is unmapped and    *)
(* published at once; after the last one the slot is released.              *)
PageReady(r, i) ==
  LET s == reader[r].slot
  IN  /\ reader[r].pc = "poll" /\ i \in hw[s] /\ ~stopped /\ ~slot[s].failed
      /\ hw' = [hw EXCEPT ![s] = @ \ {i}]
      /\ reader' = [reader EXCEPT ![r].mapped = @ \ {i}, ![r].ready = @ \cup {i},
                      ![r].pc = IF reader[r].ready \cup {i} = Batch THEN "release" ELSE @]
      /\ UNCHANGED <<stopped, quarantined, slot, waiters>>

(* An error completion, a cancelled session, a failed slot or the deadline. *)
PollFail(r) ==
  /\ reader[r].pc = "poll"
  /\ Goto(r, "quiesce")
  /\ UNCHANGED <<stopped, quarantined, slot, hw, waiters>>

(* Mutant: the pages are unmapped although the queue pair lives. *)
QuarantineUnretained(r) ==
  LET s == reader[r].slot
  IN  /\ reader[r].pc = "quiesce"
      /\ slot' = [slot EXCEPT ![s].failed = TRUE]
      /\ quarantined' = TRUE /\ stopped' = TRUE
      /\ reader' = [reader EXCEPT ![r].pc = "cancel"]
      /\ UNCHANGED <<hw, waiters>>

(* sbk_slot_quiesce destroys the queue pair, which ends its DMA ... *)
Quiesce(r) ==
  LET s == reader[r].slot
  IN  /\ reader[r].pc = "quiesce"
      /\ slot' = [slot EXCEPT ![s].failed = TRUE, ![s].qp = FALSE]
      /\ hw' = [hw EXCEPT ![s] = {}]
      /\ Goto(r, "cancel")
      /\ UNCHANGED <<stopped, quarantined, waiters>>

(* ... or fails to: the session is quarantined and the pages retained. *)
Quarantine(r) ==
  LET s == reader[r].slot
  IN  /\ reader[r].pc = "quiesce"
      /\ slot' = [slot EXCEPT ![s].failed = TRUE, ![s].retained = reader[r].mapped]
      /\ quarantined' = TRUE /\ stopped' = TRUE
      /\ reader' = [reader EXCEPT ![r].pc = "cancel", ![r].mapped = {}]
      /\ UNCHANGED <<hw, waiters>>

(* sbk_rdma_cancel after a failed read, and the unmapping of what is left *)
FailSession(r) ==
  /\ reader[r].pc = "cancel"
  /\ stopped' = TRUE
  /\ reader' = [reader EXCEPT ![r].pc = "release", ![r].mapped = {}]
  /\ UNCHANGED <<quarantined, slot, hw, waiters>>

(* Mutant: the slot goes to the newest waiter. *)
ReleaseNewest(r) ==
  LET s == reader[r].slot
      handed == ~stopped /\ waiters # <<>>
  IN  /\ reader[r].pc = "release"
      /\ slot' = IF handed THEN slot ELSE [slot EXCEPT ![s].busy = FALSE]
      /\ waiters' = IF handed THEN Front(waiters) ELSE waiters
      /\ reader' = [x \in Readers |->
            IF x = r THEN Idle
            ELSE [reader[x] EXCEPT !.slot = IF handed /\ x = Last(waiters) THEN s ELSE @,
                                   !.moved = reader[x].pc = "wait"]]
      /\ UNCHANGED <<stopped, quarantined, hw>>

(* sbk_rdma_release: to the first waiter, else free; progress for all. *)
Release(r) ==
  LET s == reader[r].slot
      handed == ~stopped /\ waiters # <<>>
  IN  /\ reader[r].pc = "release"
      /\ slot' = IF handed THEN slot ELSE [slot EXCEPT ![s].busy = FALSE]
      /\ waiters' = IF handed THEN Tail(waiters) ELSE waiters
      /\ reader' = [x \in Readers |->
            IF x = r THEN Idle
            ELSE [reader[x] EXCEPT !.slot = IF handed /\ x = Head(waiters) THEN s ELSE @,
                                   !.moved = reader[x].pc = "wait"]]
      /\ UNCHANGED <<stopped, quarantined, hw>>

(* sbk_async_event: the device reports a failed queue pair. *)
AsyncEvent(s) ==
  /\ slot[s].qp /\ slot' = [slot EXCEPT ![s].failed = TRUE]
  /\ UNCHANGED <<stopped, quarantined, hw, waiters, reader>>

(* sbk_rdma_cancel by the controller, or by another lane *)
Cancel ==
  /\ ~stopped /\ stopped' = TRUE
  /\ UNCHANGED <<quarantined, slot, hw, waiters, reader>>

ReaderStep(r) ==
  \/ Awake(r) \/ WaitAgain(r) \/ Take(r) \/ NoPost(r) \/ Post(r) \/ PollFail(r)
  \/ (\E i \in Batch : PageReady(r, i)) \/ Quiesce(r) \/ Quarantine(r) \/ FailSession(r) \/ Release(r)

Next ==
  \/ \E r \in Readers : Acquire(r) \/ GiveUp(r) \/ ReaderStep(r)
  \/ Cancel \/ \E s \in Slots : AsyncEvent(s)

Spec == Init /\ [][Next]_vars

(* Threads run on, and every poll ends (its deadline); no fairness for the  *)
(* timeout of a wait, nor for new readers, signals and device events.       *)
FairSpec == Spec /\ \A r \in Readers : WF_vars(ReaderStep(r))

----------------------------------------------------------------------------
(* Type correctness. *)
TypeOK ==
  /\ stopped \in BOOLEAN /\ quarantined \in BOOLEAN
  /\ slot \in [Slots -> [busy : BOOLEAN, failed : BOOLEAN, qp : BOOLEAN, retained : SUBSET Batch]]
  /\ hw \in [Slots -> SUBSET Batch]
  /\ waiters \in Seq(Readers)
  /\ reader \in [Readers -> [pc : {"idle", "wait", "take", "held", "poll", "quiesce", "cancel", "release"},
                             slot : Slots \cup {None}, moved : BOOLEAN,
                             mapped : SUBSET Batch, ready : SUBSET Batch]]

(* A busy slot has one owner and a free one none: no handover that races a  *)
(* timeout, a signal or a cancel loses a slot or gives it to two readers.   *)
SlotExclusive ==
  \A s \in Slots :
    Cardinality({r \in Readers : reader[r].slot = s}) = IF slot[s].busy THEN 1 ELSE 0

(* The lane never idles: nobody waits beside a free slot. *)
WorkConserving == waiters # <<>> /\ ~stopped => \A s \in Slots : slot[s].busy

(* While the device may still write to a page of a read, the page is mapped *)
(* by the reader or retained for good: no completion, timeout or failed     *)
(* teardown exposes a reused page to late DMA.                              *)
DmaFenced ==
  \A s \in Slots :
    hw[s] \subseteq slot[s].retained \cup UNION {reader[r].mapped : r \in {x \in Readers : reader[x].slot = s}}

(* Nobody who waits is overtaken: a slot is granted to the first waiter. *)
FifoGrant ==
  [][\A r \in Readers : reader[r].slot = None /\ reader'[r].slot # None /\ waiters # <<>>
        => r = Head(waiters)]_vars

(* A waiting reader gets its turn or an error without its timeout. *)
Admitted == \A r \in Readers : reader[r].pc = "wait" ~> reader[r].pc \notin {"wait", "take"}
=============================================================================
