----------------------------- MODULE SbkRegion -----------------------------
(***************************************************************************)
(* One memory region of the SwiftBaton-K destination: the page entries of  *)
(* kernel/module/sbk_core.c, the token markers that the kernel bridge      *)
(* (kernel/patches/linux-5.15.167-sbk-pte.patch) puts in the page tables   *)
(* of the restored task and its children, and the way from the last marker *)
(* to the drain signal that lets the source retire.                        *)
(*                                                                         *)
(* The region runs its prefetch and background jobs on session pools (the  *)
(* dispatch mode of sbk_configure); SbkDispatch models the pools, and here *)
(* sbk_owner_stop is what that module establishes: it closes admission and *)
(* returns when no admitted job is left.                                   *)
(***************************************************************************)
EXTENDS Integers, FiniteSets, FiniteSetsExt

CONSTANTS N,          \* cfg.pages
          MMs,        \* address spaces that may map the region
          Parent,     \* the restored task's, where sbk_pte_arm puts the markers
          FtWorkers,  \* threads of the prefetch pool
          BgWorkers,  \* the region's background jobs
          Cov,        \* its coverage job
          Ps,         \* the PS ioctl (PRETRANSFER and PRETRANSFER_MANY)
          BatchPages, \* cfg.batch_pages
          Order,      \* c->order: the hot pages first, then the others
          Calls,      \* the optional ioctls the controller makes
          FailPages,  \* pages whose transfer may fail
          MayFail     \* the page-table side may fail: memcg charge, killed task

ASSUME RegionAssumption ==
  /\ N \in Nat \ {0} /\ BatchPages \in Nat \ {0}
  /\ Parent \in MMs /\ IsFiniteSet(MMs) /\ IsFiniteSet(BgWorkers)
  /\ Order \in [0 .. N - 1 -> 0 .. N - 1]
  /\ \A i, j \in 0 .. N - 1 : Order[i] = Order[j] => i = j
  /\ Calls \subseteq {"stage", "watch", "cancel", "close"}
  /\ FailPages \subseteq 0 .. N - 1 /\ MayFail \in BOOLEAN

Pages == 0 .. N - 1
Resolvers == MMs \cup FtWorkers \cup BgWorkers \cup {Cov}
Readers == Resolvers \cup {Ps}

VARIABLES ent,    \* ent[p]: state of entry p
          page,   \* page[p]: what entries[p].page holds
          c,      \* the sbk_context: flags, reference counts, token references
          ctl,    \* the ioctl that holds c->control, and its progress
          frozen, \* the source task is frozen for the final checkpoint
          dirty,  \* transferred pages the source has written since
          pte,    \* pte[m][p]: page-table entry of page p in address space m
          mapped, \* the address spaces that have the region's VMA
          res,    \* res[x]: the sbk_pte_fault call x is in
          io,     \* io[x]: the transfer x is waiting for
          ftq,    \* pages whose prefetch job is queued
          job     \* job[w]: the prefetch, background or coverage job w runs

vars == <<ent, page, c, ctl, frozen, dirty, pte, mapped, res, io, ftq, job>>

(* enum sbk_state *)
States == {"REMOTE", "QUEUED_BG", "QUEUED_FT", "INFLIGHT", "READY", "FAILED", "ADOPTED"}

(* A page frame of an entry: blank as allocated, fresh once it holds what   *)
(* the source holds, stale when the source wrote the page afterwards.       *)
Cached == {"blank", "fresh", "stale"}

NoCall == [pc |-> "idle", m |-> Parent, p |-> 0, got |-> "none", sent |-> FALSE]
NoIo == [pc |-> "none", pages |-> {}]
NoJob == [pc |-> "off", p |-> 0, batch |-> {}, todo |-> {}, locs |-> {}]

(* sbk_open and sbk_configure *)
Init ==
  /\ ent = [p \in Pages |-> "REMOTE"]
  /\ page = [p \in Pages |-> "none"]
  /\ c = [pretransferred |-> FALSE, sealed |-> FALSE, mapped |-> FALSE,
          armed |-> FALSE, background |-> FALSE, stopping |-> FALSE,
          errors |-> FALSE, closed |-> FALSE, admit |-> TRUE,
          refs |-> 1, token |-> [p \in Pages |-> 0], retired |-> 0,
          creator |-> {}, drop |-> FALSE, cursor |-> 0, bg_remaining |-> 0,
          coverage_cursor |-> 0, starting |-> {}, drain_started |-> FALSE, drain |-> "off",
          drained |-> FALSE, watch |-> FALSE, signaled |-> 0,
          destroy |-> "off"]
  /\ ctl = "idle"
  /\ frozen = FALSE
  /\ dirty = {}
  /\ pte = [m \in MMs |-> [p \in Pages |-> "none"]]
  /\ mapped = {Parent}
  /\ res = [x \in Resolvers |-> NoCall]
  /\ io = [x \in Readers |-> NoIo]
  /\ ftq = {}
  /\ job = [w \in FtWorkers \cup BgWorkers \cup {Cov} |-> NoJob]

----------------------------------------------------------------------------
(* References.  A token is referenced by its markers, by its creator and by *)
(* the calls that resolve it; the context by its file, its tokens and its   *)
(* two one-shot works.                                                      *)

(* kref_put of the context: sbk_release_ref queues the destruction. *)
Unref(d) ==
  [d EXCEPT !.refs = @ - 1, !.destroy = IF d.refs = 1 THEN "queued" ELSE @]

(* sbk_maybe_drain *)
MaybeDrain(d) ==
  IF d.armed /\ d.retired = N /\ ~d.drain_started
  THEN [d EXCEPT !.drain_started = TRUE, !.refs = @ + 1, !.drain = "queued"]
  ELSE d

(* sbk_anon_release: the last reference of a token is gone. *)
AnonRelease(d) == Unref(MaybeDrain([d EXCEPT !.retired = @ + 1]))

(* sbk_pte_token_put *)
TokenPut(d, p) ==
  LET e == [d EXCEPT !.token[p] = @ - 1]
  IN  IF e.token[p] = 0 THEN AnonRelease(e) ELSE e

(* sbk_token_lookup, for a token that exists *)
TokenGet(d, p) == [d EXCEPT !.token[p] = @ + 1]

(* sbk_signal_drain *)
SignalDrain(d) ==
  IF d.watch /\ d.drained /\ d.signaled = 0 THEN [d EXCEPT !.signaled = @ + 1] ELSE d

----------------------------------------------------------------------------
(* Transfers.  The caller has moved the entries to INFLIGHT and waits here  *)
(* in sbk_fetch_batch_reserved.                                             *)

(* A read of a page of S, or the reservation of a slot for it, may fail; a  *)
(* cancel fails the reads of the whole session.                             *)
MayFailRead(S) == S \cap FailPages # {} \/ c.stopping

Transfer(x, S) == io' = [io EXCEPT ![x] = [pc |-> "start", pages |-> S]]

(* sbk_publish(e, error) of all pages in S *)
PublishFailed(S) ==
  /\ ent' = [p \in Pages |-> IF p \in S THEN "FAILED" ELSE ent[p]]
  /\ c' = [c EXCEPT !.errors = TRUE]

(* sbk_prefetch_neighbors: hand the neighbours nobody works on to the       *)
(* prefetch pool; an owner that has stopped admits no job.                  *)
Neighbors(p) == {q \in Pages : q - p \in {1, -1, 2, -2}}
Prefetched(p) ==
  IF c.stopping THEN {} ELSE {q \in Neighbors(p) : ent[q] \in {"REMOTE", "QUEUED_BG"}}
PrefetchNeighbors(p) ==
  /\ ent' = [q \in Pages |-> IF q \in Prefetched(p) THEN "QUEUED_FT" ELSE ent[q]]
  /\ ftq' = IF c.admit THEN ftq \cup Prefetched(p) ELSE ftq

(* sbk_prefetch_posted: once per provider call of a user fault *)
Post(x) ==
  IF x \in MMs /\ ~res[x].sent THEN PrefetchNeighbors(res[x].p) ELSE UNCHANGED <<ent, ftq>>

(* Allocate the pages; a cancelled context fails them, else the read is     *)
(* posted, and a demand fault overlaps its neighbours with it.              *)
FetchStart(x) ==
  /\ io[x].pc = "start"
  /\ page' = [p \in Pages |-> IF p \in io[x].pages THEN "blank" ELSE page[p]]
  /\ IF c.stopping
     THEN PublishFailed(io[x].pages) /\ io' = [io EXCEPT ![x] = NoIo]
          /\ UNCHANGED <<res, ftq>>
     ELSE /\ Post(x) /\ res' = IF x \in MMs THEN [res EXCEPT ![x].sent = TRUE] ELSE res
          /\ io' = [io EXCEPT ![x].pc = "dma"]
          /\ UNCHANGED c
  /\ UNCHANGED <<ctl, frozen, dirty, pte, mapped, job>>

(* Mutant: the entry of an arrived page stays in flight. *)
PageReadyUnpublished(x, p) ==
  /\ io[x].pc = "dma" /\ p \in io[x].pages
  /\ page' = [page EXCEPT ![p] = IF p \in dirty THEN "stale" ELSE "fresh"]
  /\ io' = [io EXCEPT ![x] = IF io[x].pages = {p} THEN NoIo ELSE [@ EXCEPT !.pages = @ \ {p}]]
  /\ UNCHANGED <<ent, c, ctl, frozen, dirty, pte, mapped, res, ftq, job>>

(* sbk_batch_page_ready: one page of the batch has arrived. *)
PageReady(x, p) ==
  /\ io[x].pc = "dma" /\ p \in io[x].pages
  /\ page' = [page EXCEPT ![p] = IF p \in dirty THEN "stale" ELSE "fresh"]
  /\ ent' = [ent EXCEPT ![p] = "READY"]
  /\ io' = [io EXCEPT ![x] = IF io[x].pages = {p} THEN NoIo ELSE [@ EXCEPT !.pages = @ \ {p}]]
  /\ UNCHANGED <<c, ctl, frozen, dirty, pte, mapped, res, ftq, job>>

(* The allocation or the read fails: every page that has not been published *)
(* yet fails with it.                                                       *)
FetchFail(x) ==
  /\ io[x].pc \in {"start", "dma"} /\ MayFailRead(io[x].pages)
  /\ PublishFailed(io[x].pages)
  /\ io' = [io EXCEPT ![x] = NoIo]
  /\ UNCHANGED <<page, ctl, frozen, dirty, pte, mapped, res, ftq, job>>

----------------------------------------------------------------------------
(* The source task and the ioctls of the controller.  Each ioctl holds      *)
(* c->control from its first step to its last.                              *)

(* The source task writes a page, and is frozen for the final checkpoint;   *)
(* the dirty tracker (pre-copy in user space) remembers a page whose        *)
(* transfer has begun.                                                      *)
SourceWrite(p) ==
  /\ ~frozen /\ ent[p] \in {"INFLIGHT", "READY"}
  /\ dirty' = dirty \cup {p}
  /\ page' = [page EXCEPT ![p] = IF @ = "fresh" THEN "stale" ELSE @]
  /\ UNCHANGED <<ent, c, ctl, frozen, pte, mapped, res, io, ftq, job>>

Freeze ==
  /\ ~frozen /\ frozen' = TRUE
  /\ UNCHANGED <<ent, page, c, ctl, dirty, pte, mapped, res, io, ftq, job>>

Ioctl == ctl = "idle" /\ ~c.closed

(* sbk_stage_list for PS: transfer the pages of S that are still remote. *)
Stage(S) ==
  /\ Ioctl /\ "stage" \in Calls /\ ~c.mapped /\ ~c.sealed /\ ~c.stopping
  /\ LET claimed == {p \in S : ent[p] = "REMOTE"}
     IN  /\ claimed # {}
         /\ ent' = [p \in Pages |-> IF p \in claimed THEN "INFLIGHT" ELSE ent[p]]
         /\ Transfer(Ps, claimed)
  /\ c' = [c EXCEPT !.pretransferred = TRUE]
  /\ ctl' = "stage"
  /\ UNCHANGED <<page, frozen, dirty, pte, mapped, res, ftq, job>>

StageDone ==
  /\ ctl = "stage" /\ io[Ps] = NoIo
  /\ ctl' = "idle"
  /\ UNCHANGED <<ent, page, c, frozen, dirty, pte, mapped, res, io, ftq, job>>

(* SEAL and SEAL_REGION: drop the pages of the final dirty list, which the  *)
(* controller takes once the source is frozen.                              *)
Invalidated(S) ==
  /\ ent' = [p \in Pages |-> IF p \in S THEN "REMOTE" ELSE ent[p]]
  /\ page' = [p \in Pages |-> IF p \in S THEN "none" ELSE page[p]]
Seal(S) ==
  /\ Ioctl /\ ~c.mapped /\ ~c.sealed /\ ~c.stopping
  /\ frozen /\ dirty \subseteq S
  /\ Invalidated(S)
  /\ dirty' = {}
  /\ c' = [c EXCEPT !.sealed = TRUE]
  /\ UNCHANGED <<ctl, frozen, pte, mapped, res, io, ftq, job>>

(* Mutant: an arm does not wait for the final dirty list. *)
ArmUnsealed == Ioctl /\ ~c.mapped /\ ~c.stopping /\ frozen

(* sbk_arm_anonymous up to sbk_pte_arm: one token per page, whose creator   *)
(* reference the region holds, and a marker for it in the restored task.    *)
ArmGuard ==
  /\ Ioctl /\ ~c.mapped /\ ~c.stopping /\ frozen
  /\ c.pretransferred => c.sealed
(* Mutant: a second arm does not start counting afresh. *)
ArmKeepsRetired(d) ==
  [d EXCEPT !.token = [p \in Pages |-> 2], !.creator = Pages, !.refs = @ + N, !.mapped = TRUE]

ArmTokens(d) ==
  [d EXCEPT !.retired = 0, !.token = [p \in Pages |-> 2], !.creator = Pages,
            !.refs = @ + N, !.mapped = TRUE]
Arm ==
  /\ ArmGuard /\ Parent \in mapped
  /\ \A p \in Pages : pte[Parent][p] = "none"
  /\ pte' = [pte EXCEPT ![Parent] = [p \in Pages |-> "marker"]]
  /\ c' = ArmTokens(c)
  /\ ctl' = "arm"
  /\ UNCHANGED <<ent, page, frozen, dirty, mapped, res, io, ftq, job>>

(* sbk_pte_arm fails: its markers are zapped again before the address space *)
(* is unlocked, and every token dies with its creator reference.            *)
ArmFail ==
  /\ ArmGuard /\ MayFail
  /\ c' = [c EXCEPT !.retired = N]
  /\ UNCHANGED <<ent, page, ctl, frozen, dirty, pte, mapped, res, io, ftq, job>>

(* The rest of a successful arm: from here on the markers may retire.  The  *)
(* creator references are dropped by this ioctl or by a one-shot work.      *)
Armed(deferred) ==
  /\ ctl = "arm"
  /\ LET d == [c EXCEPT !.sealed = TRUE, !.armed = TRUE]
     IN  IF deferred
         THEN c' = MaybeDrain([d EXCEPT !.drop = TRUE, !.refs = @ + 1]) /\ ctl' = "idle"
         ELSE c' = d /\ ctl' = "drop"
  /\ UNCHANGED <<ent, page, frozen, dirty, pte, mapped, res, io, ftq, job>>

(* sbk_creator_drop_work, and the same loop of sbk_arm_anonymous *)
CreatorDrop ==
  /\ c.drop \/ ctl = "drop"
  /\ IF c.creator # {}
     THEN LET p == Min(c.creator)
          IN  c' = TokenPut([c EXCEPT !.creator = @ \ {p}], p) /\ UNCHANGED ctl
     ELSE IF c.drop
          THEN c' = Unref(MaybeDrain([c EXCEPT !.drop = FALSE])) /\ UNCHANGED ctl
          ELSE c' = MaybeDrain(c) /\ ctl' = "idle"
  /\ UNCHANGED <<ent, page, frozen, dirty, pte, mapped, res, io, ftq, job>>

(* sbk_background: hand the pages that are left to the background lane, and *)
(* queue its jobs one by one; a stopped owner refuses them.                 *)
Background ==
  /\ Ioctl /\ c.mapped /\ ~c.stopping /\ ~c.background
  /\ ent' = [p \in Pages |-> IF ent[p] = "REMOTE" THEN "QUEUED_BG" ELSE ent[p]]
  /\ c' = [c EXCEPT !.background = TRUE, !.bg_remaining = Cardinality(BgWorkers),
                    !.starting = BgWorkers]
  /\ ctl' = "background"
  /\ UNCHANGED <<page, frozen, dirty, pte, mapped, res, io, ftq, job>>

BackgroundQueue(w) ==
  /\ ctl = "background" /\ w \in c.starting
  /\ IF c.admit
     THEN job' = [job EXCEPT ![w].pc = "next"] /\ c' = [c EXCEPT !.starting = @ \ {w}]
     ELSE c' = [c EXCEPT !.starting = @ \ {w}, !.bg_remaining = @ - 1] /\ UNCHANGED job
  /\ ctl' = IF c.starting = {w} THEN "idle" ELSE ctl
  /\ UNCHANGED <<ent, page, frozen, dirty, pte, mapped, res, io, ftq>>

(* CANCEL *)
Cancel ==
  /\ Ioctl /\ "cancel" \in Calls
  /\ c' = [c EXCEPT !.stopping = TRUE]
  /\ UNCHANGED <<ent, page, ctl, frozen, dirty, pte, mapped, res, io, ftq, job>>

(* sbk_watch_drain: publish the eventfd, then look whether the region has   *)
(* drained already.                                                         *)
Watch ==
  /\ Ioctl /\ ~c.watch /\ "watch" \in Calls
  /\ c' = [c EXCEPT !.watch = TRUE]
  /\ ctl' = "watch"
  /\ UNCHANGED <<ent, page, frozen, dirty, pte, mapped, res, io, ftq, job>>

WatchSignal ==
  /\ ctl = "watch"
  /\ c' = SignalDrain(c)
  /\ ctl' = "idle"
  /\ UNCHANGED <<ent, page, frozen, dirty, pte, mapped, res, io, ftq, job>>

(* sbk_release: the controller closes the region's file. *)
Close ==
  /\ Ioctl /\ "close" \in Calls
  /\ c' = Unref([c EXCEPT !.closed = TRUE])
  /\ UNCHANGED <<ent, page, ctl, frozen, dirty, pte, mapped, res, io, ftq, job>>

----------------------------------------------------------------------------
(* The address spaces.  A resolver holds mmap_lock for reading from its     *)
(* first step to its last; fork holds it for writing.                       *)

(* Mutant: the child's markers take no reference. *)
ForkUncounted(m) ==
  /\ m \notin mapped /\ Parent \in mapped
  /\ \A x \in Resolvers : res[x].pc # "idle" => res[x].m # Parent
  /\ mapped' = mapped \cup {m}
  /\ pte' = [pte EXCEPT ![m] = [p \in Pages |->
         IF pte[Parent][p] \in {"none", "marker"} THEN pte[Parent][p] ELSE "cow"]]
  /\ UNCHANGED <<ent, page, c, ctl, frozen, dirty, res, io, ftq, job>>

(* copy_nonpresent_pte: the child's copy of a marker has its own reference; *)
(* a resolved page is shared copy-on-write like any other.                  *)
Fork(m) ==
  /\ m \notin mapped /\ Parent \in mapped
  /\ \A x \in Resolvers : res[x].pc # "idle" => res[x].m # Parent
  /\ mapped' = mapped \cup {m}
  /\ pte' = [pte EXCEPT ![m] = [p \in Pages |->
         IF pte[Parent][p] \in {"none", "marker"} THEN pte[Parent][p] ELSE "cow"]]
  /\ c' = [c EXCEPT !.token = [p \in Pages |->
         IF pte[Parent][p] = "marker" THEN @[p] + 1 ELSE @[p]]]
  /\ UNCHANGED <<ent, page, ctl, frozen, dirty, res, io, ftq, job>>

(* zap_pte_range: the application discards a page, or exits. *)
Discard(m, p) ==
  /\ pte[m][p] # "none"
  /\ pte' = [pte EXCEPT ![m][p] = "none"]
  /\ c' = IF pte[m][p] = "marker" THEN TokenPut(c, p) ELSE c
  /\ UNCHANGED <<ent, page, ctl, frozen, dirty, mapped, res, io, ftq, job>>

(* Entry of sbk_pte_fault, on a marker the caller has seen in m: take a     *)
(* token reference under the page-table lock.                               *)
Enter(x, m, p) ==
  /\ res[x].pc = "idle" /\ pte[m][p] = "marker"
  /\ res' = [res EXCEPT ![x] = [NoCall EXCEPT !.pc = "lock", !.m = m, !.p = p]]
  /\ c' = TokenGet(c, p)

(* The application touches a page that is not there yet. *)
Fault(m, p) ==
  /\ Enter(m, m, p)
  /\ UNCHANGED <<ent, page, ctl, frozen, dirty, pte, mapped, io, ftq, job>>

(* The holder of the token's resolve mutex *)
Locked(p) ==
  \E x \in Resolvers : res[x].p = p /\ res[x].pc \notin {"idle", "lock", "put"}

Goto(x, pc) == res' = [res EXCEPT ![x].pc = pc]
Sent(x, pc) == Post(x) /\ res' = [res EXCEPT ![x].pc = pc, ![x].sent = TRUE]

(* Take the mutex.  A competing resolver may have been faster; else this is *)
(* the provider's sbk_anon_get_page, which takes the cached page or, when   *)
(* an earlier resolver has adopted it, reads a page of its own.             *)
Resolve(x) ==
  /\ res[x].pc = "lock" /\ ~Locked(res[x].p)
  /\ Goto(x, IF pte[res[x].m][res[x].p] # "marker" \/ c.stopping THEN "put"
             ELSE IF ent[res[x].p] # "ADOPTED" THEN "ensure" ELSE "alloc")
  /\ UNCHANGED <<ent, page, c, ctl, frozen, dirty, pte, mapped, io, ftq, job>>

(* A killed task leaves mutex_lock_killable; the wait for another owner's   *)
(* transfer is killable and has a timeout.                                  *)
GiveUp(x) ==
  /\ MayFail
  /\ res[x].pc = "wait" \/ (res[x].pc = "lock" /\ x \in MMs)
  /\ Goto(x, "put")
  /\ UNCHANGED <<ent, page, c, ctl, frozen, dirty, pte, mapped, io, ftq, job>>

(* One iteration of sbk_ensure.  The caller that moves the entry to         *)
(* INFLIGHT owns the transfer; the others wait for it.                      *)
Ensure(x) ==
  LET p == res[x].p
  IN  /\ res[x].pc = "ensure"
      /\ \/ /\ c.stopping \/ ent[p] \in {"FAILED", "ADOPTED"}
            /\ Goto(x, "put") /\ UNCHANGED <<ent, io, ftq>>
         \/ /\ ~c.stopping /\ ent[p] = "READY"
            /\ Sent(x, "adopt") /\ UNCHANGED io
         \/ /\ ~c.stopping /\ ent[p] = "INFLIGHT"
            /\ Sent(x, "wait") /\ UNCHANGED io
         \/ /\ ~c.stopping /\ ent[p] \in {"REMOTE", "QUEUED_BG", "QUEUED_FT"}
            /\ ent' = [ent EXCEPT ![p] = "INFLIGHT"]
            /\ Transfer(x, {p}) /\ Goto(x, "fetch") /\ UNCHANGED ftq
      /\ UNCHANGED <<page, c, ctl, frozen, dirty, pte, mapped, job>>

(* Back to the loop: the own transfer has ended, or the other owner's. *)
EnsureAgain(x) ==
  /\ \/ res[x].pc = "fetch" /\ io[x] = NoIo
     \/ res[x].pc = "wait" /\ (ent[res[x].p] # "INFLIGHT" \/ c.stopping)
  /\ Goto(x, "ensure")
  /\ UNCHANGED <<ent, page, c, ctl, frozen, dirty, pte, mapped, io, ftq, job>>

(* Mutant: the entry keeps the page it has handed out. *)
AdoptShared(x) ==
  /\ res[x].pc = "adopt"
  /\ res' = [res EXCEPT ![x].pc = "have", ![x].got = page[res[x].p]]
  /\ ent' = [ent EXCEPT ![res[x].p] = "ADOPTED"]
  /\ UNCHANGED <<page, c, ctl, frozen, dirty, pte, mapped, io, ftq, job>>

(* The end of sbk_anon_get_page for the first resolver of the page *)
Adopt(x) ==
  LET p == res[x].p
  IN  /\ res[x].pc = "adopt"
      /\ res' = [res EXCEPT ![x].pc = "have", ![x].got = page[p]]
      /\ page' = [page EXCEPT ![p] = "none"]
      /\ ent' = [ent EXCEPT ![p] = "ADOPTED"]
      /\ UNCHANGED <<c, ctl, frozen, dirty, pte, mapped, io, ftq, job>>

(* ... and for a later one, which reads the source itself *)
CopyPost(x) ==
  /\ res[x].pc = "alloc"
  /\ Sent(x, "copy")
  /\ UNCHANGED <<page, c, ctl, frozen, dirty, pte, mapped, io, job>>
Copied(x) ==
  /\ res[x].pc = "copy"
  /\ \/ res' = [res EXCEPT ![x].pc = "have", ![x].got = "copy"] /\ UNCHANGED c
     \/ /\ MayFailRead({res[x].p})
        /\ Goto(x, "put") /\ c' = [c EXCEPT !.errors = TRUE]
  /\ UNCHANGED <<ent, page, ctl, frozen, dirty, pte, mapped, io, ftq, job>>

(* Install the page if the marker is still there, and drop the marker's     *)
(* reference; else, or when the memcg charge fails, free the page.          *)
Install(x) ==
  LET m == res[x].m  p == res[x].p
  IN  /\ res[x].pc = "have"
      /\ \/ /\ pte[m][p] = "marker"
            /\ pte' = [pte EXCEPT ![m][p] = res[x].got]
            /\ c' = TokenPut(c, p)
         \/ /\ pte[m][p] # "marker" \/ MayFail
            /\ UNCHANGED <<pte, c>>
      /\ res' = [res EXCEPT ![x].pc = "put", ![x].got = "none"]
      /\ UNCHANGED <<ent, page, ctl, frozen, dirty, mapped, io, ftq, job>>

(* The end of sbk_pte_fault *)
Put(x) ==
  /\ res[x].pc = "put"
  /\ c' = TokenPut(c, res[x].p)
  /\ res' = [res EXCEPT ![x] = NoCall]
  /\ UNCHANGED <<ent, page, ctl, frozen, dirty, pte, mapped, io, ftq, job>>

----------------------------------------------------------------------------
(* The jobs.  They resolve a page with sbk_pte_populate, at the address the *)
(* region was armed at, or through all its aliases.                         *)

Populate(x, m, p) == IF pte[m][p] = "marker" THEN Enter(x, m, p) ELSE UNCHANGED <<res, c>>

(* sbk_install_ahead *)
InstallAhead(x, p) == IF c.stopping THEN UNCHANGED <<res, c>> ELSE Populate(x, Parent, p)

Idle(x) == res[x].pc = "idle" /\ io[x] = NoIo

(* sbk_prefetch_step: take a queued job, reserve a transport slot, ... *)
FtTake(w, p) ==
  /\ job[w].pc = "off" /\ p \in ftq
  /\ ftq' = ftq \ {p}
  /\ job' = IF ent[p] = "QUEUED_FT" /\ ~c.stopping
            THEN [job EXCEPT ![w] = [NoJob EXCEPT !.pc = "claim", !.p = p]] ELSE job
  /\ UNCHANGED <<ent, page, c, ctl, frozen, dirty, pte, mapped, res, io>>

(* ... then claim the page, unless a fault did so meanwhile *)
FtClaim(w) ==
  LET p == job[w].p
  IN  /\ job[w].pc = "claim"
      /\ \/ /\ ent[p] # "QUEUED_FT"
            /\ job' = [job EXCEPT ![w] = NoJob] /\ UNCHANGED <<ent, c, io>>
         \/ /\ ent[p] = "QUEUED_FT" /\ MayFailRead({p})
            /\ PublishFailed({p})
            /\ job' = [job EXCEPT ![w] = NoJob] /\ UNCHANGED io
         \/ /\ ent[p] = "QUEUED_FT"
            /\ ent' = [ent EXCEPT ![p] = "INFLIGHT"]
            /\ Transfer(w, {p})
            /\ job' = [job EXCEPT ![w].pc = "fetch"] /\ UNCHANGED c
      /\ UNCHANGED <<page, ctl, frozen, dirty, pte, mapped, res, ftq>>

FtInstall(w) ==
  /\ job[w].pc = "fetch" /\ Idle(w)
  /\ InstallAhead(w, job[w].p)
  /\ job' = [job EXCEPT ![w].pc = "installed"]
  /\ UNCHANGED <<ent, page, ctl, frozen, dirty, pte, mapped, io, ftq>>

FtDone(w) ==
  /\ job[w].pc = "installed" /\ Idle(w)
  /\ job' = [job EXCEPT ![w] = NoJob]
  /\ UNCHANGED <<ent, page, c, ctl, frozen, dirty, pte, mapped, res, io, ftq>>

(* sbk_background_batches: the next batch of the shared cursor; retirement  *)
(* stops the job as cancellation does.                                      *)
BgNext(w) ==
  /\ job[w].pc = "next"
  /\ IF c.stopping \/ c.drain_started \/ c.cursor >= N
     THEN job' = [job EXCEPT ![w].pc = "finish"] /\ UNCHANGED c
     ELSE LET batch == {Order[j] : j \in {i \in Pages : i >= c.cursor /\ i < c.cursor + BatchPages}}
          IN  /\ job' = [job EXCEPT ![w] = [NoJob EXCEPT !.pc = "scan", !.batch = batch, !.todo = batch]]
              /\ c' = [c EXCEPT !.cursor = @ + BatchPages]
  /\ UNCHANGED <<ent, page, ctl, frozen, dirty, pte, mapped, res, io, ftq>>

(* The page of S that comes first in the region's order *)
First(S) == Order[Min({j \in Pages : Order[j] \in S})]

(* Pages the PS phase brought are installed before a slot is reserved. *)
BgScan(w) ==
  /\ job[w].pc = "scan" /\ Idle(w) /\ job[w].todo # {}
  /\ LET p == First(job[w].todo)
     IN  /\ IF ent[p] = "READY" THEN InstallAhead(w, p) ELSE UNCHANGED <<res, c>>
         /\ job' = [job EXCEPT ![w].todo = @ \ {p}]
  /\ UNCHANGED <<ent, page, ctl, frozen, dirty, pte, mapped, io, ftq>>

(* Claim what is still waiting for the background lane. *)
BgClaim(w) ==
  LET claimed == {p \in job[w].batch : ent[p] = "QUEUED_BG"}
  IN  /\ job[w].pc = "scan" /\ Idle(w) /\ job[w].todo = {}
      /\ job' = [job EXCEPT ![w] = [NoJob EXCEPT !.pc = "install", !.todo = claimed]]
      /\ \/ claimed = {} /\ UNCHANGED <<ent, c, io>>
         \/ claimed # {} /\ MayFailRead(claimed) /\ PublishFailed(claimed) /\ UNCHANGED io
         \/ /\ claimed # {}
            /\ ent' = [p \in Pages |-> IF p \in claimed THEN "INFLIGHT" ELSE ent[p]]
            /\ Transfer(w, claimed) /\ UNCHANGED c
      /\ UNCHANGED <<page, ctl, frozen, dirty, pte, mapped, res, ftq>>

BgInstall(w) ==
  /\ job[w].pc = "install" /\ Idle(w)
  /\ IF job[w].todo = {}
     THEN job' = [job EXCEPT ![w].pc = "next"] /\ UNCHANGED <<res, c>>
     ELSE LET p == First(job[w].todo)
          IN  InstallAhead(w, p) /\ job' = [job EXCEPT ![w].todo = @ \ {p}]
  /\ UNCHANGED <<ent, page, ctl, frozen, dirty, pte, mapped, io, ftq>>

(* sbk_background_step: the last background job queues the coverage job *)
BgFinish(w) ==
  /\ job[w].pc = "finish"
  /\ c' = [c EXCEPT !.bg_remaining = @ - 1]
  /\ job' = [job EXCEPT ![w] = NoJob, ![Cov].pc =
        IF c.bg_remaining = 1 /\ ~c.stopping /\ ~c.errors /\ c.retired < N /\ c.admit
        THEN "next" ELSE @]
  /\ UNCHANGED <<ent, page, ctl, frozen, dirty, pte, mapped, res, io, ftq>>

(* Mutant: the coverage visits the restored task only. *)
CovParentOnly ==
  LET p == Order[c.coverage_cursor]
      d == [c EXCEPT !.coverage_cursor = (@ + 1) % N]
  IN  /\ job[Cov].pc = "next"
      /\ \/ /\ c.stopping \/ c.retired = N
            /\ job' = [job EXCEPT ![Cov] = NoJob] /\ UNCHANGED c
         \/ /\ ~c.stopping /\ c.retired < N /\ (ent[p] = "FAILED" \/ c.token[p] = 0)
            /\ job' = [job EXCEPT ![Cov].pc = IF c.errors THEN "off" ELSE "next"]
            /\ c' = d
         \/ /\ ~c.stopping /\ c.retired < N /\ ent[p] # "FAILED" /\ c.token[p] > 0
            /\ job' = [job EXCEPT ![Cov].pc = "all", ![Cov].p = p, ![Cov].locs = {Parent}]
            /\ c' = TokenGet(d, p)
      /\ UNCHANGED <<ent, page, ctl, frozen, dirty, pte, mapped, res, io, ftq>>

(* sbk_coverage_step: round after round over all pages until every token   *)
(* has retired.  sbk_pte_populate_all references the token and takes a      *)
(* snapshot of the address spaces that map the page.                        *)
CovNext ==
  LET p == Order[c.coverage_cursor]
      d == [c EXCEPT !.coverage_cursor = (@ + 1) % N]
  IN  /\ job[Cov].pc = "next"
      /\ \/ /\ c.stopping \/ c.retired = N
            /\ job' = [job EXCEPT ![Cov] = NoJob] /\ UNCHANGED c
         \/ /\ ~c.stopping /\ c.retired < N
            /\ ent[p] = "FAILED" \/ c.token[p] = 0
            /\ job' = [job EXCEPT ![Cov].pc = IF c.errors THEN "off" ELSE "next"]
            /\ c' = d
         \/ /\ ~c.stopping /\ c.retired < N
            /\ ent[p] # "FAILED" /\ c.token[p] > 0
            /\ job' = [job EXCEPT ![Cov].pc = "all", ![Cov].p = p, ![Cov].locs = mapped]
            /\ c' = TokenGet(d, p)
      /\ UNCHANGED <<ent, page, ctl, frozen, dirty, pte, mapped, res, io, ftq>>

CovPopulate(m) ==
  /\ job[Cov].pc = "all" /\ m \in job[Cov].locs /\ Idle(Cov)
  /\ Populate(Cov, m, job[Cov].p)
  /\ job' = [job EXCEPT ![Cov].locs = @ \ {m}]
  /\ UNCHANGED <<ent, page, ctl, frozen, dirty, pte, mapped, io, ftq>>

(* Failed reads end the coverage: they must not lead to a drain. *)
CovPut ==
  /\ job[Cov].pc = "all" /\ job[Cov].locs = {} /\ Idle(Cov)
  /\ c' = TokenPut(c, job[Cov].p)
  /\ job' = [job EXCEPT ![Cov] = IF c.errors THEN NoJob ELSE [NoJob EXCEPT !.pc = "next"]]
  /\ UNCHANGED <<ent, page, ctl, frozen, dirty, pte, mapped, res, io, ftq>>

----------------------------------------------------------------------------
(* Retirement and destruction, on the single-threaded reap queue. *)

Joined == ftq = {} /\ \A w \in DOMAIN job : job[w].pc = "off"

(* sbk_owner_stop of sbk_drain_work: close admission, join every job, ... *)
DrainStop ==
  /\ c.drain = "queued"
  /\ c' = [c EXCEPT !.admit = FALSE, !.drain = "join"]
  /\ UNCHANGED <<ent, page, ctl, frozen, dirty, pte, mapped, res, io, ftq, job>>
DrainJoin ==
  /\ c.drain = "join" /\ Joined
  /\ c' = [c EXCEPT !.stopping = TRUE, !.drained = TRUE, !.drain = "signal"]
  /\ UNCHANGED <<ent, page, ctl, frozen, dirty, pte, mapped, res, io, ftq, job>>
DrainSignal ==
  /\ c.drain = "signal"
  /\ c' = Unref([SignalDrain(c) EXCEPT !.drain = "done"])
  /\ UNCHANGED <<ent, page, ctl, frozen, dirty, pte, mapped, res, io, ftq, job>>

(* sbk_destroy: cancel, join, then free the entries and the context. *)
DestroyStop ==
  /\ c.destroy = "queued" /\ c.drain \in {"off", "done"}
  /\ c' = [c EXCEPT !.stopping = TRUE, !.admit = FALSE, !.destroy = "join"]
  /\ UNCHANGED <<ent, page, ctl, frozen, dirty, pte, mapped, res, io, ftq, job>>
DestroyFree ==
  /\ c.destroy = "join" /\ Joined
  /\ c' = [c EXCEPT !.destroy = "freed"]
  /\ page' = [p \in Pages |-> "none"]
  /\ UNCHANGED <<ent, ctl, frozen, dirty, pte, mapped, res, io, ftq, job>>

----------------------------------------------------------------------------
Source == Freeze \/ \E p \in Pages : SourceWrite(p)
Control ==
  \/ \E S \in SUBSET Pages : Stage(S) \/ Seal(S)
  \/ StageDone \/ Arm \/ ArmFail \/ \E b \in BOOLEAN : Armed(b)
  \/ Background \/ \E w \in BgWorkers : BackgroundQueue(w)
  \/ Cancel \/ Watch \/ WatchSignal \/ Close
Application ==
  \E m \in MMs : Fork(m) \/ \E p \in Pages : Fault(m, p) \/ Discard(m, p)
Resolver(x) ==
  \/ Resolve(x) \/ Ensure(x) \/ EnsureAgain(x) \/ Adopt(x)
  \/ CopyPost(x) \/ Copied(x) \/ Install(x) \/ Put(x)
Reader(x) == FetchStart(x) \/ FetchFail(x) \/ \E p \in Pages : PageReady(x, p)
Ft(w) == (\E p \in Pages : FtTake(w, p)) \/ FtClaim(w) \/ FtInstall(w) \/ FtDone(w)
Bg(w) == BgNext(w) \/ BgScan(w) \/ BgClaim(w) \/ BgInstall(w) \/ BgFinish(w)
Coverage == CovNext \/ CovPut \/ \E m \in MMs : CovPopulate(m)
Reap == DrainStop \/ DrainJoin \/ DrainSignal \/ DestroyStop \/ DestroyFree

Next ==
  \/ Source \/ Control \/ Application \/ CreatorDrop \/ Coverage \/ Reap
  \/ \E x \in Resolvers : Resolver(x) \/ GiveUp(x)
  \/ \E x \in Readers : Reader(x)
  \/ \E w \in FtWorkers : Ft(w)
  \/ \E w \in BgWorkers : Bg(w)

Spec == Init /\ [][Next]_vars

(* Everything the kernel schedules makes progress: the threads with their   *)
(* transfers, the works, and an ioctl under way.  Strong fairness of a      *)
(* thread is the fairness of the resolve mutex.  The controller, the        *)
(* application and the source owe nothing.                                  *)
Thread(x) ==
  \/ Resolver(x) \/ Reader(x)
  \/ (x \in FtWorkers /\ Ft(x)) \/ (x \in BgWorkers /\ Bg(x)) \/ (x = Cov /\ Coverage)
IoctlStep ==
  \/ Reader(Ps) \/ StageDone \/ (\E b \in BOOLEAN : Armed(b))
  \/ (\E w \in BgWorkers : BackgroundQueue(w)) \/ WatchSignal
Fairness ==
  /\ \A x \in Resolvers : SF_vars(Thread(x))
  /\ WF_vars(IoctlStep) /\ WF_vars(CreatorDrop) /\ WF_vars(Reap)

FairSpec == Spec /\ Fairness

----------------------------------------------------------------------------
(* Every variable keeps its type; the context's counters stay in the range  *)
(* of what they count.                                                      *)
TypeOK ==
  /\ ent \in [Pages -> States]
  /\ page \in [Pages -> Cached \cup {"none"}]
  /\ ctl \in {"idle", "stage", "arm", "drop", "background", "watch"}
  /\ frozen \in BOOLEAN /\ dirty \subseteq Pages /\ ftq \subseteq Pages
  /\ pte \in [MMs -> [Pages -> Cached \cup {"none", "marker", "copy", "cow"}]]
  /\ mapped \subseteq MMs
  /\ c.refs \in Nat /\ c.retired \in 0 .. N /\ c.signaled \in 0 .. 1
  /\ c.bg_remaining \in 0 .. Cardinality(BgWorkers)
  /\ \A p \in Pages : c.token[p] \in Nat

(* No page reaches the application before its transfer has ended, and none  *)
(* that the source has written since: PS pages stay out of sight until the  *)
(* final dirty list is sealed, and failed pages are never installed.        *)
FreshPages ==
  /\ \A m \in MMs : \A p \in Pages : pte[m][p] \notin {"blank", "stale"}
  /\ \A x \in Resolvers : res[x].got \notin {"blank", "stale"}

(* The frame that was fetched into an entry is in one place only: the       *)
(* entry, one resolver, or one page table (the pages that fork shares are   *)
(* not of this kind).  sbk_pte_fault demands an exclusive page.             *)
ExclusivePage ==
  \A p \in Pages :
    Cardinality({m \in MMs : pte[m][p] \in Cached})
      + Cardinality({x \in Resolvers : res[x].p = p /\ res[x].got \in Cached})
      + (IF page[p] # "none" THEN 1 ELSE 0) <= 1

(* A token's count is the number of its markers and of those who work on    *)
(* it; the context's is its open file, its live tokens and its works; and   *)
(* the destruction has been set off exactly when no reference is left.      *)
Holders(p) ==
  Cardinality({m \in MMs : pte[m][p] = "marker"})
    + Cardinality({x \in Resolvers : res[x].pc # "idle" /\ res[x].p = p})
    + (IF p \in c.creator THEN 1 ELSE 0)
    + (IF job[Cov].pc = "all" /\ job[Cov].p = p THEN 1 ELSE 0)
One(b) == IF b THEN 1 ELSE 0
RefsExact ==
  /\ \A p \in Pages : c.token[p] = Holders(p)
  /\ c.refs = One(~c.closed) + Cardinality({p \in Pages : c.token[p] > 0})
              + One(c.drop) + One(c.drain \in {"queued", "join", "signal"})
  /\ c.refs = 0 <=> c.destroy # "off"

Quiet ==
  /\ Joined
  /\ \A m \in MMs : \A p \in Pages : pte[m][p] # "marker"
  /\ \A x \in Resolvers : res[x].pc = "idle"
  /\ \A x \in Readers : io[x] = NoIo

(* The drain signal lets the source revoke its memory.  When the region has *)
(* drained no marker is left in any address space, also none that was       *)
(* forked meanwhile, and nobody reads the source or will do so again.  Nor  *)
(* is a marker, resolver, job, transfer, ioctl or queued work left when     *)
(* sbk_destroy frees the context.                                           *)
RetireQuiet ==
  /\ c.drained => Quiet /\ c.armed /\ c.retired = N
  /\ c.destroy = "freed" => Quiet /\ ctl = "idle" /\ ~c.drop /\ c.drain \in {"off", "done"}


(* Once the background runs, the region drains, unless it is cancelled or a *)
(* transfer fails: every alias of every page is found, also those forked    *)
(* while the jobs were under way.                                           *)
Drains == (c.armed /\ c.background) ~> (c.drained \/ c.stopping \/ c.errors)

(* A page fault ends: with the page, or with an error. *)
FaultReturns == \A m \in MMs : (res[m].pc # "idle") ~> (res[m].pc = "idle")

(* A region without references is destroyed. *)
Destroyed == (c.refs = 0) ~> (c.destroy = "freed")
=============================================================================
