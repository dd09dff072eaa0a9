# Verification of SwiftBaton

SwiftBaton migrates running containers between two hosts. Most memory is copied
while the container still runs; at the switch only a small state is sent, the
container continues on the destination, and the pages still missing follow
after the switch, on demand or in the background. This directory holds TLA+
models of the concurrent core of that program, the TLC runs that check them on
small instances, and TLAPS proofs about four of them.

The repository has two implementations of one design:

- **U** (`criu/`): page faults are served in user space through userfaultfd; a
  lock-free scheduler in shared memory decides which page is sent next.
- **K** (`criu-k/`, `kernel/`): a kernel module with a small kernel patch puts
  *markers* into the page tables of the restored task and fetches the pages
  over RDMA, or over an rsocket connection through a userspace proxy.

Both go through three phases: **PS**, the preparation while the source runs;
**CT**, the final checkpoint and switch; **AS**, the transfer after the switch.

## Inventory

Status: M modelled, P partly, N not modelled.

| part | source | state | operations | hard behaviours | |
|---|---|---|---|---|---|
| U page scheduler | `criu/criu/sb-sched.c` | a word per page, three rings, counters | seed, request, claim, commit, fail | lock-free races, promotion, full rings, late acknowledgements | M |
| U transfer engine | `sb-transfer.c`, `sb-rdma-tx.h` | send rings, credits, batches | feed, send, acknowledge, finish | completion test, ring reuse, partial posts | P |
| U lifecycle | `sb-lifecycle.c`, `sb-lifecycle-gate.h` | page states and mappings per process | install, drain events, hand out faults, finish | installation racing fork, unmap, remap and discard; spinning gate | P |
| U background installers | `sb-bg-install.h`, `sb-transfer.c` | page directory, owners, cursors, assist queue | publish, claim, assist, retire | fault racing arrival, reuse of a slot | P |
| U demand installers | `sb-pf-install.h` | ring of answers | publish, claim, complete, retire | in-order retirement | N |
| U pre-copy | `sb-precopy.c`, `sb-validity-index.h` | snapshot, validity bits, cache | snapshot, invalidate, install | stale pages, two copiers | N |
| U caches, images | `sb-vma-cache.c`, `sb-stage.c`, `sb-images.c`, `sb-fd*.c`, `sb-proc.c`, `sb-fork.c`, `sb-heat.c` | files and mappings | capture, restore | epoch of the mapping cache; otherwise conversion and I/O | N |
| K region | `kernel/module/sbk_core.c` | entries, context flags, references, cursors | stage, seal, arm, fault, prefetch, background, coverage, drain, watch, cancel, close, destroy | five lanes on one page, fork, references, retirement | P |
| K PTE bridge | `kernel/patches/linux-5.15.167-sbk-pte.patch` | markers, token counts | arm, fork copy, fault, zap, populate | references across fork and fault | P |
| K dispatch | `kernel/module/sbk_dispatch.c` | pools, owners, jobs | queue, run, requeue, wait, stop, destroy | stop racing submission, freeing after a wake-up | M |
| K proxy | `sbk_core.c` (rsocket proxy) | two lists, requests | fetch, NEXT, COMPLETE, cancel | timeout racing an answer, references | M |
| K RDMA slots | `kernel/module/sbk_rdma.c` | slots, waiters, device work | acquire, post, poll, quiesce, release, cancel | hand-off racing a timeout, uncertain DMA | P |
| K exports | `sbk_rdma.c`, `sbk_core.c` | registrations | export, invalidate, revoke | export racing revocation | N |
| K token pool, prepared arm | `sbk_token_pool.c`, `sbk_prepared_arm.h`, two patches | chunks, plans | reserve, take, plan, arm | partial failure | N |
| K coordinator | `criu-k/criu/cr-dump.c`, `sb-kernel-transfer.c`, `sb-kernel-final-gate.h`, `sb-kernel-fence.h` | owners, barriers, final gate, catalogue, fence | seize, register, seal, send, acknowledge, decide, release | death of the controller, lost acknowledgement, two running copies | P |
| K destination catalogue, pre-copy, work pool | `sb-kernel-catalog.c`, `sb-kernel-precopy.c`, `sb-kernel-work.c` | records, descriptors, queue | prepare, seal, poll | cancellation of queued work | N |
| client cutover | `scripts/ae/{k,u}/*cutover*.py`, gates | packet queue, bindings, two connections | arm, close, isolated, nat, release | message order, disconnects | N |
| drivers | `scripts/run.py`, `scripts/ae/*/run_ae.py` | | start, collect | sequential | N |

CRIU itself, Docker, containerd, runc, the benchmark clients and the baselines
under `src/` are unmodified or lightly patched third-party programs and are not
part of the models. Nearly all lines of the repository are those programs
(Docker, containerd and runc alone are 2,700 Go files); the modules here cover
SwiftBaton's own C code, and the share of all lines they map is therefore close
to nothing. `PROJECT.json` lists every part with its status and, for
each hazard, the line where it bites and the property that covers it.

## Modules

| module | models | abstract level |
|---|---|---|
| `PageHandoff` | what the U scheduler promises about one page | specification |
| `SbSched` | `sb-sched.c`, one atomic access per step | implements `PageHandoff` |
| `SbSchedInv`, `SbSchedProofs` | inductive invariant and theorems about `SbSched` | proofs |
| `SbkDispatch` | `sbk_dispatch.c`, one lock section or unlocked read per step | |
| `SbkRegion` | one region in `sbk_core.c` with the markers of the kernel patch | uses what `SbkDispatch` shows of `sbk_owner_stop` |
| `SbkProxy` | the proxy requests in `sbk_core.c` | |
| `SbkSlots` | the slots of one lane in `sbk_rdma.c` | |
| `SbkSlotsProofs` | inductive invariant and theorems about `SbkSlots` | proofs |
| `LifecycleGate` | `sb-lifecycle-gate.h`, one atomic access per step | |
| `Lifecycle` | `sb-lifecycle.c` against restored processes and userfaultfd | extends `LifecycleGate` |
| `LifecycleProofs` | the gate's invariant; every step of `Lifecycle` is one of the gate | proofs |
| `BgInstall` | the background lane of `sb-transfer.c` on both hosts, `sb-bg-install.h` | |
| `SbkFinal` | the switch of K on both hosts: `cr-dump.c`, `sb-kernel-transfer.c`, gate and fence | |
| `SbkFinalProofs` | inductive invariant and theorems about `SbkFinal` | proofs |
| `MC...` | constants and symmetry for TLC | |

How they fit together: a fault of `SbkRegion` fetches its page through a slot
of `SbkSlots` or a request of `SbkProxy`, which the region sees as a transfer
that ends with a page or with an error; its prefetch, background and coverage
work are jobs of `SbkDispatch`, which the region sees as an owner that admits
jobs until it is stopped and whose stop returns when none is left
(`NoUseAfterFree` and `StopReturns` there). On the U side `SbSched` decides which
lane may send a page, `BgInstall` takes it over (a batch is any set of unclaimed
pages, `TransferredOnce`) and carries it to an installation, which `Lifecycle`
models; `Lifecycle` in turn lets a page arrive once and in any order. `SbkFinal`
has the registration of a task's memory and the service of its pages as one
step each, which are `SbkRegion` and `SbkSlots` on the other side. These interfaces are
assumptions of the module that uses them; they are argued here and checked in
the other modules, not composed in one run. The gate is the exception: `Lifecycle`
extends it and runs its atomics.

Operators whose comment begins with *Mutant* are deliberately wrong variants of
the definition that follows them. No specification uses them; they show that
the properties can fail.

### SbSched: the U page scheduler

`word[p]` is the 64-bit word of a page as the record of its generation and
state; `prod`, `cons`, `seq` and `job` are the three bounded rings; `req[r]` and
`clm[c]` are the local variables of a thread inside `sb_sched_request` or
`sb_sched_claim`. A request loads the word (`Request`), reserves a cell
(`Reserve`, or `QueueFull`), swaps the word (`RequestCas`) and publishes its
ticket (`PublishJob`) or, when the swap lost, a tombstone (`PublishTombstone`),
after which it judges the newer word. A claim scans its lanes from demand down
(`Claim`, `ScanNext`), wins a position (`Pop`), copies the job and recycles the
cell (`Read`), and swaps the word (`ClaimCas`) or starts again (`ClaimStale`).
`Finish` and `Count` are the two steps of an acknowledgement, `SeedCommit` that
of a page that was copied beforehand.

The load of a cell's sequence number and the swap of the ring index that
follows are one step: the cell cannot leave the state that was read unless the
index moves, and then the swap fails and the loop reads again. Memory is
sequentially consistent in the model; the acquire and release orders of the
code are not examined. The generation has a bound, `MaxGen` (2^60 - 1 in the
code), as the code does (`EOVERFLOW`). Statistics other than `committed` and
`failed` are left out.

### SbkDispatch: the worker pools

Two lists of runnable jobs per pool, the counters that wake its threads, and
per region `stopping`, `pending` and the gate. Lock sections whose inner states
nobody can read are one step. The end of a job is four steps (`Clear`,
`Account`, `WakeDone`, `Unlock`), because `sbk_owner_stop` and `sbk_work_wait`
read `pending` and `busy` without the lock and may return in between; both then
pass the gate once (`StopFence`, `WorkFence`). Jobs yield at most `MaxQuanta`
times. Sleeping and waking are explicit, so that a lost wake-up would show.

### SbkRegion: a region of the K destination

`ent[p]` is the state of an entry and `page[p]` the frame it holds: blank,
fresh, or stale when the source wrote it later. `c` is the context: flags, the
reference count, one count per token, cursors, and the progress of the drain
and of the destruction. `pte[m][p]` is the page-table entry in the address
space `m`; fork copies markers with a reference each and shares resolved pages
copy-on-write. `res[x]` is a call of `sbk_pte_fault` by an application thread or
a job, `io[x]` a read it waits for, `job[w]` a pool job.

What is simplified: an application has one thread per address space; a read
returns its pages in any order and fails only for pages in `FailPages` or after
a cancel; the dirty tracker of user space is the set `dirty`, complete when the
source is frozen; a failing `sbk_pte_arm` is one step (`ArmFail`), since its
markers are removed before the address space is unlocked, and leaves
`retired = N`, which the next arm resets. The region is in anonymous mode with
session pools; the drain has then already joined the jobs, so that the join in
`sbk_destroy` only matters when no drain happened. File-mapped mode, binding of
an unbound region, moving staged pages between regions, the prepared arm and
the exports are not in the model.

### SbkProxy: page requests to user space

One request per fault, with its reference count, on the pending list, the
inflight list or none. A section under `proxy_lock` is one step, every put and
every `complete()` outside it is another. Servers may answer with success or an
error, copies to and from user space may fail, faults may time out at any
moment and one cancel may happen at any moment. A page is filled or not.

### SbkSlots: the slots of an RDMA lane

Waiters in order, slots with an owner, and `hw[s]`: the reads for which the
device may still write to memory. A free slot is any free slot, not the lowest;
completions arrive in any order; a failure in another lane is `Cancel`. A
reader may still post after a stop, as in the code, whose only check is before.
`sbk_rdma_destroy` is not modelled.

### LifecycleGate and Lifecycle: installation against changing address spaces

The gate is one word (0, a number of readers, or the writer's flag) and a count
of announced writers; `gpc[t]` says between which two atomics a thread is. A
failed swap of a writer and its spinning change nothing and are no step.

Above it are a family of processes, each with a userfaultfd context. The kernel
side (`vma`, `pte`, `call`, `waiting`) is external, modelled from what the code
relies on: a call that changes a mapping waits until its event is read; COPY and
ZEROPAGE answer EAGAIN while an event is unread; faults are read before events;
a discard drops the page after its event was read, unmap and move before it is
sent. `owed[c]` is a history variable: the pages of `c` not discarded yet. The
component is `contexts`, `dead`, `maps`, `bitmap` (the page states) and the fault
queue. `sb_lifecycle_install_profiled` is `Install` .. `InstallReturn`, one step
per COPY and per publication; `drain` and `event` are `ReadFault`, `ReadEvent`,
`DrainNext`; `sb_lifecycle_next_batch` is `Poll` and `Serve...`;
`sb_lifecycle_finish` is `Finish` and `Close`.

Simplified: a context has one thread that may wait on a page and another that
calls; a program does not unmap or move a page another of its threads waits for;
ranges are single pages, so that splitting of mappings is not exercised. Errors
that end the program (`EPROTO`, out of memory, the limit of 15 s on retries) are
left out: what they would leave behind is not used any more.

### BgInstall: the background lane

The source writes batches into the slots of a ring (`SourceSend`), commits what
comes back (`SourceCommit`) and sends a final frame (`SourceFinal`). On the
destination the coordinator publishes the pages of a batch one by one
(`PublishOwner`, `Bind`, `AssistPush`), then count and position of the cursor in
two steps; workers load the position, read the count, swap (`NextLoad`,
`NextCount`, `NextSwap`) and take the page (`Claim`, `Copy`, `Unbind`,
`FinishTake`, `Complete`); the demand thread comes from a fault (`Request`) or
from the assist queue (`AssistPop`). A handle is the triple of generation, slot
and index instead of a number. `died` is any failed check of the code, and stops
the model. The demand lane is two steps (`SourceAnswer`, `FastInstall`).

### SbkFinal: the switch of K

`run`, `traced` and `armed` are what the kernel knows of the source's tasks;
`opc[t]` is the owner thread of a task, `cpc` the coordinator; `misc`, `process`,
`cured` and `done` are the barriers as the sets of owners that have arrived;
`sent` is everything written to the connection and `got` how much of it was read.
`Dies` is the death of the controller, by a crash at any moment or by the
`_exit` of an owner: threads still traced are let go, and with EXITKILL their
task is killed. `Break` ends the connection; what was written may still arrive,
and a write that fails may have arrived. `Decision` is the last part of
`cr_dump_finish`. Holding a mutex across a section is `held`; other sections
under the gate's lock are one step.

Simplified: a task is fully stopped when all its threads are traced; all tasks
were running before and have memory to register; the destination fails or
serves, and its service ends with all pages as one step.

## Runs

All runs but two pass. `CHECK_DEADLOCK FALSE` is set everywhere because each
system really may stop: all pages transferred, the region freed, all faults
answered, the session cancelled with no reader left, the controller gone.
Numbers are distinct states.

| run | instance | states | shows |
|---|---|---|---|
| `SbSched` | 2 pages, rings of 2, requesters of background and demand, 1 claimer of all lanes, fair | 177,042 | no page lost or handed out twice, cells exclusive; every requested page is committed unless one failed; implements `PageHandoff` with its fairness |
| `SbkDispatch` | 2 regions, 2 jobs and a stack job, 2 threads of a pool, fair | 168,556 | a job is in one place; nothing is freed in use; stops and waits return |
| `SbkRegionFork` | 1 page, task and child, background, all failures, cancel, watch, close | 1,148,290 | page ownership and both reference counts exact; a retired region is quiet; watchers hear |
| `SbkRegionLanes` | 2 pages, prefetch and background in batches of 2, staging, a failing page, cancel | 2,116,299 | no unfilled or outdated page reaches the application |
| `SbkRegionLive` | 1 page, task and child, cancel, fair | 75,405 | the region drains, whatever is forked or discarded meanwhile; every fault returns |
| `SbkProxy` | 2 faults, 2 servers, fair | 150,978 | references and answers exact; cancel releases every fault |
| `SbkProxyLate` | the same | violation | see *Findings* |
| `SbkSlots` | 4 readers, 1 slot, reads of 2 pages, fair | 80,458 | slots not shared, first come first served, DMA fenced; a waiter is admitted or refused without its timeout |
| `Lifecycle` | process and child, 1 page and an address to move it to, demand and background installer, event reader, 2 calls, fair | 216,962 | every process reads what it would have read on the source, no context misses a page, faults are served, the reader is not starved |
| `LifecycleZero` | the same with 1 call | violation | see *Findings* |
| `BgInstall` | 3 pages in batches of up to 2, 2 slots, 1 worker, demand thread, 2 faults, assist queue of 1, fair | 129,768 | no check of the program fails, a page is installed once and acknowledged after, slots are pinned, faults are served from arrived batches, the transfer ends |
| `SbkFinal` | 2 tasks of 2 threads, every failure, death of the controller, broken connection, fair | 31,553 | two copies never run, the catalogue is whole, the source is released as it should be |

Larger instances of the safety properties are kept beside the runs, for
occasional use: `SbSchedLarge` (2 claimers, 572,659 states), `SbkDispatchLarge`
(2 pools, 3 threads, 3 jobs, 1.41 M), `SbkSlotsLarge` (2 slots, 22,939 up to
symmetry), `SbkRegionLarge` (failures, cancel, watch and close with fairness:
faults return and an unreferenced region is destroyed, 56,455). `BgInstall` has
also been checked for its invariants with 3 slots and 2 workers (8.0 M), and
`Lifecycle` with 2 pages and 1 installer (1.5 M).

### Bounds

- Scheduler: two pages and two cells make rings wrap, fill up and hold
  tombstones beside tickets; two requesters are the feeder and the demand
  thread of `sb-transfer.c`. A page is raised once, from background to demand;
  raising it through the prefetch lane in between, and more threads, are left
  to the theorems, which hold for any number of pages, cells, lanes requested
  and threads. Two claimers that each serve all lanes (`SbSchedLarge`) contend
  more than the three single-lane threads of the source do.
- Dispatch: two regions share a pool of two threads: the smallest system with
  a sibling, a competitor and a join. `SbkDispatchLarge` adds a second pool.
- Region: one page with fork, or two pages with neighbours and batches. The
  combination of both is out of TLC's reach. Close is explored with one page
  and no prefetch worker (`SbkRegionFork`); the run with two pages has cancel
  and no close.
- Proxy: two faults and two servers let a request be fetched by one server
  while another answers, with a second request on the other list. Three faults
  are not explored.
- Slots: four readers on one slot leave three waiters, so that order matters.
  The theorems hold for any number of readers and slots.
- Lifecycle: two calls are enough for each pair that interferes, such as a
  discard in a child just forked or a move after a discard; three threads are a
  writer and two readers of the gate, or two writers and a reader, since an
  installer that has to retry becomes a writer. One page moves between two
  addresses; two pages, which can change places, are explored with one
  installer only.
- Background lane: two slots (one in use at a time in a ring that keeps one
  empty) and three pages force a slot to be reused with a handle of its first
  batch still in the assist queue or in a thread's hands; the assist queue of
  one overflows. Generations are as many as batches, so they do not wrap (2^32
  in the code, which stops then).
- Switch: two tasks give every order of two owners at the four barriers; two
  threads let the controller die with a task half seized or half released.

### Fairness

- `SbSched`: weak fairness of a thread between two atomic steps, of the claim
  loops (they poll), of acknowledgements and of the counter. Nobody is obliged
  to request or to fail a page.
- `SbkDispatch`: strong fairness of pool threads and of waiting calls, because
  the kernel's spinlocks are queued and a waiter for the gate gets it; jobs
  terminate. Nobody is obliged to queue or to stop.
- `SbkRegion`: strong fairness of each thread, which is the fairness of the
  resolve mutex; weak fairness of ioctls under way and of works. The
  application, the source and the controller owe nothing.
- `SbkProxy`: weak fairness of code inside the kernel. The page servers may
  hang or die, and the timeout of a fault is not relied upon.
- `SbkSlots`: weak fairness of readers, whose polling ends at its deadline. The
  timeout of a wait, signals and device events are not relied upon.
- `Lifecycle`: weak fairness of the event reader (it polls), of the demand
  installer (it serves what was requested) and of every thread inside the
  component; the kernel completes an acknowledged discard. The background lane
  owes nothing: `FaultServed` holds by the demand lane alone, and
  `ReaderProgress` against a background lane that installs for ever.
- `BgInstall`: weak fairness of the source, the coordinator, the demand thread
  and of a worker that has begun a page. That a worker picks up pages at all is
  the premise of `Finishes` only (strong fairness, since a worker visits all
  slots in turn); `WantedServed` holds without it.
- `SbkFinal`: weak fairness of the coordinator and the owners. The destination
  owes nothing, because the source waits for it with a timeout
  (`sb-kernel-transfer.c:454`); crashes and breaks are never obliged.

## Findings

`SbkProxyLate` checks `CompletesLive`: whoever completes a proxy request finds
it allocated. It is violated. `sbk_proxy_complete` puts its reference before it
calls `complete()` (`sbk_core.c:312-313`), so that the page is exclusive when
the fault returns, and `sbk_proxy_cancel` does the same (341-344). If the fault
has timed out and finds its request already unlinked, it drops only its own
reference and returns; when that happens before the put, the put frees the
request and `complete()` touches freed memory. The comment above
`sbk_proxy_fetch` says that the dispatched reference covers this race. The
window needs a timeout of the fault within the answer of its request.
`RefsExact` holds nevertheless: no count is wrong, the use comes after the put.
`SuccessExclusive` shows why exchanging the two lines is no repair.

`LifecycleZero` checks `ZeroFaultQueued`: a fault that was read and whose page is
zero-fill is still queued. `sb-lifecycle.h:57` says that zero-fill faults are
resolved locally. A fault is looked at once, when it is taken off the queue; if
its page is pending, its address goes to the demand lane and the fault is
forgotten. When another thread discards the page before the answer arrives, the
installation skips the page (`sb-lifecycle.c:431`), and neither ZEROPAGE nor WAKE
is issued for the thread that waits. It stays blocked until the descriptors are
closed at the end of the transfer. For the same reason `FaultServed` is stated for
pages that still have their source data.

## Proofs

### The scheduler (`SbSchedInv`, `SbSchedProofs`)

`SbSchedInv` and `SbSchedProofs` prove, for any finite set of pages, any ring
of at least two cells, any generation bound, any threads and any lanes they use
(`SchedAssumption`):

| theorem | statement |
|---|---|
| `TypeCorrect` | `Spec => []TypeOK` |
| `PagesNotLost` | `Spec => []NoLostPage` |
| `PagesTransferredOnce` | `Spec => []TransferredOnce` |
| `CellsExclusive` | `Spec => []CellExclusive` |
| `CountersSound` | `Spec => []CommittedSound` |
| `RefinesHandoff` | `Spec => Handoff!Spec`, the safety part of `ImplementsHandoff` |

None of these is inductive alone. That a page is not lost depends on its ticket
still being in its cell, hence on nobody overwriting the cell, hence on the
sequence numbers. The inductive invariant is

    IInv == TypeOK /\ RingInv /\ ReqInv /\ WordInv /\ NoLostPage /\ TransferredOnce

- `RingInv` describes a ring: the consumer index never passes the producer
  index (`Window`); no cell of a position that is not yet reserved carries a
  published number (`Unreserved`); a reserved position lies between the two
  indices, its cell still carries the position itself, and one request holds it
  (`ReservedOK`, `ReservedOnce`); a position that was won by a claim and not
  yet recycled lies behind the consumer index, its cell still carries the
  published number, and one claim holds it (`PoppedOK`, `PoppedOnce`).
- `ReqInv`: a request past its load names a page, and until its swap carries a
  word it may raise.
- `WordInv`: a page that was handed out is owned or final, and one that waits
  to be counted is final.

`SbSchedInv` proves the arithmetic of the rings (two different positions that
share a cell are at least a lap apart) and that types, words and rings are
preserved; `SbSchedProofs` adds the two properties of pages, with one step per
action. The
counter theorem adds an argument on cardinalities of the committed and the
uncounted pages. The refinement proof shows that a step changes one page's word
at most and that every such change is a step of `PageHandoff`.

### The gate and the lifecycle (`LifecycleProofs`)

For any finite set of threads smaller than the flag (`GateAssumption`; the code
has 2^31 and at most some dozens of threads):

| theorem | statement |
|---|---|
| `GateExcludes` | `GateSpec => []Exclusion` |
| `FamilyExcludes` | `Spec => []Exclusion` for `Lifecycle` |

The inductive invariant `GateInv` says what each place of a thread means for what
it holds, and that the word is the flag when a writer is inside and the number
of readers otherwise. It is needed because a swap compares with a word, not with
the threads: a swap from 0 must mean that nobody is inside, and the unlock must
find out its own mode from the word. `FamilyExcludes` follows because every step
of `Lifecycle` is a step of the gate or leaves it alone (`StepsThroughGate`).

### The RDMA slots (`SbkSlotsProofs`)

For any finite set of readers and slots and any size of a batch
(`SlotsAssumption`):

| theorem | statement |
|---|---|
| `OneOwner` | `Spec => []SlotExclusive` |
| `DmaStaysFenced` | `Spec => []DmaFenced` |
| `FifoOrder` | `Spec => FifoGrant`, an action property |
| `NeverIdles` | `Spec => []WorkConserving`: no slot is free while a reader waits |

`Inv` adds to the types: a listed waiter has no slot and is listed once
(`Placed`), readers with a slot are the owners of the busy slots, one each
(`Owned`), and the pages the device may still write are with the reader that
polls or tears down, otherwise retained (`Pinned`). `Unlinked` is the lemma about
taking a waiter out of the list.

### The switch (`SbkFinalProofs`)

For any finite, non-empty set of tasks and any non-empty set of threads
(`FinalAssumption`):

| theorem | statement |
|---|---|
| `NeverTwoCopies` | `Spec => []NoTwoCopies` |
| `RegistersQuietly` | `Spec => []RegisterQuiet` |

The argument of the first goes over four facts (`FInv`): nothing is sent before
it is marked as exposed, and that only after every owner has finished (`Staged`);
an owner between its seizing and its release holds every thread with EXITKILL
armed (`Owners`); what is exposed is not resumed (`Staged`); so a task of an
exposed source is dead, stopped, or dies with the controller (`Fenced`). The
second rests on the gate's counter being the number of owners inside (`Gated`).

### Not proved

Only model-checked: everything about `SbkDispatch`, `SbkRegion`, `SbkProxy` and
`BgInstall`; `ContentRight` and `Settled` of `Lifecycle`; `CatalogWhole` and
`Outcome` of `SbkFinal`; liveness (`Delivered`, `StopReturns`, `WaitReturns`,
`Drains`, `FaultReturns`, `CancelAnswers`, `Admitted`, `FaultServed`,
`ReaderProgress`, `WantedServed`, `Finishes`, `Released`) and the fairness part of
the refinement, since TLAPS does not reason about `ENABLED`. No result needs
induction over recursively defined data.

## Not modelled

- Exports, early registration and revocation of source memory (`sbk_rdma.c`):
  the notifier and the parallel workers need a module of their own. `SbkFinal`
  has registration and revocation as single steps that may fail.
- Token pool and prepared arm: `SbkRegion` creates its tokens and arms in the
  ordinary way, with its failure and retry.
- Moving staged pages between regions, binding, and the file-mapped mode of a
  region: `SbkRegion` has one region in anonymous mode.
- Demand installers (`sb-pf-install.h`), the request and response rings of the
  demand lane, the transmit window: reduced to their effect in `BgInstall`.
- Pre-copy of U and K, validity index, mapping cache, work pool: phases before
  the switch; the models begin with what they leave behind (staged pages that
  may be stale in `SbkRegion`, seeded pages in `SbSched`).
- Client cutover: a third host and packet gates, driven by scripts.
- Images, descriptors, process trees, staged restore, page heat: conversion and
  I/O with little control. Experiment drivers are sequential scripts.

## Plan

1. `SbkExport`: export, early registration, invalidation and revocation; no
   registration survives a revoke.
2. The demand lane of U with `PfInstall`, then composed with `BgInstall` and
   `SbSched`.
3. `Cutover`: the client gate with its two connections and markers.
4. In `SbkRegion`: moving staged pages, the prepared arm with its rollback, the
   token pool; an abstract specification of a region that it implements.
5. Proofs: `OnePlace` of `SbkDispatch`, `RefsExact` of `SbkProxy`, `Pinned` of
   `BgInstall`, `ContentRight` of `Lifecycle`.

## Running

    tlc -config SbSched.cfg MCSbSched
    tlc -config Lifecycle.cfg MCLifecycle
    tlapm SbkFinalProofs.tla

Each run takes less than three minutes with two workers, each proof module
between one and ten.
