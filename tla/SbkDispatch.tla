---------------------------- MODULE SbkDispatch ----------------------------
(***************************************************************************)
(* The session-wide worker pools of the SwiftBaton-K module,               *)
(* kernel/module/sbk_dispatch.c.  A pool (one per background or prefetch   *)
(* lane of the transport) runs the jobs of all regions; every region owns  *)
(* its jobs through a sbk_work_owner and joins only them when it stops.    *)
(*                                                                         *)
(* The spinlocks are modelled where their extent matters: a critical       *)
(* section whose intermediate states nobody reads is one step; the one     *)
(* that ends a job is not, because sbk_owner_stop and sbk_work_wait read   *)
(* pending and busy outside the gate.                                      *)
(*                                                                         *)
(* Background and coverage jobs of a region with a hot list run from the   *)
(* hot list while they are inside it; all other jobs are never hot.        *)
(***************************************************************************)
EXTENDS Naturals, Sequences, FiniteSets

CONSTANTS Owners,     \* regions: the sbk_work_owner of each
          Works,      \* jobs embedded in a region (entries, bg workers, coverage)
          HotWorks,   \* background and coverage jobs of a region with hot pages
          StackJobs,  \* jobs of one sbk_stage_parallel call, freed after the wait
          OwnerOf,    \* OwnerOf[w]: owner of job w
          Pools,      \* sbk_dispatch pools
          PoolOf,     \* PoolOf[w]: the pool job w is queued to
          Threads,    \* kthreads
          ThreadPool, \* ThreadPool[t]: the pool thread t serves
          MaxQuanta,  \* steps after which a job no longer yields
          None        \* no job, no gate holder

Jobs == Works \cup StackJobs

ASSUME DispatchAssumption ==
  /\ Works \cap StackJobs = {} /\ HotWorks \subseteq Works
  /\ IsFiniteSet(Jobs)
  /\ None \notin Threads \cup Jobs
  /\ OwnerOf \in [Jobs -> Owners]
  /\ PoolOf \in [Jobs -> Pools]
  /\ ThreadPool \in [Threads -> Pools]
  /\ MaxQuanta \in Nat \ {0}

VARIABLES stopping,   \* stopping[o]: owner.stopping
          pending,    \* pending[o]: owner.pending
          gate,       \* gate[o]: the thread that holds owner.gate across steps
          busy,       \* busy[w]: work.busy
          hot,        \* hot[w]: work.hot
          left,       \* left[w]: times job w will still yield
          hots,       \* hots[p]: the list p->hot of runnable jobs
          normals,    \* normals[p]: the list p->normal
          queued,     \* queued[p]: stats.queued, the threads' wake-up condition
          active,     \* active[p]: stats.active
          pool,       \* pool[p]: up, stopping (threads being joined), freed
          thread,     \* thread[t]: where thread t is, and with which job
          join,       \* join[o]: the region's stop, drain and destruction
          stack       \* stack[w]: the sbk_stage_parallel call of stack job w

owners == <<stopping, pending, gate>>
jobs == <<busy, hot, left>>
lists == <<hots, normals, queued, active, pool>>
vars == <<owners, jobs, lists, thread, join, stack>>

Idle == [pc |-> "idle", work |-> None, again |-> FALSE]

(* sbk_owner_init, sbk_work_init and sbk_dispatch_create. *)
Init ==
  /\ stopping = [o \in Owners |-> FALSE]
  /\ pending = [o \in Owners |-> 0]
  /\ gate = [o \in Owners |-> None]
  /\ busy = [w \in Jobs |-> FALSE]
  /\ hot = [w \in Jobs |-> FALSE]
  /\ left = [w \in Jobs |-> MaxQuanta]
  /\ hots = [p \in Pools |-> <<>>]
  /\ normals = [p \in Pools |-> <<>>]
  /\ queued = [p \in Pools |-> 0]
  /\ active = [p \in Pools |-> 0]
  /\ pool = [p \in Pools |-> "up"]
  /\ thread = [t \in Threads |-> Idle]
  /\ join = [o \in Owners |-> "live"]
  /\ stack = [w \in StackJobs |-> "free"]

----------------------------------------------------------------------------
(* Mutant: a push does not wake the threads. *)
NotWoken(p) == thread

(* wake_up(&p->ready): the threads' wait is not exclusive, all wake. *)
Woken(p) ==
  [t \in Threads |-> IF ThreadPool[t] = p /\ thread[t].pc = "asleep" THEN Idle ELSE thread[t]]

(* The runnable jobs of a pool in the order its threads take them. *)
Listing(p) == hots[p] \o normals[p]

(* sbk_dispatch_push appends to one of the two lists. *)
Push(p, w, isHot) ==
  /\ hots' = IF isHot THEN [hots EXCEPT ![p] = Append(@, w)] ELSE hots
  /\ normals' = IF isHot THEN normals ELSE [normals EXCEPT ![p] = Append(@, w)]
  /\ queued' = [queued EXCEPT ![p] = @ + 1]

(* Mutant: admission ignores work.busy. *)
QueueAgain(w) ==
  LET o == OwnerOf[w]  p == PoolOf[w] IN
  /\ gate[o] = None
  /\ ~stopping[o]
  /\ busy' = [busy EXCEPT ![w] = TRUE]
  /\ pending' = [pending EXCEPT ![o] = @ + 1]
  /\ hot' = [hot EXCEPT ![w] = w \in HotWorks]
  /\ left' = [left EXCEPT ![w] = MaxQuanta]
  /\ Push(p, w, w \in HotWorks)
  /\ thread' = Woken(p)
  /\ UNCHANGED <<stopping, gate, active, pool, join>>

(* sbk_dispatch_queue, which calls sbk_dispatch_push with the gate held.   *)
(* Callers hold a reference on the region.  A refused call changes nothing. *)
Queue(w) ==
  LET o == OwnerOf[w]  p == PoolOf[w] IN
  /\ gate[o] = None
  /\ ~stopping[o] /\ ~busy[w]
  /\ busy' = [busy EXCEPT ![w] = TRUE]
  /\ pending' = [pending EXCEPT ![o] = @ + 1]
  /\ hot' = [hot EXCEPT ![w] = w \in HotWorks]
  /\ left' = [left EXCEPT ![w] = MaxQuanta]
  /\ Push(p, w, w \in HotWorks)
  /\ thread' = Woken(p)
  /\ UNCHANGED <<stopping, gate, active, pool, join>>

(* The fault handler, sbk_background and the jobs themselves queue jobs.   *)
(* sbk_background starts its jobs, and those the coverage job, only once.  *)
QueueWork(w) ==
  /\ join[OwnerOf[w]] # "freed"
  /\ w \in HotWorks => left[w] > 0
  /\ Queue(w)
  /\ UNCHANGED stack

(* sbk_stage_parallel: sbk_work_init and sbk_dispatch_queue of a stack job. *)
(* A job refused because the owner stops is waited for all the same.       *)
Stage(w) ==
  /\ join[OwnerOf[w]] # "freed"
  /\ stack[w] = "free"
  /\ stack' = [stack EXCEPT ![w] = "wait"]
  /\ \/ Queue(w)
     \/ gate[OwnerOf[w]] = None /\ stopping[OwnerOf[w]]
        /\ UNCHANGED <<owners, jobs, lists, thread, join>>

(* sbk_work_wait: wait_event reads busy without the gate, and sleeps. *)
WorkWait(w) ==
  /\ stack[w] = "wait"
  /\ stack' = [stack EXCEPT ![w] = IF busy[w] THEN "asleep" ELSE "fence"]
  /\ UNCHANGED <<owners, jobs, lists, thread, join>>

(* Its lock and unlock of the gate; then sbk_stage_parallel frees the job. *)
WorkFence(w) ==
  /\ stack[w] = "fence"
  /\ gate[OwnerOf[w]] = None
  /\ stack' = [stack EXCEPT ![w] = "free"]
  /\ UNCHANGED <<owners, jobs, lists, thread, join>>

----------------------------------------------------------------------------
Moved(t, pc) == [thread EXCEPT ![t] = [@ EXCEPT !.pc = pc]]

(* sbk_dispatch_thread: wait_event on the pool's counter. *)
Ready(t) ==
  LET p == ThreadPool[t] IN
  /\ thread[t].pc = "idle"
  /\ thread' = Moved(t, IF pool[p] # "up" THEN "exit"
                        ELSE IF queued[p] > 0 THEN "take" ELSE "asleep")
  /\ UNCHANGED <<owners, jobs, lists, join, stack>>

(* The pool lock: take the first runnable job, or go back and wait. *)
Take(t) ==
  LET p == ThreadPool[t] IN
  /\ thread[t].pc = "take"
  /\ pool[p] = "up"
  /\ IF Listing(p) = <<>>
       THEN thread' = Moved(t, "idle") /\ UNCHANGED <<hots, normals, queued, active>>
       ELSE /\ thread' = [thread EXCEPT ![t] = [Idle EXCEPT !.pc = "step", !.work = Head(Listing(p))]]
            /\ IF hots[p] # <<>>
                 THEN hots' = [hots EXCEPT ![p] = Tail(@)] /\ normals' = normals
                 ELSE normals' = [normals EXCEPT ![p] = Tail(@)] /\ hots' = hots
            /\ queued' = [queued EXCEPT ![p] = @ - 1]
            /\ active' = [active EXCEPT ![p] = @ + 1]
  /\ UNCHANGED <<owners, jobs, pool, join, stack>>

(* kthread_should_stop() between the wait and the lock. *)
TakeStopped(t) ==
  /\ thread[t].pc = "take"
  /\ pool[ThreadPool[t]] # "up"
  /\ thread' = Moved(t, "exit")
  /\ UNCHANGED <<owners, jobs, lists, join, stack>>

(* w->step(w): one quantum; it may yield while work is left.  Background   *)
(* and coverage jobs then say whether their cursor is inside the hot list. *)
Step(t, again, isHot) ==
  LET w == thread[t].work IN
  /\ thread[t].pc = "step"
  /\ again => left[w] > 0
  /\ isHot => again /\ w \in HotWorks
  /\ hot' = [hot EXCEPT ![w] = isHot]
  /\ left' = [left EXCEPT ![w] = IF again THEN @ - 1 ELSE 0]
  /\ thread' = [thread EXCEPT ![t] = [@ EXCEPT !.pc = "gate", !.again = again]]
  /\ UNCHANGED <<owners, busy, lists, join, stack>>

(* again && !o->stopping: the job goes to the back of the list. *)
Requeue(t) ==
  LET w == thread[t].work  o == OwnerOf[w]  p == ThreadPool[t] IN
  /\ thread[t].pc = "gate"
  /\ gate[o] = None
  /\ thread[t].again /\ ~stopping[o]
  /\ Push(p, w, hot[w])
  /\ active' = [active EXCEPT ![p] = @ - 1]
  /\ thread' = [Woken(p) EXCEPT ![t] = Idle]
  /\ UNCHANGED <<owners, jobs, pool, join, stack>>

(* Otherwise the job ends: the gate is taken and w->busy cleared ... *)
Clear(t) ==
  LET w == thread[t].work  o == OwnerOf[w]  p == ThreadPool[t] IN
  /\ thread[t].pc = "gate"
  /\ gate[o] = None
  /\ ~(thread[t].again /\ ~stopping[o])
  /\ gate' = [gate EXCEPT ![o] = t]
  /\ active' = [active EXCEPT ![p] = @ - 1]
  /\ busy' = [busy EXCEPT ![w] = FALSE]
  /\ thread' = Moved(t, "account")
  /\ UNCHANGED <<stopping, pending, hot, left, hots, normals, queued, pool, join, stack>>

(* ... o->pending-- ... *)
Account(t) ==
  LET o == OwnerOf[thread[t].work] IN
  /\ thread[t].pc = "account"
  /\ pending' = [pending EXCEPT ![o] = @ - 1]
  /\ thread' = Moved(t, "wake")
  /\ UNCHANGED <<stopping, gate, jobs, lists, join, stack>>

(* Mutant: one waiter is woken, a staging call if there is one. *)
WakeOne(t) ==
  LET o == OwnerOf[thread[t].work]
      sleepers == {w \in StackJobs : OwnerOf[w] = o /\ stack[w] = "asleep"} IN
  /\ thread[t].pc = "wake"
  /\ join' = [join EXCEPT ![o] = IF @ = "asleep" /\ sleepers = {} THEN "wait" ELSE @]
  /\ stack' = [w \in StackJobs |-> IF w \in sleepers THEN "wait" ELSE stack[w]]
  /\ thread' = Moved(t, "unlock")
  /\ UNCHANGED <<owners, jobs, lists>>

(* ... wake_up_all(&o->done) ... *)
WakeDone(t) ==
  LET o == OwnerOf[thread[t].work] IN
  /\ thread[t].pc = "wake"
  /\ join' = [join EXCEPT ![o] = IF @ = "asleep" THEN "wait" ELSE @]
  /\ stack' = [w \in StackJobs |-> IF OwnerOf[w] = o /\ stack[w] = "asleep" THEN "wait" ELSE stack[w]]
  /\ thread' = Moved(t, "unlock")
  /\ UNCHANGED <<owners, jobs, lists>>

(* ... and the gate is released: owner and job may be freed from here on. *)
Unlock(t) ==
  LET o == OwnerOf[thread[t].work] IN
  /\ thread[t].pc = "unlock"
  /\ gate' = [gate EXCEPT ![o] = None]
  /\ thread' = [thread EXCEPT ![t] = Idle]
  /\ UNCHANGED <<stopping, pending, jobs, lists, join, stack>>

----------------------------------------------------------------------------
(* sbk_owner_stop closes admission; sbk_drain_work calls it once, and      *)
(* sbk_destroy again or for the first time.                                *)
StopAdmission(o) ==
  /\ join[o] \in {"live", "joined"}
  /\ gate[o] = None
  /\ stopping' = [stopping EXCEPT ![o] = TRUE]
  /\ join' = [join EXCEPT ![o] = "wait"]
  /\ UNCHANGED <<pending, gate, jobs, lists, thread, stack>>

(* Its wait_event reads pending without the gate, and sleeps. *)
StopWait(o) ==
  /\ join[o] = "wait"
  /\ join' = [join EXCEPT ![o] = IF pending[o] = 0 THEN "fence" ELSE "asleep"]
  /\ UNCHANGED <<owners, jobs, lists, thread, stack>>

(* Mutant: the stop returns without passing the gate. *)
StopUnfenced(o) ==
  /\ join[o] = "fence"
  /\ join' = [join EXCEPT ![o] = "joined"]
  /\ UNCHANGED <<owners, jobs, lists, thread, stack>>

(* Its lock and unlock of the gate, behind the thread that woke it. *)
StopFence(o) ==
  /\ join[o] = "fence"
  /\ gate[o] = None
  /\ join' = [join EXCEPT ![o] = "joined"]
  /\ UNCHANGED <<owners, jobs, lists, thread, stack>>

(* sbk_destroy goes on to free the region, once nobody else refers to it. *)
Free(o) ==
  /\ join[o] = "joined"
  /\ \A w \in StackJobs : OwnerOf[w] = o => stack[w] = "free"
  /\ join' = [join EXCEPT ![o] = "freed"]
  /\ UNCHANGED <<owners, jobs, lists, thread, stack>>

(* sbk_dispatch_destroy: the last region put the transport; the threads    *)
(* are told to stop and joined, then the pool is freed.                    *)
StopPool(p) ==
  /\ pool[p] = "up"
  /\ \A o \in Owners : join[o] = "freed"
  /\ pool' = [pool EXCEPT ![p] = "stopping"]
  /\ thread' = Woken(p)
  /\ UNCHANGED <<owners, jobs, hots, normals, queued, active, join, stack>>

FreePool(p) ==
  /\ pool[p] = "stopping"
  /\ \A t \in Threads : ThreadPool[t] = p => thread[t].pc = "exit"
  /\ pool' = [pool EXCEPT ![p] = "freed"]
  /\ UNCHANGED <<owners, jobs, hots, normals, queued, active, thread, join, stack>>

ThreadStep(t) ==
  \/ Ready(t) \/ Take(t) \/ TakeStopped(t) \/ Requeue(t)
  \/ Clear(t) \/ Account(t) \/ WakeDone(t) \/ Unlock(t)
  \/ \E again, isHot \in BOOLEAN : Step(t, again, isHot)
JoinStep(o) == StopWait(o) \/ StopFence(o)
WaitStep(w) == WorkWait(w) \/ WorkFence(w)

Next ==
  \/ \E w \in Works : QueueWork(w)
  \/ \E w \in StackJobs : Stage(w) \/ WaitStep(w)
  \/ \E t \in Threads : ThreadStep(t)
  \/ \E o \in Owners : StopAdmission(o) \/ JoinStep(o) \/ Free(o)
  \/ \E p \in Pools : StopPool(p) \/ FreePool(p)

Spec == Init /\ [][Next]_vars

(* The kernel schedules every thread, jobs terminate, and who spins on a   *)
(* gate that is released again and again gets it (the kernel's spinlocks   *)
(* are queued); nobody is obliged to queue a job or to stop a region.      *)
Fairness ==
  /\ \A t \in Threads : SF_vars(ThreadStep(t))
  /\ \A o \in Owners : WF_vars(JoinStep(o))
  /\ \A w \in StackJobs : SF_vars(WaitStep(w))

FairSpec == Spec /\ Fairness

----------------------------------------------------------------------------
Running(t) == thread[t].pc \in {"step", "gate"}
Ending(t) == thread[t].pc \in {"account", "wake", "unlock"}
Listed(p) == {Listing(p)[i] : i \in DOMAIN Listing(p)}

(* The shapes of the pools, owners, jobs and threads. *)
TypeOK ==
  /\ stopping \in [Owners -> BOOLEAN]
  /\ pending \in [Owners -> Nat]
  /\ gate \in [Owners -> Threads \cup {None}]
  /\ busy \in [Jobs -> BOOLEAN]
  /\ hot \in [Jobs -> BOOLEAN]
  /\ left \in [Jobs -> 0..MaxQuanta]
  /\ hots \in [Pools -> Seq(Jobs)]
  /\ normals \in [Pools -> Seq(Jobs)]
  /\ queued \in [Pools -> Nat]
  /\ active \in [Pools -> Nat]
  /\ pool \in [Pools -> {"up", "stopping", "freed"}]
  /\ thread \in [Threads -> [pc : {"idle", "asleep", "take", "step", "gate", "account", "wake",
                                    "unlock", "exit"},
                              work : Jobs \cup {None}, again : BOOLEAN]]
  /\ join \in [Owners -> {"live", "wait", "asleep", "fence", "joined", "freed"}]
  /\ stack \in [StackJobs -> {"free", "wait", "asleep", "fence"}]

(* A busy job is on one list once or in the hands of one thread, and an    *)
(* idle one nowhere: no thread ever runs a job that another runs, and no   *)
(* list node is linked twice.                                              *)
OnePlace ==
  \A w \in Jobs :
    Cardinality({<<p, i>> \in {<<q, j>> : q \in Pools, j \in 1..Cardinality(Jobs)} :
                   i \in DOMAIN Listing(p) /\ Listing(p)[i] = w})
      + Cardinality({t \in Threads : Running(t) /\ thread[t].work = w})
    = IF busy[w] THEN 1 ELSE 0

Joined(o) == join[o] \in {"joined", "freed"}
WorksOn(t, w) == (Running(t) \/ Ending(t)) /\ thread[t].work = w

(* Once sbk_owner_stop has returned, the region has no job queued, running  *)
(* or ending and none can enter again, which is what the drain              *)
(* acknowledgement of sbk_drain_work stands on, so no thread touches a      *)
(* freed region: the final wake happens with the gate held, and the joiner  *)
(* passes the gate after it.  Nor does one touch a stack job whose waiter   *)
(* has returned, and a pool that is torn down has nothing left (the warning *)
(* of sbk_dispatch_destroy never fires).                                    *)
NoUseAfterFree ==
  /\ \A o \in Owners, w \in Jobs : Joined(o) /\ OwnerOf[w] = o =>
       /\ \A p \in Pools : w \notin Listed(p)
       /\ \A t \in Threads : ~WorksOn(t, w)
  /\ \A t \in Threads, w \in StackJobs : Running(t) /\ thread[t].work = w => stack[w] # "free"
  /\ \A p \in Pools : pool[p] # "up" => queued[p] = 0 /\ active[p] = 0 /\ Listing(p) = <<>>

(* A stop of a region returns, whatever its siblings do: only its own jobs *)
(* are waited for, and no wake-up is lost between reading pending and      *)
(* going to sleep.                                                         *)
StopReturns == \A o \in Owners : (join[o] = "wait") ~> (join[o] \in {"joined", "freed"})

(* A wait for a stack job returns: the job is taken up and run to its end,  *)
(* in bounded turns with the others, and its waiter is woken.               *)
WaitReturns == \A w \in StackJobs : (stack[w] = "wait") ~> (stack[w] = "free")
============================================================================
