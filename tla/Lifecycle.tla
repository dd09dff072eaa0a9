----------------------------- MODULE Lifecycle -----------------------------
(***************************************************************************)
(* Page installation on the destination while the restored processes change *)
(* their address spaces (sb-lifecycle.c).  A family is the restored process *)
(* and the children it forks; each has a userfaultfd context.  Installers   *)
(* copy an arrived page into every context that maps it.  The event reader  *)
(* turns faults into page requests and applies discards, unmaps, moves and  *)
(* forks.  Both go through the gate of LifecycleGate.  The source sends a   *)
(* page once, so a context that misses it never sees it.                    *)
(*                                                                          *)
(* The kernel side (mm, calls that change a mapping, COPY, ZEROPAGE, WAKE)  *)
(* is external and modelled from how the code uses it: a call that changes  *)
(* a mapping waits until its event is read, and COPY and ZEROPAGE return    *)
(* EAGAIN while an event is unread.                                         *)
(***************************************************************************)
EXTENDS LifecycleGate, Sequences

CONSTANTS Contexts,   \* the restored process and the children it may fork
          Root,       \* the restored process
          Pages,      \* pages of the source, by original address
          Spare,      \* addresses a page can be moved to
          Installers, \* the threads that install arrived pages
          Demand,     \* the installers that serve demand responses only
          Reader,     \* the thread that reads events
          Batch,      \* faults handed out by one call of next_batch
          Calls,      \* the calls the processes may make
          MaxCalls,   \* bound on the number of those calls
          None

ASSUME LifecycleAssumption ==
  /\ Demand \subseteq Installers /\ Installers \subseteq Threads
  /\ Reader \in Threads \ Installers

Addresses == Pages \cup Spare

VARIABLES
  \* The kernel: per context the mm, the caller waiting for its event, and
  \* the thread waiting on a missing page.
  alive,      \* "unborn", "live", "dead"
  vma,        \* the page mapped at each address, or None
  pte,        \* what is mapped in: "none", "zero" or a source page
  call,       \* the unread event, the acknowledged discard, or None
  waiting,    \* the faulting address and whether the fault has been read
  owed,       \* pages that must read as source data: not discarded yet
  calls,      \* calls made so far
  \* The lifecycle component.
  contexts,   \* f->contexts, in list order
  dead, maps, bitmap,
  faults,     \* f->head .. f->tail
  requested,  \* pages handed to the demand lane
  arrived,    \* pages whose installation has returned
  pc, page, cursor, retry, produced

kernel == <<alive, vma, pte, call, waiting, owed, calls>>
target == <<contexts, dead, maps, bitmap, faults, requested, arrived>>
local  == <<pc, page, cursor, retry, produced>>
vars   == <<kernel, target, local, gateVars>>

Identity == [a \in Addresses |-> IF a \in Pages THEN a ELSE None]
Nowhere  == [a \in Addresses |-> None]

Init ==
  /\ GateInit
  /\ alive = [c \in Contexts |-> IF c = Root THEN "live" ELSE "unborn"]
  /\ vma = [c \in Contexts |-> IF c = Root THEN Identity ELSE Nowhere]
  /\ pte = [c \in Contexts |-> [a \in Addresses |-> "none"]]
  /\ call = [c \in Contexts |-> None]
  /\ waiting = [c \in Contexts |-> None]
  /\ owed = [c \in Contexts |-> Pages]
  /\ calls = 0
  /\ contexts = <<Root>>
  /\ dead = {}
  /\ maps = [c \in Contexts |-> IF c = Root THEN Identity ELSE Nowhere]
  /\ bitmap = [c \in Contexts |-> [p \in Pages |-> "PENDING"]]
  /\ faults = <<>> /\ requested = {} /\ arrived = {}
  /\ pc = [t \in Threads |-> "idle"]
  /\ page = [t \in Threads |-> None]
  /\ cursor = [t \in Threads |-> 1]
  /\ retry = [t \in Threads |-> FALSE]
  /\ produced = 0

----------------------------------------------------------------------------
(* The restored processes and the kernel. *)

Closed == pc[Reader] = "closed"
Unread(c) == call[c] # None /\ ~call[c].acked
Message(c) == Unread(c) \/ (waiting[c] # None /\ ~waiting[c].read)

(* A thread touches a page.  When it is missing the thread waits; once the  *)
(* descriptors are closed the kernel fills it with zeroes.                  *)
Touch(c, a) ==
  /\ alive[c] = "live" /\ waiting[c] = None
  /\ vma[c][a] # None /\ pte[c][a] = "none"
  /\ IF Closed
       THEN pte' = [pte EXCEPT ![c][a] = "zero"] /\ UNCHANGED waiting
       ELSE waiting' = [waiting EXCEPT ![c] = [at |-> a, read |-> FALSE]]
            /\ UNCHANGED pte
  /\ UNCHANGED <<alive, vma, call, owed, calls, target, local, gateVars>>

Waits(c, a) == waiting[c] # None /\ waiting[c].at = a
Woken(c, a) == IF Waits(c, a) THEN [waiting EXCEPT ![c] = None] ELSE waiting

MayCall(c, kind) ==
  /\ kind \in Calls /\ alive[c] = "live" /\ call[c] = None
  /\ ~Closed /\ calls < MaxCalls /\ calls' = calls + 1

Send(c, event) == call' = [call EXCEPT ![c] = event]

(* madvise(MADV_DONTNEED): the event goes first, the pages go once it has   *)
(* been read.                                                               *)
Discard(c, a) ==
  /\ MayCall(c, "discard") /\ vma[c][a] # None
  /\ Send(c, [kind |-> "REMOVE", from |-> a, acked |-> FALSE])
  /\ UNCHANGED <<alive, vma, pte, waiting, owed, target, local, gateVars>>

Zap(c) ==
  /\ call[c] # None /\ call[c].acked
  /\ LET a == call[c].from
     IN  /\ pte' = [pte EXCEPT ![c][a] = "none"]
         /\ owed' = [owed EXCEPT ![c] = @ \ {vma[c][a]}]
  /\ call' = [call EXCEPT ![c] = None]
  /\ UNCHANGED <<alive, vma, waiting, calls, target, local, gateVars>>

(* munmap and mremap change the page table first and then send the event.   *)
(* A program does not unmap or move a page that another thread is using.    *)
Unmap(c, a) ==
  /\ MayCall(c, "unmap") /\ vma[c][a] # None /\ ~Waits(c, a)
  /\ vma' = [vma EXCEPT ![c][a] = None]
  /\ pte' = [pte EXCEPT ![c][a] = "none"]
  /\ Send(c, [kind |-> "UNMAP", from |-> a, acked |-> FALSE])
  /\ UNCHANGED <<alive, waiting, owed, target, local, gateVars>>

Remap(c, a, b) ==
  /\ MayCall(c, "remap") /\ vma[c][a] # None /\ vma[c][b] = None /\ ~Waits(c, a)
  /\ vma' = [vma EXCEPT ![c][a] = None, ![c][b] = vma[c][a]]
  /\ pte' = [pte EXCEPT ![c][a] = "none", ![c][b] = pte[c][a]]
  /\ Send(c, [kind |-> "REMAP", from |-> a, to |-> b, acked |-> FALSE])
  /\ UNCHANGED <<alive, waiting, owed, target, local, gateVars>>

(* fork copies the address space; the child runs once the event is read. *)
Fork(c, d) ==
  /\ MayCall(c, "fork") /\ alive[d] = "unborn"
  /\ vma' = [vma EXCEPT ![d] = vma[c]]
  /\ pte' = [pte EXCEPT ![d] = pte[c]]
  /\ owed' = [owed EXCEPT ![d] = owed[c]]
  /\ alive' = [alive EXCEPT ![d] = "forking"]
  /\ Send(c, [kind |-> "FORK", child |-> d, acked |-> FALSE])
  /\ UNCHANGED <<waiting, target, local, gateVars>>

Exit(c) ==
  /\ MayCall(c, "exit")
  /\ alive' = [alive EXCEPT ![c] = "dead"]
  /\ waiting' = [waiting EXCEPT ![c] = None]
  /\ UNCHANGED <<vma, pte, call, owed, target, local, gateVars>>

Process ==
  \E c \in Contexts :
    \/ \E a \in Addresses : Touch(c, a) \/ Discard(c, a) \/ Unmap(c, a)
                            \/ \E b \in Addresses : Remap(c, a, b)
    \/ \E d \in Contexts : Fork(c, d)
    \/ Exit(c)

----------------------------------------------------------------------------
(* sb_lifecycle_install_profiled: under the shared gate, copy the page into *)
(* every context that maps it and publish it as PRESENT; when some copy met *)
(* an unread event, drain the events under the exclusive gate and start     *)
(* over.  The demand and the background lane may meet on a page.  The       *)
(* background lane also comes back to pages that have arrived: this stands  *)
(* for the row of other pages it goes on installing.                        *)

Holds(t, mode) == gpc[t] = "in" /\ held[t] = mode
Goto(t, to) == pc' = [pc EXCEPT ![t] = to]
Advance(t) == cursor' = [cursor EXCEPT ![t] = @ + 1]
Leave(t, to) ==
  /\ Unlock(t)
  /\ cursor' = [cursor EXCEPT ![t] = 1]
  /\ Goto(t, to)
Maps(c, p) == \E a \in Addresses : maps[c][a] = p
AtOrigin(c, p) == CHOOSE a \in Addresses : maps[c][a] = p

Install(t, p) ==
  /\ t \in Installers /\ pc[t] = "idle" /\ pc[Reader] \notin {"fdrain", "closed"}
  /\ t \in Demand => p \in requested \ arrived
  /\ RdLock(t)
  /\ page' = [page EXCEPT ![t] = p]
  /\ Goto(t, "walk")
  /\ UNCHANGED <<kernel, target, cursor, retry, produced>>

Walks(t) == pc[t] = "walk" /\ Holds(t, "R") /\ cursor[t] <= Len(contexts)
Current(t) == contexts[cursor[t]]
Wants(c, p) == c \notin dead /\ Maps(c, p) /\ bitmap[c][p] = "PENDING"

InstallSkip(t) ==
  /\ Walks(t) /\ ~Wants(Current(t), page[t])
  /\ Advance(t)
  /\ UNCHANGED <<kernel, target, pc, page, retry, produced, gateVars>>

(* What UFFDIO_COPY answers. *)
CopyResult(c, a) ==
  CASE alive[c] = "dead"   -> "ESRCH"
    [] Unread(c)           -> "EAGAIN"
    [] vma[c][a] = None    -> "ENOENT"
    [] pte[c][a] # "none"  -> "EEXIST"
    [] OTHER               -> "OK"

(* The look at the bitmap and the COPY are one step: under the shared gate  *)
(* the entry can only turn PRESENT in between, and then COPY says EEXIST.   *)
InstallCopy(t) ==
  /\ Walks(t) /\ Wants(Current(t), page[t])
  /\ LET c == Current(t)
         a == AtOrigin(c, page[t])
         result == CopyResult(c, a)
     IN  \/ /\ result = "OK"
            /\ pte' = [pte EXCEPT ![c][a] = page[t]]
            /\ waiting' = Woken(c, a)
            /\ Goto(t, "publish")
            /\ UNCHANGED <<dead, retry, cursor>>
         \/ /\ result = "EEXIST"
            /\ Goto(t, "publish")
            /\ UNCHANGED <<pte, waiting, dead, retry, cursor>>
         \/ /\ result \in {"EAGAIN", "ENOENT"}
            /\ retry' = [retry EXCEPT ![t] = TRUE]
            /\ Advance(t)
            /\ UNCHANGED <<pte, waiting, dead, pc>>
         \/ /\ result = "ESRCH"
            /\ dead' = dead \cup {c}
            /\ Advance(t)
            /\ UNCHANGED <<pte, waiting, retry, pc>>
  /\ UNCHANGED <<alive, vma, call, owed, calls, contexts, maps, bitmap, faults,
                 requested, arrived, page, produced, gateVars>>

InstallPublish(t) ==
  /\ pc[t] = "publish"
  /\ bitmap' = [bitmap EXCEPT ![Current(t)][page[t]] = "PRESENT"]
  /\ Advance(t) /\ Goto(t, "walk")
  /\ UNCHANGED <<kernel, contexts, dead, maps, faults, requested, arrived, page,
                 retry, produced, gateVars>>

InstallUnlock(t) ==
  /\ pc[t] = "walk" /\ Holds(t, "R") /\ cursor[t] > Len(contexts)
  /\ Leave(t, "walked")
  /\ UNCHANGED <<kernel, target, page, retry, produced>>

InstallRetry(t) ==
  /\ pc[t] = "walked" /\ gpc[t] = "out" /\ retry[t]
  /\ WrLock(t)
  /\ retry' = [retry EXCEPT ![t] = FALSE]
  /\ Goto(t, "drain")
  /\ UNCHANGED <<kernel, target, page, cursor, produced>>

InstallAgain(t) ==
  /\ t \in Installers /\ pc[t] = "drained" /\ gpc[t] = "out"
  /\ RdLock(t)
  /\ Goto(t, "walk")
  /\ UNCHANGED <<kernel, target, page, cursor, retry, produced>>

(* Mutant: an installation that met an unread event returns all the same. *)
InstallReturnEarly(t) ==
  /\ pc[t] = "walked" /\ gpc[t] = "out"
  /\ arrived' = arrived \cup {page[t]}
  /\ page' = [page EXCEPT ![t] = None]
  /\ Goto(t, "idle")
  /\ UNCHANGED <<kernel, contexts, dead, maps, bitmap, faults, requested, cursor,
                 retry, produced, gateVars>>

InstallReturn(t) ==
  /\ pc[t] = "walked" /\ gpc[t] = "out" /\ ~retry[t]
  /\ arrived' = arrived \cup {page[t]}
  /\ page' = [page EXCEPT ![t] = None]
  /\ Goto(t, "idle")
  /\ UNCHANGED <<kernel, contexts, dead, maps, bitmap, faults, requested, cursor,
                 retry, produced, gateVars>>

----------------------------------------------------------------------------
(* drain and event: read every message of every context under the exclusive *)
(* gate.  The kernel hands out faults before events; reading an event lets  *)
(* the caller go on.                                                        *)

Drains(t) == pc[t] \in {"drain", "fdrain"} /\ Holds(t, "W")
Answered(c) == [call EXCEPT ![c] = None]

ReadFault(t) ==
  /\ Drains(t) /\ cursor[t] <= Len(contexts)
  /\ LET c == Current(t)
     IN  /\ c \notin dead /\ waiting[c] # None /\ ~waiting[c].read
         /\ waiting' = [waiting EXCEPT ![c].read = TRUE]
         /\ faults' = Append(faults, [context |-> c, at |-> waiting[c].at])
  /\ UNCHANGED <<alive, vma, pte, call, owed, calls, contexts, dead, maps, bitmap,
                 requested, arrived, local, gateVars>>

(* Mutant: a discard does not mark the page. *)
RemoveUnmarked(c, e) ==
  /\ call' = [call EXCEPT ![c].acked = TRUE]
  /\ UNCHANGED <<bitmap, contexts, maps, alive>>

Remove(c, e) ==
  /\ bitmap' = IF maps[c][e.from] = None THEN bitmap
               ELSE [bitmap EXCEPT ![c][maps[c][e.from]] = "ZERO"]
  /\ call' = [call EXCEPT ![c].acked = TRUE]
  /\ UNCHANGED <<contexts, maps, alive>>

ChangeMaps(c, e) ==
  /\ maps' = [maps EXCEPT ![c] = [a \in Addresses |->
                CASE a = e.from -> None
                  [] e.kind = "REMAP" /\ a = e.to -> maps[c][e.from]
                  [] OTHER -> maps[c][a]]]
  /\ call' = Answered(c)
  /\ UNCHANGED <<contexts, bitmap, alive>>

(* The child enters the list behind its parent, so that the same drain      *)
(* visits it.                                                               *)
Adopt(t, c, e) ==
  /\ contexts' = SubSeq(contexts, 1, cursor[t]) \o <<e.child>>
                   \o SubSeq(contexts, cursor[t] + 1, Len(contexts))
  /\ maps' = [maps EXCEPT ![e.child] = maps[c]]
  /\ bitmap' = [bitmap EXCEPT ![e.child] = bitmap[c]]
  /\ alive' = [alive EXCEPT ![e.child] = "live"]
  /\ call' = Answered(c)

ReadEvent(t) ==
  /\ Drains(t) /\ cursor[t] <= Len(contexts)
  /\ LET c == Current(t)
         e == call[c]
     IN  /\ c \notin dead /\ Unread(c)
         /\ waiting[c] # None => waiting[c].read
         /\ CASE e.kind = "REMOVE" -> Remove(c, e)
              [] e.kind \in {"UNMAP", "REMAP"} -> ChangeMaps(c, e)
              [] e.kind = "FORK" -> Adopt(t, c, e)
  /\ UNCHANGED <<vma, pte, waiting, owed, calls, dead, faults, requested, arrived,
                 local, gateVars>>

(* Nothing to read, or the mm is gone (read may report ESRCH). *)
DrainNext(t) ==
  /\ Drains(t) /\ cursor[t] <= Len(contexts)
  /\ LET c == Current(t)
     IN  \/ (c \in dead \/ ~Message(c)) /\ UNCHANGED dead
         \/ c \notin dead /\ alive[c] = "dead" /\ dead' = dead \cup {c}
  /\ Advance(t)
  /\ UNCHANGED <<kernel, contexts, maps, bitmap, faults, requested, arrived, pc, page,
                 retry, produced, gateVars>>

Drained(t) == Drains(t) /\ cursor[t] > Len(contexts)

DrainEnd(t) ==
  /\ t \in Installers /\ Drained(t)
  /\ Leave(t, "drained")
  /\ UNCHANGED <<kernel, target, page, retry, produced>>

----------------------------------------------------------------------------
(* sb_lifecycle_next_batch: poll, drain, and hand out or settle the queued  *)
(* faults.                                                                  *)

Poll ==
  /\ pc[Reader] = "idle" /\ gpc[Reader] = "out"
  /\ \/ faults # <<>>
     \/ \E k \in 1 .. Len(contexts) : contexts[k] \notin dead /\ Message(contexts[k])
  /\ WrLock(Reader)
  /\ Goto(Reader, "drain")
  /\ UNCHANGED <<kernel, target, page, cursor, retry, produced>>

Served == faults' = Tail(faults)
StateAt(c, a) == IF maps[c][a] = None THEN "ZERO" ELSE bitmap[c][maps[c][a]]
Serving == pc[Reader] = "drain" /\ Drained(Reader) /\ faults # <<>> /\ produced < Batch

ServeDead ==
  /\ Serving /\ Head(faults).context \in dead
  /\ Served
  /\ UNCHANGED <<kernel, contexts, dead, maps, bitmap, requested, arrived, local, gateVars>>

ServePending ==
  /\ Serving
  /\ LET c == Head(faults).context
         a == Head(faults).at
     IN  /\ c \notin dead /\ StateAt(c, a) = "PENDING"
         /\ requested' = requested \cup {maps[c][a]}
  /\ produced' = produced + 1
  /\ Served
  /\ UNCHANGED <<kernel, contexts, dead, maps, bitmap, arrived, pc, page, cursor, retry,
                 gateVars>>

(* UFFDIO_ZEROPAGE answers as COPY does; EAGAIN leaves the fault queued. *)
ServeZero ==
  /\ Serving
  /\ LET c == Head(faults).context
         a == Head(faults).at
         result == CopyResult(c, a)
     IN  /\ c \notin dead /\ StateAt(c, a) = "ZERO"
         /\ \/ /\ result = "OK"
               /\ pte' = [pte EXCEPT ![c][a] = "zero"]
               /\ waiting' = Woken(c, a)
               /\ Served
               /\ UNCHANGED <<pc, cursor, produced, gateVars>>
            \/ /\ result = "EAGAIN"
               /\ Leave(Reader, "idle") /\ produced' = 0
               /\ UNCHANGED <<pte, waiting, faults>>
            \/ /\ result \notin {"OK", "EAGAIN"}
               /\ Served
               /\ UNCHANGED <<pte, waiting, pc, cursor, produced, gateVars>>
  /\ UNCHANGED <<alive, vma, call, owed, calls, contexts, dead, maps, bitmap, requested,
                 arrived, page, retry>>

(* UFFDIO_WAKE *)
ServePresent ==
  /\ Serving
  /\ LET c == Head(faults).context
         a == Head(faults).at
     IN  /\ c \notin dead /\ StateAt(c, a) = "PRESENT"
         /\ waiting' = Woken(c, a)
  /\ Served
  /\ UNCHANGED <<alive, vma, pte, call, owed, calls, contexts, dead, maps, bitmap,
                 requested, arrived, local, gateVars>>

ServeEnd ==
  /\ pc[Reader] = "drain" /\ Drained(Reader) /\ (faults = <<>> \/ produced = Batch)
  /\ Leave(Reader, "idle") /\ produced' = 0
  /\ UNCHANGED <<kernel, target, page, retry>>

Serve == ServeDead \/ ServePending \/ ServeZero \/ ServePresent \/ ServeEnd

----------------------------------------------------------------------------
(* sb_lifecycle_finish, called once every page has arrived and the other    *)
(* threads have been joined: a last drain, then close every descriptor.     *)
(* Closing releases the callers and the waiting threads.                    *)
Finish ==
  /\ arrived = Pages
  /\ pc[Reader] = "idle"
  /\ \A t \in Threads : pc[t] = "idle" /\ gpc[t] = "out"
  /\ WrLock(Reader)
  /\ Goto(Reader, "fdrain")
  /\ UNCHANGED <<kernel, target, page, cursor, retry, produced>>

Close ==
  /\ pc[Reader] = "fdrain" /\ Drained(Reader)
  /\ waiting' = [c \in Contexts |-> None]
  /\ call' = [c \in Contexts |->
               IF call[c] = None \/ call[c].kind # "REMOVE" THEN None
               ELSE [call[c] EXCEPT !.acked = TRUE]]
  /\ alive' = [c \in Contexts |-> IF alive[c] = "forking" THEN "live" ELSE alive[c]]
  /\ Leave(Reader, "closed")
  /\ UNCHANGED <<vma, pte, owed, calls, target, page, retry, produced>>

----------------------------------------------------------------------------
Work(t) ==
  \/ InstallSkip(t) \/ InstallCopy(t) \/ InstallPublish(t) \/ InstallUnlock(t)
  \/ InstallRetry(t) \/ InstallAgain(t) \/ InstallReturn(t)
  \/ ReadFault(t) \/ ReadEvent(t) \/ DrainNext(t) \/ DrainEnd(t)
Gate(t) == GateStep(t) /\ UNCHANGED <<kernel, target, local>>

Next ==
  \/ Process \/ \E c \in Contexts : Zap(c)
  \/ \E t \in Installers, p \in Pages : Install(t, p)
  \/ \E t \in Threads : Work(t) \/ Gate(t)
  \/ Poll \/ Serve \/ Finish \/ Close

Spec == Init /\ [][Next]_vars

(* Every thread keeps running, the demand installers serve what was         *)
(* requested, and the kernel completes an acknowledged discard.             *)
ReaderStep == Work(Reader) \/ Gate(Reader) \/ Poll \/ Serve \/ Close
InstallerStep(t) ==
  \/ Work(t) \/ Gate(t)
  \/ t \in Demand /\ \E p \in Pages : Install(t, p)

FairSpec ==
  /\ Spec /\ WF_vars(ReaderStep)
  /\ \A t \in Installers : WF_vars(InstallerStep(t))
  /\ WF_vars(\E c \in Contexts : Zap(c))

----------------------------------------------------------------------------
Known(c) == \E k \in 1 .. Len(contexts) : contexts[k] = c
Discarding(c, a) == call[c] # None /\ call[c].acked /\ call[c].from = a

(* What a process reads is what it would have read on the source: the page  *)
(* of its own mapping until it discards it and zeroes from then on, through *)
(* moves and forks.  No discarded page comes back, none is zero without a   *)
(* discard, none is installed at the address of another (sb-lifecycle.c:310 *)
(* and 102), also once the descriptors are closed (sb-lifecycle.c:486).     *)
ContentRight ==
  \A c \in Contexts, a \in Addresses :
    vma[c][a] # None /\ pte[c][a] # "none" /\ ~Discarding(c, a) =>
      pte[c][a] = IF vma[c][a] \in owed[c] THEN vma[c][a] ELSE "zero"

(* The source sends a page once.  When its installation has returned, no    *)
(* context waits for it any more, not even one whose fork event was unread  *)
(* meanwhile; and PRESENT is never claimed of a page that is missing, which *)
(* would make a fault on it wake and fault again for ever                   *)
(* (sb-lifecycle.c:423 to 480).                                             *)
Settled ==
  ~Closed => \A c \in Contexts, a \in Addresses :
    Known(c) /\ c \notin dead /\ alive[c] = "live" /\ maps[c][a] # None =>
      LET p == maps[c][a]
      IN  /\ p \in arrived => bitmap[c][p] # "PENDING"
          /\ bitmap[c][p] = "PRESENT" /\ ~Unread(c) => pte[c][a] # "none"

(* The event reader gets the gate however many installations follow each    *)
(* other: "continuous background copies cannot indefinitely admit readers"  *)
(* (sb-lifecycle-gate.h:9).                                                 *)
ReaderProgress == WriterProgress(Reader)

(* Every fault on a page that still has its source data is served: the      *)
(* demand lane alone installs it, whatever the other threads do to the      *)
(* address space meanwhile (sb-lifecycle.c:367).                            *)
FaultServed ==
  \A c \in Contexts :
    waiting[c] # None ~> \/ waiting[c] = None
                         \/ vma[c][waiting[c].at] \notin owed[c]

(* "Zero-fill faults are resolved locally" (sb-lifecycle.h:57): a fault that *)
(* has been read and whose page is zero-fill is still queued, to be         *)
(* resolved by the next batch.                                              *)
ZeroFaultQueued ==
  \A c \in Contexts, a \in Addresses :
    Waits(c, a) /\ waiting[c].read /\ c \notin dead /\ StateAt(c, a) = "ZERO" =>
      \E k \in 1 .. Len(faults) : faults[k] = [context |-> c, at |-> a]
============================================================================
