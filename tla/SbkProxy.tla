------------------------------ MODULE SbkProxy ------------------------------
(***************************************************************************)
(* The rsocket page proxy of the SwiftBaton-K module, in                   *)
(* kernel/module/sbk_core.c: a fault that needs a page puts a reference-   *)
(* counted request on a list; threads of the page client take it with      *)
(* PROXY_NEXT, fetch the page and answer with PROXY_COMPLETE; the fault    *)
(* gives up after SBK_WAIT_TIMEOUT, and a cancelled context fails all.     *)
(*                                                                         *)
(* A critical section of proxy_lock is one step; between two of them the   *)
(* request is protected by its reference count only.                       *)
(***************************************************************************)
EXTENDS Naturals, Sequences, SequencesExt, FiniteSets

CONSTANTS Faults,  \* calls of sbk_proxy_fetch, with one request each
          Servers, \* threads of the page client
          None     \* no request

ASSUME ProxyAssumption ==
  /\ IsFiniteSet(Faults) /\ IsFiniteSet(Servers)
  /\ None \notin Faults

VARIABLES stopping,   \* c->stopping
          pending,    \* the list proxy_pending
          inflight,   \* the list proxy_inflight
          count,      \* proxy_pending_count
          req,        \* req[f]: the sbk_proxy_waiter of call f
          call,       \* call[f]: progress and result of the call
          server,     \* server[s]: the ioctl server s is in, and its request
          cancel      \* the SBK_IOC_CANCEL call

vars == <<stopping, pending, inflight, count, req, call, server, cancel>>
lists == <<pending, inflight, count>>

Results == {"none", "ok", "error", "timeout", "canceled"}

Init ==
  /\ stopping = FALSE
  /\ pending = <<>> /\ inflight = <<>> /\ count = 0
  /\ req = [f \in Faults |-> [refs |-> 0, dispatched |-> FALSE, done |-> FALSE,
                              status |-> "none", filled |-> FALSE]]
  /\ call = [f \in Faults |-> [pc |-> "idle", ret |-> "none", puts |-> 0]]
  /\ server = [s \in Servers |-> [pc |-> "user", f |-> None, status |-> "none"]]
  /\ cancel = [pc |-> "off", f |-> None]

(* kref_put; sbk_proxy_free drops the request and its page reference at 0. *)
Unref(r, f) == [r EXCEPT ![f].refs = @ - 1]

(* complete(): whoever waits, or will wait, for the request goes on. *)
Complete(r, f) == [r EXCEPT ![f].done = TRUE]

Linked(f) == Contains(pending, f) \/ Contains(inflight, f)
Unlink(f) ==
  /\ pending' = SelectSeq(pending, LAMBDA g : g # f)
  /\ inflight' = SelectSeq(inflight, LAMBDA g : g # f)

----------------------------------------------------------------------------
(* sbk_proxy_fetch: allocate the request, refuse it when the context is     *)
(* stopping, else queue it and wake a server.                               *)
Fetch(f) ==
  /\ call[f].pc = "idle"
  /\ IF stopping
     THEN /\ call' = [call EXCEPT ![f] = [pc |-> "put", ret |-> "canceled", puts |-> 1]]
          /\ UNCHANGED lists
     ELSE /\ call' = [call EXCEPT ![f].pc = "wait"]
          /\ pending' = Append(pending, f) /\ count' = count + 1
          /\ UNCHANGED inflight
  /\ req' = [req EXCEPT ![f].refs = 1]
  /\ UNCHANGED <<stopping, server, cancel>>

(* wait_for_completion_timeout ends: completed, or after 30 seconds. *)
Awake(f) ==
  /\ call[f].pc = "wait" /\ req[f].done
  /\ call' = [call EXCEPT ![f] = [pc |-> "unlink", ret |-> req[f].status, puts |-> 1]]
  /\ UNCHANGED <<stopping, lists, req, server, cancel>>
Timeout(f) ==
  /\ call[f].pc = "wait" /\ ~req[f].done
  /\ call' = [call EXCEPT ![f] = [pc |-> "unlink", ret |-> "timeout", puts |-> 1]]
  /\ UNCHANGED <<stopping, lists, req, server, cancel>>

(* Whoever is still on a list takes itself off it, with the reference that  *)
(* the list of dispatched requests holds.                                   *)
Retire(f) ==
  /\ call[f].pc = "unlink"
  /\ Unlink(f)
  /\ count' = IF Linked(f) /\ ~req[f].dispatched THEN count - 1 ELSE count
  /\ call' = [call EXCEPT ![f].pc = "put",
                ![f].puts = IF Linked(f) /\ req[f].dispatched THEN 2 ELSE 1]
  /\ UNCHANGED <<stopping, req, server, cancel>>

(* Drop the references, then return to the fault handler. *)
Return(f) ==
  /\ call[f].pc = "put"
  /\ req' = Unref(req, f)
  /\ call' = [call EXCEPT ![f].puts = @ - 1, ![f].pc = IF call[f].puts = 1 THEN "returned" ELSE @]
  /\ UNCHANGED <<stopping, lists, server, cancel>>

----------------------------------------------------------------------------
(* sbk_proxy_next: take the oldest request, with one reference for the list *)
(* and one until the descriptor is copied out.                              *)
ProxyNext(s) ==
  /\ server[s].pc = "user" /\ ~stopping /\ pending # <<>>
  /\ LET f == Head(pending)
     IN  /\ pending' = Tail(pending) /\ inflight' = Append(inflight, f)
         /\ req' = [req EXCEPT ![f].refs = @ + 2, ![f].dispatched = TRUE]
         /\ server' = [server EXCEPT ![s] = [pc |-> "copyout", f |-> f, status |-> "none"]]
  /\ count' = count - 1
  /\ UNCHANGED <<stopping, call, cancel>>

(* The descriptor is copied out, and the ioctl returns ... *)
NextDone(s) ==
  /\ server[s].pc = "copyout"
  /\ req' = Unref(req, server[s].f)
  /\ server' = [server EXCEPT ![s].pc = "fetch"]
  /\ UNCHANGED <<stopping, lists, call, cancel>>

(* Mutant: the request is failed although another party took it. *)
NextFaultUnchecked(s) ==
  /\ server[s].pc = "copyout"
  /\ Unlink(server[s].f)
  /\ server' = [server EXCEPT ![s].pc = "refuse"]
  /\ UNCHANGED <<stopping, count, req, call, cancel>>

(* ... or it cannot be: take the request back and fail it. *)
NextFault(s) ==
  /\ server[s].pc = "copyout"
  /\ Unlink(server[s].f)
  /\ server' = [server EXCEPT ![s].pc = IF Linked(server[s].f) THEN "refuse" ELSE "release"]
  /\ UNCHANGED <<stopping, count, req, call, cancel>>
NextRefuse(s) ==
  /\ server[s].pc = "refuse"
  /\ LET f == server[s].f
     IN  req' = Complete(Unref([req EXCEPT ![f].status = "error"], f), f)
  /\ server' = [server EXCEPT ![s].pc = "release"]
  /\ UNCHANGED <<stopping, lists, call, cancel>>
NextRelease(s) ==
  /\ server[s].pc = "release"
  /\ req' = Unref(req, server[s].f)
  /\ server' = [server EXCEPT ![s].pc = "user", ![s].f = None]
  /\ UNCHANGED <<stopping, lists, call, cancel>>

(* Mutant: the request is found but left on its list. *)
ProxyCompletePeek(s, status) ==
  /\ server[s].pc = "fetch"
  /\ server' = IF Contains(inflight, server[s].f)
               THEN [server EXCEPT ![s].pc = "copy", ![s].status = status]
               ELSE [server EXCEPT ![s].pc = "user", ![s].f = None]
  /\ UNCHANGED <<stopping, lists, req, call, cancel>>

(* sbk_proxy_complete, with the page or with an error: find the request by  *)
(* its id; it may be gone.                                                  *)
ProxyComplete(s, status) ==
  /\ server[s].pc = "fetch"
  /\ LET f == server[s].f
     IN  /\ inflight' = SelectSeq(inflight, LAMBDA g : g # f)
         /\ server' = IF Contains(inflight, f)
                      THEN [server EXCEPT ![s].pc = "copy", ![s].status = status]
                      ELSE [server EXCEPT ![s].pc = "user", ![s].f = None]
  /\ UNCHANGED <<stopping, pending, count, req, call, cancel>>

(* Copy the page unless cancelled meanwhile, which may fault, and publish   *)
(* the status.                                                              *)
CompleteCopy(s) ==
  /\ server[s].pc = "copy"
  /\ \E ret \in IF stopping THEN {"canceled"} ELSE {server[s].status, "error"} :
        req' = [req EXCEPT ![server[s].f].status = ret, ![server[s].f].filled = (ret = "ok")]
  /\ server' = [server EXCEPT ![s].pc = "put"]
  /\ UNCHANGED <<stopping, lists, call, cancel>>

(* Mutant: the owner is woken first and the pin dropped after. *)
CompletePutLate(s) ==
  /\ server[s].pc = "put"
  /\ req' = Complete(req, server[s].f)
  /\ server' = [server EXCEPT ![s].pc = "release"]
  /\ UNCHANGED <<stopping, lists, call, cancel>>

(* Drop the page pin before the owner can return the page, then wake it. *)
CompletePut(s) ==
  /\ server[s].pc = "put"
  /\ req' = Unref(req, server[s].f)
  /\ server' = [server EXCEPT ![s].pc = "complete"]
  /\ UNCHANGED <<stopping, lists, call, cancel>>
CompleteWake(s) ==
  /\ server[s].pc = "complete"
  /\ req' = Complete(req, server[s].f)
  /\ server' = [server EXCEPT ![s].pc = "user", ![s].f = None]
  /\ UNCHANGED <<stopping, lists, call, cancel>>

----------------------------------------------------------------------------
(* sbk_proxy_cancel (SBK_IOC_CANCEL): set stopping, wake the servers, and   *)
(* fail every request, the pending ones first.                              *)
Cancel ==
  /\ cancel.pc = "off"
  /\ stopping' = TRUE /\ cancel' = [cancel EXCEPT !.pc = "scan"]
  /\ UNCHANGED <<lists, req, call, server>>

(* Mutant: only the requests no server has taken are failed. *)
CancelTakePending ==
  /\ cancel.pc = "scan"
  /\ IF pending = <<>>
     THEN /\ cancel' = [cancel EXCEPT !.pc = "end"] /\ UNCHANGED <<lists, req>>
     ELSE LET f == Head(pending)
          IN  /\ Unlink(f) /\ count' = count - 1
              /\ req' = [req EXCEPT ![f].refs = @ + 1]
              /\ cancel' = [pc |-> "put", f |-> f]
  /\ UNCHANGED <<stopping, call, server>>

CancelTake ==
  /\ cancel.pc = "scan"
  /\ IF pending \o inflight = <<>>
     THEN /\ cancel' = [cancel EXCEPT !.pc = "end"] /\ UNCHANGED <<lists, req>>
     ELSE LET f == Head(pending \o inflight)
          IN  /\ Unlink(f)
              /\ count' = IF req[f].dispatched THEN count ELSE count - 1
              /\ req' = [req EXCEPT ![f].refs = @ + 1]
              /\ cancel' = [pc |-> IF req[f].dispatched THEN "undispatch" ELSE "put", f |-> f]
  /\ UNCHANGED <<stopping, call, server>>

(* The status, then the reference of the list if it held one, the own one,  *)
(* and the wakeup.                                                          *)
CancelPut ==
  /\ cancel.pc \in {"undispatch", "put"}
  /\ req' = Unref([req EXCEPT ![cancel.f].status = "canceled"], cancel.f)
  /\ cancel' = [cancel EXCEPT !.pc = IF @ = "put" THEN "complete" ELSE "put"]
  /\ UNCHANGED <<stopping, lists, call, server>>
CancelWake ==
  /\ cancel.pc = "complete"
  /\ req' = Complete(req, cancel.f)
  /\ cancel' = [pc |-> "scan", f |-> None]
  /\ UNCHANGED <<stopping, lists, call, server>>

----------------------------------------------------------------------------
(* The steps the kernel takes by itself once a call has entered it.         *)
CallStep(f) == Awake(f) \/ Retire(f) \/ Return(f)
ServerStep(s) ==
  \/ NextDone(s) \/ NextFault(s) \/ NextRefuse(s) \/ NextRelease(s)
  \/ CompleteCopy(s) \/ CompletePut(s) \/ CompleteWake(s)
CancelStep == CancelTake \/ CancelPut \/ CancelWake

Next ==
  \/ \E f \in Faults : Fetch(f) \/ Timeout(f) \/ CallStep(f)
  \/ \E s \in Servers : \/ ProxyNext(s) \/ ServerStep(s)
                         \/ \E status \in {"ok", "error"} : ProxyComplete(s, status)
  \/ Cancel \/ CancelStep

Spec == Init /\ [][Next]_vars

(* Code inside the kernel runs on.  No fairness for the ioctls of the page  *)
(* client, which may hang on its socket or die, nor for the 30 s timeout.   *)
FairSpec ==
  /\ Spec
  /\ \A f \in Faults : WF_vars(CallStep(f))
  /\ \A s \in Servers : WF_vars(ServerStep(s))
  /\ WF_vars(CancelStep)

----------------------------------------------------------------------------
(* Who holds a reference of request f: the owner, a list of dispatched      *)
(* requests or whoever took it off that list, the copyout, the canceller.   *)
Holders(f) ==
  (CASE call[f].pc \in {"wait", "unlink"} -> 1 [] call[f].pc = "put" -> call[f].puts [] OTHER -> 0)
  + (IF Contains(inflight, f) THEN 1 ELSE 0)
  + Cardinality({s \in Servers : server[s].f = f /\ server[s].pc \in {"copyout", "copy", "put", "release"}})
  + 2 * Cardinality({s \in Servers : server[s].f = f /\ server[s].pc = "refuse"})
  + (IF cancel.f # f THEN 0 ELSE CASE cancel.pc = "undispatch" -> 2 [] cancel.pc = "put" -> 1 [] OTHER -> 0)

(* Type correctness, with the bound on the reference count. *)
TypeOK ==
  /\ stopping \in BOOLEAN
  /\ pending \in Seq(Faults) /\ inflight \in Seq(Faults)
  /\ count \in 0 .. Cardinality(Faults)
  /\ req \in [Faults -> [refs : 0 .. 4, dispatched : BOOLEAN, done : BOOLEAN,
                         status : Results, filled : BOOLEAN]]
  /\ call \in [Faults -> [pc : {"idle", "wait", "unlink", "put", "returned"},
                          ret : Results, puts : 0 .. 2]]
  /\ server \in [Servers -> [pc : {"user", "copyout", "refuse", "release", "fetch", "copy",
                                   "put", "complete"},
                             f : Faults \cup {None}, status : {"none", "ok", "error"}]]
  /\ cancel \in [pc : {"off", "scan", "undispatch", "put", "complete", "end"},
                 f : Faults \cup {None}]

(* The reference count is the number of holders at every moment, so no      *)
(* order of NEXT, COMPLETE, timeout and cancel leaks a request (and its     *)
(* page) or frees one that a list or a holder still reaches.  And           *)
(* proxy_pending_count, which poll and the wait of PROXY_NEXT read without  *)
(* the lock, is the length of the list: a server neither sleeps over a      *)
(* request nor spins on an empty list.                                      *)
RefsExact == (\A f \in Faults : req[f].refs = Holders(f)) /\ count = Len(pending)

(* A fetch that succeeds returns a page that the server has filled and that *)
(* no request pins any more: the anonymous PTE provider adopts it only as   *)
(* its sole owner.                                                          *)
SuccessExclusive ==
  \A f \in Faults : call[f].pc = "returned" /\ call[f].ret = "ok" =>
     req[f].refs = 0 /\ req[f].filled

(* A request is answered by one party: only a request on no list is         *)
(* completed, and never two parties are completing the same one.            *)
OneAnswer ==
  LET Answering(f) == {s \in Servers : server[s].f = f /\ server[s].pc \in {"refuse", "copy", "put", "complete"}}
                      \cup (IF cancel.f = f THEN {None} ELSE {})
  IN  \A f \in Faults :
        /\ Cardinality(Answering(f)) <= 1
        /\ Answering(f) # {} \/ req[f].done => ~Linked(f)

(* After a cancel every waiting fetch returns, even if no page server ever  *)
(* calls again and without its timeout: none is missed between the lists.   *)
CancelAnswers ==
  \A f \in Faults : cancel.pc # "off" /\ call[f].pc = "wait" ~> call[f].pc = "returned"

(* The comment on sbk_proxy_fetch promises that references cover COMPLETE,  *)
(* cancellation and a racing timeout: whoever calls complete() on a request *)
(* finds it still allocated.                                                *)
CompletesLive ==
  /\ \A s \in Servers : server[s].pc = "complete" => req[server[s].f].refs > 0
  /\ cancel.pc = "complete" => req[cancel.f].refs > 0
============================================================================
