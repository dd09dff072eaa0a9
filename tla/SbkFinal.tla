----------------------------- MODULE SbkFinal -----------------------------
(***************************************************************************)
(* The switch of the K implementation: the source's dump controller         *)
(* (cr-dump.c, sb-kernel-transfer.c, sb-kernel-final-gate.h,                *)
(* sb-kernel-fence.h) stops the tasks, registers their memory, sends the    *)
(* final catalogue and decides what becomes of the source; the destination  *)
(* receives the catalogue, lets the restored tasks run and acknowledges     *)
(* when every page has come over.                                           *)
(*                                                                          *)
(* The controller has a coordinator and one owner thread per task.  It can  *)
(* die at any moment, the connection can break at any moment.  ptrace is    *)
(* external: a traced thread does not run; when its tracer dies it is       *)
(* killed with its whole task if EXITKILL is armed and runs on otherwise.   *)
(***************************************************************************)
EXTENDS Naturals, Sequences, FiniteSets, SequencesExt

CONSTANTS Tasks,     \* the source's tasks
          Threads    \* the threads of a task

ASSUME FinalAssumption == IsFiniteSet(Tasks) /\ Tasks # {} /\ Threads # {}

VARIABLES
  \* the kernel
  run,         \* "running", "stopped" or "dead"
  traced,      \* threads attached to their owner
  armed,       \* threads with EXITKILL
  \* the controller
  controller,  \* "up", or "gone" once it has exited or died
  cpc,         \* the coordinator
  failed,      \* ret or post_dump_ret
  final_state, \* opts.final_state
  disposition, \* sbk_source_final_state
  exposed,     \* source_final_exposed
  opc,         \* the owners
  error,       \* the owner's own result
  misc, process, cured, done,   \* the barriers, as the owners that came
  \* the gate and the catalogue
  held,        \* the coordinator holds the gate's lock
  active, gate_error, sealed, closing,
  reserved, filled, freed,
  \* the connection: the messages sent, whether it is up, the answer
  sent, up, ack,
  \* the destination: the messages received, its state
  got, target

kernel  == <<run, traced, armed>>
control == <<controller, cpc, failed, final_state, disposition, exposed>>
owner   == <<opc, error, misc, process, cured, done>>
gate    == <<held, active, gate_error, sealed, closing>>
catalog == <<reserved, filled, freed>>
wire    == <<sent, up, ack>>
dest    == <<got, target>>
vars    == <<kernel, control, owner, gate, catalog, wire, dest>>

Init ==
  /\ run = [t \in Tasks |-> "running"]
  /\ traced = [t \in Tasks |-> {}] /\ armed = [t \in Tasks |-> {}]
  /\ controller = "up" /\ cpc = "misc" /\ failed = FALSE
  /\ final_state \in {"DEAD", "ALIVE", "STOPPED"}
  /\ disposition = "none" /\ exposed = FALSE
  /\ opc = [t \in Tasks |-> "seize"] /\ error = [t \in Tasks |-> FALSE]
  /\ misc = {} /\ process = {} /\ cured = {} /\ done = {}
  /\ held = FALSE /\ active = 0 /\ gate_error = FALSE
  /\ sealed = FALSE /\ closing = FALSE
  /\ reserved = {} /\ filled = {} /\ freed = FALSE
  /\ sent = <<>> /\ up = TRUE /\ ack = FALSE
  /\ got = 0 /\ target = "receive"

Executing(t) == run[t] = "running" /\ traced[t] # Threads

(* Every thread still traced is let go; one with EXITKILL takes its task    *)
(* with it.                                                                 *)
Dies ==
  /\ controller' = "gone" /\ up' = FALSE
  /\ run' = [t \in Tasks |-> IF traced[t] \cap armed[t] # {} THEN "dead" ELSE run[t]]
  /\ traced' = [t \in Tasks |-> {}]
  /\ UNCHANGED <<armed, cpc, failed, final_state, disposition, exposed, owner, gate,
                 catalog, sent, ack, dest>>

Crash == controller = "up" /\ Dies

----------------------------------------------------------------------------
(* thread_dump_one_task and dump_one_task: the owner of a task. *)

Owner(t, at) == controller = "up" /\ opc[t] = at
OwnerGoto(t, to) == opc' = [opc EXCEPT ![t] = to]

Seize(t) ==
  /\ Owner(t, "seize")
  /\ \E i \in Threads \ traced[t] :
       /\ traced[t] = armed[t]
       /\ traced' = [traced EXCEPT ![t] = @ \cup {i}]
  /\ UNCHANGED <<run, armed, control, owner, gate, catalog, wire, dest>>

ArmExitkill(t) ==
  /\ Owner(t, "seize") /\ traced[t] # armed[t]
  /\ armed' = [armed EXCEPT ![t] = traced[t]]
  /\ UNCHANGED <<run, traced, control, owner, gate, catalog, wire, dest>>

DumpMisc(t) ==
  /\ Owner(t, "seize") /\ armed[t] = Threads
  /\ misc' = misc \cup {t}
  /\ OwnerGoto(t, "enter")
  /\ UNCHANGED <<kernel, control, error, process, cured, done, gate, catalog, wire, dest>>

(* sbk_final_enter, and under its lock the plan and the reservation of the  *)
(* task's records in the catalogue.                                         *)
RegisterEnter(t) ==
  /\ Owner(t, "enter") /\ ~held
  /\ \/ /\ closing \/ gate_error \/ sealed
        /\ OwnerGoto(t, "abort")
        /\ UNCHANGED <<error, active, reserved>>
     \/ /\ ~closing /\ ~gate_error /\ ~sealed
        /\ active' = active + 1
        /\ \/ /\ reserved' = reserved \cup {t}
              /\ OwnerGoto(t, "register")
              /\ UNCHANGED error
           \/ /\ error' = [error EXCEPT ![t] = TRUE]
              /\ OwnerGoto(t, "release")
              /\ UNCHANGED reserved
  /\ UNCHANGED <<kernel, control, misc, process, cured, done, held, gate_error, sealed,
                 closing, filled, freed, wire, dest>>

(* Validation and export, without the lock. *)
Register(t) ==
  /\ Owner(t, "register")
  /\ \/ filled' = filled \cup {t} /\ UNCHANGED error
     \/ error' = [error EXCEPT ![t] = TRUE] /\ UNCHANGED filled
  /\ OwnerGoto(t, "release")
  /\ UNCHANGED <<kernel, control, misc, process, cured, done, gate, reserved, freed,
                 wire, dest>>

(* sbk_final_release; a failed owner ends the whole controller. *)
RegisterRelease(t) ==
  /\ Owner(t, "release") /\ ~held
  /\ gate_error' = (gate_error \/ error[t])
  /\ active' = active - 1
  /\ OwnerGoto(t, IF error[t] THEN "abort" ELSE "dumped")
  /\ UNCHANGED <<kernel, control, error, misc, process, cured, done, held, sealed,
                 closing, catalog, wire, dest>>

DumpDone(t) ==
  /\ Owner(t, "dumped")
  /\ process' = process \cup {t}
  /\ OwnerGoto(t, "wait")
  /\ UNCHANGED <<kernel, control, error, misc, cured, done, gate, catalog, wire, dest>>

Abort(t) == Owner(t, "abort") /\ Dies

(* Woken by the coordinator: remove the parasite, which may fail. *)
Cure(t) ==
  /\ Owner(t, "wait") /\ cpc = "join"
  /\ \/ cured' = cured \cup {t} /\ OwnerGoto(t, "cured")
     \/ UNCHANGED cured /\ OwnerGoto(t, "abort")
  /\ UNCHANGED <<kernel, control, error, misc, process, done, gate, catalog, wire, dest>>

(* sbk_source_release *)
ReleaseKill(t) ==
  /\ Owner(t, "cured") /\ cured = Tasks /\ disposition = "DEAD"
  /\ run' = [run EXCEPT ![t] = "dead"]
  /\ traced' = [traced EXCEPT ![t] = {}]
  /\ OwnerGoto(t, "detach")
  /\ UNCHANGED <<armed, control, error, misc, process, cured, done, gate, catalog, wire,
                 dest>>

ReleaseStop(t) ==
  /\ Owner(t, "cured") /\ cured = Tasks /\ disposition = "STOPPED"
  /\ run' = [run EXCEPT ![t] = "stopped"]
  /\ OwnerGoto(t, "detach")
  /\ UNCHANGED <<traced, armed, control, error, misc, process, cured, done, gate,
                 catalog, wire, dest>>

ReleaseResume(t) ==
  /\ Owner(t, "cured") /\ cured = Tasks /\ disposition = "ALIVE"
  /\ OwnerGoto(t, "detach")
  /\ UNCHANGED <<kernel, control, error, misc, process, cured, done, gate, catalog, wire,
                 dest>>

(* PTRACE_DETACH of one thread after the other; a failure kills the task. *)
Detach(t) ==
  /\ Owner(t, "detach") /\ traced[t] # {}
  /\ \E i \in traced[t] :
       \/ /\ traced' = [traced EXCEPT ![t] = @ \ {i}]
          /\ UNCHANGED <<run, opc>>
       \/ /\ run' = [run EXCEPT ![t] = "dead"]
          /\ OwnerGoto(t, "abort")
          /\ UNCHANGED traced
  /\ UNCHANGED <<armed, control, error, misc, process, cured, done, gate, catalog, wire,
                 dest>>

(* Mutant: the owner of a killed task does not report. *)
OwnerDoneAlive(t) ==
  /\ Owner(t, "detach") /\ traced[t] = {} /\ run[t] # "dead"
  /\ done' = done \cup {t}
  /\ OwnerGoto(t, "end")
  /\ UNCHANGED <<kernel, control, error, misc, process, cured, gate, catalog, wire, dest>>

OwnerDone(t) ==
  /\ Owner(t, "detach") /\ traced[t] = {}
  /\ done' = done \cup {t}
  /\ OwnerGoto(t, "end")
  /\ UNCHANGED <<kernel, control, error, misc, process, cured, gate, catalog, wire, dest>>

OwnerStep(t) ==
  \/ Seize(t) \/ ArmExitkill(t) \/ DumpMisc(t)
  \/ RegisterEnter(t) \/ Register(t) \/ RegisterRelease(t) \/ DumpDone(t) \/ Abort(t)
  \/ Cure(t) \/ ReleaseKill(t) \/ ReleaseStop(t) \/ ReleaseResume(t)
  \/ Detach(t) \/ OwnerDone(t)

----------------------------------------------------------------------------
(* cr_dump: the coordinator. *)

Coordinator(at) == controller = "up" /\ cpc = at

(* The namespace PIDs are checked before the owners have finished. *)
WaitMisc ==
  /\ Coordinator("misc") /\ misc = Tasks
  /\ cpc' \in {"process", "err"}
  /\ UNCHANGED <<kernel, controller, failed, final_state, disposition, exposed, owner,
                 gate, catalog, wire, dest>>

(* Mutant: the catalogue is sent without waiting for the owners. *)
WaitProcessNot ==
  /\ Coordinator("process")
  /\ cpc' \in {"seal", "err"}
  /\ UNCHANGED <<kernel, controller, failed, final_state, disposition, exposed, owner,
                 gate, catalog, wire, dest>>

WaitProcess ==
  /\ Coordinator("process") /\ process = Tasks
  /\ cpc' \in {"seal", "err"}
  /\ UNCHANGED <<kernel, controller, failed, final_state, disposition, exposed, owner,
                 gate, catalog, wire, dest>>

(* sbk_final_seal: no owner comes in, those inside are waited for. *)
Seal ==
  /\ Coordinator("seal")
  /\ sealed' = TRUE
  /\ cpc' = "drain"
  /\ UNCHANGED <<kernel, controller, failed, final_state, disposition, exposed, owner,
                 held, active, gate_error, closing, catalog, wire, dest>>

(* The rest of sb_kernel_send_final keeps the lock.  The proxy may fail to  *)
(* start before anything is exposed.                                        *)
SendStart ==
  /\ Coordinator("drain") /\ active = 0
  /\ \/ /\ ~gate_error /\ reserved # {}
        /\ held' = TRUE /\ exposed' = TRUE
        /\ cpc' = "send"
     \/ cpc' = "err" /\ UNCHANGED <<held, exposed>>
  /\ UNCHANGED <<kernel, controller, failed, final_state, disposition, owner, active,
                 gate_error, sealed, closing, catalog, wire, dest>>

(* The header, which counts the records, and the records.  A write that     *)
(* fails may have reached the peer.                                         *)
Message(n) ==
  LET order == SetToSeq(reserved)
  IN IF n = 1 THEN [kind |-> "header", tasks |-> reserved]
     ELSE [kind |-> "record", tasks |-> {order[n - 1]} \cap filled]

Send ==
  /\ Coordinator("send") /\ Len(sent) <= Cardinality(reserved)
  /\ \/ up /\ sent' = Append(sent, Message(Len(sent) + 1)) /\ UNCHANGED <<cpc, held>>
     \/ /\ sent' \in {sent, Append(sent, Message(Len(sent) + 1))}
        /\ cpc' = "err" /\ held' = FALSE
  /\ UNCHANGED <<kernel, controller, failed, final_state, disposition, exposed, owner,
                 active, gate_error, sealed, closing, catalog, up, ack, dest>>

SendUnlock ==
  /\ Coordinator("send") /\ Len(sent) = Cardinality(reserved) + 1
  /\ held' = FALSE
  /\ cpc' = "end"
  /\ UNCHANGED <<kernel, controller, failed, final_state, disposition, exposed, owner,
                 active, gate_error, sealed, closing, catalog, wire, dest>>

(* update_state(sync_fd_PC, END_PROCESS_DUMP), which exits when it cannot   *)
(* write, then the post-dump script of cr_dump_finish.                      *)
SendEnd ==
  /\ Coordinator("end")
  /\ \/ /\ up
        /\ sent' = Append(sent, [kind |-> "END", tasks |-> {}])
        /\ failed' \in BOOLEAN
        /\ cpc' = "finish"
        /\ UNCHANGED <<kernel, controller, final_state, disposition, exposed, owner, gate,
                       catalog, up, ack, dest>>
     \/ ~up /\ Dies

(* Mutant: a lost acknowledgement is no failure. *)
SourceFinishBlind ==
  /\ Coordinator("finish")
  /\ cpc' = "close"
  /\ UNCHANGED <<kernel, controller, failed, final_state, disposition, exposed, owner, gate,
                 catalog, wire, dest>>

(* sb_kernel_source_finish: the acknowledgement, or its loss or the         *)
(* receive timeout.  The revocation that follows may fail too.              *)
SourceFinish ==
  /\ Coordinator("finish")
  /\ failed' \in {failed \/ ~ack, TRUE}
  /\ cpc' = "close"
  /\ UNCHANGED <<kernel, controller, final_state, disposition, exposed, owner, gate,
                 catalog, wire, dest>>

DumpError ==
  /\ Coordinator("err")
  /\ failed' = TRUE
  /\ cpc' = "close"
  /\ UNCHANGED <<kernel, controller, final_state, disposition, exposed, owner, gate,
                 catalog, wire, dest>>

(* sbk_final_close and the rest of sb_kernel_transfer_close. *)
Close ==
  /\ Coordinator("close")
  /\ closing' = TRUE
  /\ cpc' = "destroy"
  /\ UNCHANGED <<kernel, controller, failed, final_state, disposition, exposed, owner,
                 held, active, gate_error, sealed, catalog, wire, dest>>

(* Mutant: the catalogue is freed under the owners at work. *)
DestroyAtOnce ==
  /\ Coordinator("destroy")
  /\ freed' = TRUE
  /\ cpc' = "decide"
  /\ UNCHANGED <<kernel, controller, failed, final_state, disposition, exposed, owner,
                 gate, reserved, filled, wire, dest>>

Destroy ==
  /\ Coordinator("destroy") /\ active = 0
  /\ freed' = TRUE
  /\ cpc' = "decide"
  /\ UNCHANGED <<kernel, controller, failed, final_state, disposition, exposed, owner,
                 gate, reserved, filled, wire, dest>>

(* Mutant: a failure resumes the source whatever has been exposed. *)
DecisionUnfenced == IF failed THEN "ALIVE" ELSE final_state

(* cr_dump_finish: what becomes of the source, and the owners are woken. *)
Decision ==
  LET wanted == IF failed THEN "ALIVE" ELSE final_state
  IN IF exposed /\ wanted = "ALIVE" THEN "STOPPED" ELSE wanted

Decide ==
  /\ Coordinator("decide")
  /\ disposition' = Decision
  /\ cpc' = "join"
  /\ UNCHANGED <<kernel, controller, failed, final_state, exposed, owner, gate, catalog,
                 wire, dest>>

Exit ==
  /\ Coordinator("join") /\ done = Tasks
  /\ cpc' = "exit" /\ controller' = "gone" /\ up' = FALSE
  /\ UNCHANGED <<kernel, failed, final_state, disposition, exposed, owner, gate, catalog,
                 sent, ack, dest>>

CoordinatorStep ==
  \/ WaitMisc \/ WaitProcess \/ Seal \/ SendStart \/ Send \/ SendUnlock \/ SendEnd
  \/ SourceFinish \/ DumpError \/ Close \/ Destroy \/ Decide \/ Exit

----------------------------------------------------------------------------
(* cr_lazy_pages on the destination. *)

(* sb_kernel_client_receive and wait_state.  What was sent may arrive after *)
(* the connection broke; a broken stream ends the receiver.                 *)
TargetReceive ==
  /\ target = "receive" /\ got < Len(sent)
  /\ got' = got + 1
  /\ target' = IF sent[got + 1].kind = "END" THEN "ready" ELSE "receive"
  /\ UNCHANGED <<kernel, control, owner, gate, catalog, wire>>

TargetFails ==
  /\ target \in {"receive", "ready"}
  /\ target = "receive" => ~up
  /\ target' = "failed"
  /\ UNCHANGED <<kernel, control, owner, gate, catalog, wire, got>>

(* sb_kernel_client_serve: the restored tasks run. *)
TargetServe ==
  /\ target = "ready"
  /\ target' = "serve"
  /\ UNCHANGED <<kernel, control, owner, gate, catalog, wire, got>>

(* Every page has come over, which takes a source that still exports it;    *)
(* the acknowledgement may be lost.                                         *)
TargetAck ==
  /\ target = "serve" /\ controller = "up" /\ ~freed
  /\ target' = "complete"
  /\ ack' \in {up, FALSE}
  /\ UNCHANGED <<kernel, control, owner, gate, catalog, sent, up, got>>

Break ==
  /\ up /\ controller = "up"
  /\ up' = FALSE
  /\ UNCHANGED <<kernel, control, owner, gate, catalog, sent, ack, dest>>

Next ==
  \/ \E t \in Tasks : OwnerStep(t)
  \/ CoordinatorStep
  \/ Crash \/ Break
  \/ TargetReceive \/ TargetFails \/ TargetServe \/ TargetAck

Spec == Init /\ [][Next]_vars

(* The controller's threads are scheduled; nothing is asked of the          *)
(* destination, since the source waits for its answer with a timeout.       *)
FairSpec ==
  /\ Spec
  /\ WF_vars(CoordinatorStep)
  /\ \A t \in Tasks : WF_vars(OwnerStep(t))

----------------------------------------------------------------------------
TargetRuns == target \in {"serve", "complete"}
Aborted == (controller = "gone" /\ cpc # "exit") \/ \E t \in Tasks : opc[t] = "abort"

(* Two copies of a task never execute: from the moment the destination can  *)
(* run the restored tasks no source task executes, whatever is lost and     *)
(* whenever the controller dies (EXITKILL, the fence of                     *)
(* sb-kernel-transfer.c:1150-1153 and cr_dump_finish).                      *)
NoTwoCopies == TargetRuns => \A t \in Tasks : ~Executing(t)

(* A destination that serves has received a finished record of every task:  *)
(* no catalogue with a reserved but unfilled slot goes out (the comment of  *)
(* sbk_final_seal).                                                         *)
CatalogWhole ==
  target \in {"ready", "serve", "complete"} =>
    \A t \in Tasks : \E n \in 1 .. got : sent[n].kind = "record" /\ t \in sent[n].tasks

(* While an owner validates and exports outside the lock, the catalogue is  *)
(* neither destroyed nor being sent, also when the coordinator gives up     *)
(* early (cr-dump.c:3316) and closes while owners are at work.              *)
RegisterQuiet == (\E t \in Tasks : opc[t] = "register") => ~freed /\ ~held

(* How an orderly end leaves the source: a migration that failed before     *)
(* anything was exposed has put every task back to work, and a task that is *)
(* dead has been taken over completely by the destination.                  *)
Outcome ==
  /\ cpc = "exit" /\ failed /\ ~exposed => \A t \in Tasks : Executing(t)
  /\ ~Aborted => \A t \in Tasks : run[t] = "dead" => target = "complete"

(* The controller always ends, through its barriers or by giving up, and    *)
(* then no source thread is left stopped under a tracer.                    *)
Released == <>[](controller = "gone" /\ \A t \in Tasks : traced[t] = {})
===========================================================================
