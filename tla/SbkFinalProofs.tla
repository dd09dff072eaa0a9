--------------------------- MODULE SbkFinalProofs ---------------------------
(***************************************************************************)
(* Two copies of a task never execute, for any number of tasks and threads, *)
(* wherever the source's controller dies and the connection breaks.         *)
(***************************************************************************)
EXTENDS SbkFinal, FiniteSetTheorems, TLAPS

OwnerPlaces == {"seize", "enter", "register", "release", "dumped", "wait", "cured",
                "detach", "end", "abort"}

Typed ==
  /\ run \in [Tasks -> {"running", "stopped", "dead"}]
  /\ traced \in [Tasks -> SUBSET Threads] /\ armed \in [Tasks -> SUBSET Threads]
  /\ opc \in [Tasks -> OwnerPlaces]
  /\ got \in Nat

(* What has gone out was exposed first, the catalogue is exposed only after *)
(* every owner has finished its dump, and what is exposed is not resumed.   *)
Staged ==
  /\ cpc \in {"send", "end", "finish"} \/ sent # <<>> => exposed
  /\ target \in {"ready", "serve", "complete"} => exposed
  /\ cpc \in {"seal", "drain", "send", "end", "finish"} \/ exposed => process = Tasks
  /\ disposition # "none" => cpc \in {"join", "exit"}
  /\ exposed => disposition # "ALIVE"

(* Where an owner is, and whether it holds its task. *)
Holding(t) == traced[t] = Threads /\ armed[t] = Threads
Owners ==
  \A t \in Tasks :
    /\ t \in process => opc[t] \in {"wait", "cured", "detach", "end", "abort"}
    /\ opc[t] \in {"cured", "detach", "end"} \/ (opc[t] = "abort" /\ t \in process)
         => cpc \in {"join", "exit"}
    /\ controller = "up" /\ opc[t] = "seize" => armed[t] \subseteq traced[t]
    /\ controller = "up" /\ opc[t] \in {"enter", "register", "release", "dumped", "wait", "cured"}
         => Holding(t)
    /\ opc[t] = "detach" => run[t] # "running" \/ disposition = "ALIVE"
    /\ t \in done => opc[t] = "end" /\ traced[t] = {}

(* Once the catalogue is exposed, a task that is neither dead nor stopped   *)
(* is held by a living controller and dies with it.                         *)
Fenced == exposed => \A t \in Tasks : run[t] # "running" \/ (controller = "up" /\ Holding(t))

FInv == Typed /\ Staged /\ Owners /\ Fenced

(* Nothing has been seized, nothing sent. *)
LEMMA FInvInit == Init => FInv
PROOF
  BY DEF Init, FInv, Typed, Staged, Owners, Fenced, Holding, OwnerPlaces

(* The controller's death lets every thread go and takes the held tasks     *)
(* with it.                                                                 *)
LEMMA FInvDies == ASSUME FInv, Dies PROVE FInv'
PROOF
<1>1. /\ controller' = "gone" /\ UNCHANGED <<armed, cpc, disposition, exposed, opc, process,
                                            done, sent, got, target>>
      /\ run' = [t \in Tasks |-> IF traced[t] \cap armed[t] # {} THEN "dead" ELSE run[t]]
      /\ traced' = [t \in Tasks |-> {}]
  BY DEF Dies, owner, dest
<1>2. Typed'
  BY <1>1 DEF FInv, Typed
<1>3. Staged'
  BY <1>1 DEF FInv, Staged
<1>4. \A t \in Tasks : traced'[t] = {} /\ (run[t] # "running" => run'[t] # "running")
  BY <1>1
<1>5. Owners'
  BY <1>1, <1>4 DEF FInv, Owners
<1>6. Fenced'
  BY <1>1, <1>4, FinalAssumption DEF FInv, Fenced, Holding
<1> QED BY <1>2, <1>3, <1>5, <1>6 DEF FInv

(* Steps outside the controller: they leave the source as it is. *)
LEMMA FInvOutside ==
  ASSUME FInv, TargetReceive \/ TargetFails \/ TargetServe \/ TargetAck \/ Break PROVE FInv'
PROOF
<1>1. /\ UNCHANGED <<run, traced, armed, controller, cpc, disposition, exposed, opc, process,
                     done, sent>>
  BY DEF TargetReceive, TargetFails, TargetServe, TargetAck, Break, kernel, control, owner, wire
<1>2. got' \in Nat
  <2>1. got' = got \/ got' = got + 1
    BY DEF TargetReceive, TargetFails, TargetServe, TargetAck, Break, dest
  <2> QED BY <2>1 DEF FInv, Typed
<1>3. target' \in {"ready", "serve", "complete"} => exposed
  <2>1. CASE TargetReceive
    <3>1. sent # <<>>
      BY <2>1 DEF TargetReceive, FInv, Typed
    <3> QED BY <3>1 DEF FInv, Staged
  <2> QED BY <2>1 DEF FInv, Staged, TargetFails, TargetServe, TargetAck, Break, dest
<1>4. Typed' /\ Staged'
  BY <1>1, <1>2, <1>3 DEF FInv, Typed, Staged
<1>5. Owners' /\ Fenced'
  BY <1>1 DEF FInv, Owners, Fenced, Holding
<1> QED BY <1>4, <1>5 DEF FInv

(* The owner takes hold of its task, thread by thread. *)
LEMMA FInvSeize ==
  ASSUME FInv, NEW t \in Tasks, Seize(t) \/ ArmExitkill(t) PROVE FInv'
PROOF
<1>1. /\ UNCHANGED <<run, controller, cpc, disposition, exposed, opc, process, done, sent, got,
                     target>>
      /\ opc[t] = "seize" /\ controller = "up"
  BY DEF Seize, ArmExitkill, Owner, control, owner, wire, dest
<1>2. /\ traced' \in [Tasks -> SUBSET Threads] /\ armed' \in [Tasks -> SUBSET Threads]
      /\ armed'[t] \subseteq traced'[t]
      /\ \A u \in Tasks : u # t => traced'[u] = traced[u] /\ armed'[u] = armed[u]
  <2>1. CASE Seize(t)
    BY <2>1 DEF Seize, FInv, Typed
  <2>2. CASE ArmExitkill(t)
    BY <2>2 DEF ArmExitkill, FInv, Typed
  <2> QED BY <2>1, <2>2
<1>3. ~exposed
  BY <1>1 DEF FInv, Staged, Owners
<1>4. t \notin done
  BY <1>1 DEF FInv, Owners
<1>5. Typed' /\ Staged' /\ Fenced'
  BY <1>1, <1>2, <1>3 DEF FInv, Typed, Staged, Fenced
<1>6. Owners'
  BY <1>1, <1>2, <1>4 DEF FInv, Owners, Holding
<1> QED BY <1>5, <1>6 DEF FInv

(* An owner that goes on and leaves its task as it is. *)
LEMMA FInvGoesOn ==
  ASSUME FInv, NEW t \in Tasks, controller = "up", NEW to \in OwnerPlaces,
         opc' = [opc EXCEPT ![t] = to],
         UNCHANGED <<run, traced, armed, controller, cpc, disposition, exposed, sent, got, target>>,
         \/ /\ process' = process /\ done' = done
            /\ \/ opc[t] = "seize" /\ to = "enter" /\ armed[t] = Threads
               \/ /\ opc[t] \in {"enter", "register", "release"}
                  /\ to \in {"register", "release", "dumped", "abort"}
               \/ opc[t] = "wait" /\ to \in {"cured", "abort"} /\ cpc = "join"
               \/ opc[t] = "cured" /\ to = "detach" /\ disposition = "ALIVE"
         \/ process' = process \cup {t} /\ done' = done /\ opc[t] = "dumped" /\ to = "wait"
         \/ /\ process' = process /\ done' = done \cup {t}
            /\ opc[t] = "detach" /\ to = "end" /\ traced[t] = {}
  PROVE  FInv'
PROOF
<1>1. \A u \in Tasks : opc'[u] = IF u = t THEN to ELSE opc[u]
  BY DEF FInv, Typed
<1>2. Typed' /\ Fenced'
  BY DEF FInv, Typed, Fenced, Holding
<1>3. Staged'
  BY DEF FInv, Staged
<1>4. opc[t] = "seize" /\ armed[t] = Threads => Holding(t)
  BY DEF FInv, Typed, Owners, Holding
<1>5. ASSUME NEW u \in Tasks, u # t
      PROVE  /\ u \in process' <=> u \in process
             /\ u \in done' <=> u \in done
             /\ opc'[u] = opc[u] /\ Holding(u)' = Holding(u)
  BY <1>1, <1>5 DEF Holding
<1>6. Holding(t)' = Holding(t)
  BY DEF Holding
<1>7. Owners'
  <2> SUFFICES ASSUME NEW u \in Tasks
               PROVE  /\ u \in process' => opc'[u] \in {"wait", "cured", "detach", "end", "abort"}
                      /\ opc'[u] \in {"cured", "detach", "end"} \/ (opc'[u] = "abort" /\ u \in process')
                           => cpc' \in {"join", "exit"}
                      /\ controller' = "up" /\ opc'[u] = "seize" => armed'[u] \subseteq traced'[u]
                      /\ controller' = "up"
                         /\ opc'[u] \in {"enter", "register", "release", "dumped", "wait", "cured"}
                           => Holding(u)'
                      /\ opc'[u] = "detach" => run'[u] # "running" \/ disposition' = "ALIVE"
                      /\ u \in done' => opc'[u] = "end" /\ traced'[u] = {}
    BY DEF Owners
  <2>1. CASE u # t
    BY <2>1, <1>5 DEF FInv, Owners
  <2>2. CASE u = t
    BY <2>2, <1>1, <1>4, <1>6 DEF FInv, Owners
  <2> QED BY <2>1, <2>2
<1> QED BY <1>2, <1>3, <1>7 DEF FInv

(* The owners' steps of that kind. *)
LEMMA FInvOwner ==
  ASSUME FInv, NEW t \in Tasks,
         DumpMisc(t) \/ RegisterEnter(t) \/ Register(t) \/ RegisterRelease(t) \/ DumpDone(t)
           \/ Cure(t) \/ ReleaseResume(t) \/ OwnerDone(t)
  PROVE  FInv'
PROOF
<1>1. /\ UNCHANGED <<run, traced, armed, controller, cpc, disposition, exposed, sent, got, target>>
      /\ controller = "up"
  BY DEF Owner, DumpMisc, RegisterEnter, Register, RegisterRelease, DumpDone, Cure, ReleaseResume,
     OwnerDone, kernel, control, wire, dest
<1>2. CASE DumpMisc(t)
  BY <1>1, <1>2, FInvGoesOn DEF DumpMisc, Owner, OwnerGoto, OwnerPlaces
<1>3. CASE RegisterEnter(t)
  BY <1>1, <1>3, FInvGoesOn DEF RegisterEnter, Owner, OwnerGoto, OwnerPlaces
<1>4. CASE Register(t)
  BY <1>1, <1>4, FInvGoesOn DEF Register, Owner, OwnerGoto, OwnerPlaces
<1>5. CASE RegisterRelease(t)
  <2>1. \E to \in {"abort", "dumped"} : opc' = [opc EXCEPT ![t] = to]
    BY <1>5 DEF RegisterRelease, OwnerGoto
  <2>2. opc[t] = "release" /\ process' = process /\ done' = done
    BY <1>5 DEF RegisterRelease, Owner
  <2> QED BY <1>1, <2>1, <2>2, FInvGoesOn DEF OwnerPlaces
<1>6. CASE DumpDone(t)
  BY <1>1, <1>6, FInvGoesOn DEF DumpDone, Owner, OwnerGoto, OwnerPlaces
<1>7. CASE Cure(t)
  BY <1>1, <1>7, FInvGoesOn DEF Cure, Owner, OwnerGoto, OwnerPlaces
<1>8. CASE ReleaseResume(t)
  BY <1>1, <1>8, FInvGoesOn DEF ReleaseResume, Owner, OwnerGoto, OwnerPlaces
<1>9. CASE OwnerDone(t)
  BY <1>1, <1>9, FInvGoesOn DEF OwnerDone, Owner, OwnerGoto, OwnerPlaces
<1> QED BY <1>2, <1>3, <1>4, <1>5, <1>6, <1>7, <1>8, <1>9

(* The owner lets its task go: a killed or stopped task does not run again, *)
(* and an exposed one is killed or stopped before its first thread is       *)
(* detached.                                                                *)
LEMMA FInvRelease ==
  ASSUME FInv, NEW t \in Tasks, ReleaseKill(t) \/ ReleaseStop(t) \/ Detach(t) PROVE FInv'
PROOF
<1>1. /\ UNCHANGED <<armed, controller, cpc, disposition, exposed, process, done, sent, got, target>>
      /\ controller = "up" /\ opc[t] \in {"cured", "detach"} /\ opc'[t] \in {"detach", "abort"}
      /\ \A u \in Tasks : u # t => opc'[u] = opc[u]
      /\ opc' \in [Tasks -> OwnerPlaces]
  BY DEF ReleaseKill, ReleaseStop, Detach, Owner, OwnerGoto, OwnerPlaces, FInv, Typed, control,
     wire, dest
<1>2. /\ run' \in [Tasks -> {"running", "stopped", "dead"}]
      /\ \A u \in Tasks : u # t => run'[u] = run[u]
      /\ run'[t] \in {"stopped", "dead"} \/ (run'[t] = run[t] /\ opc[t] = "detach")
  BY DEF ReleaseKill, ReleaseStop, Detach, Owner, FInv, Typed
<1>3. /\ traced' \in [Tasks -> SUBSET Threads]
      /\ \A u \in Tasks : u # t => traced'[u] = traced[u]
  BY DEF ReleaseKill, ReleaseStop, Detach, FInv, Typed
<1>4. t \notin done /\ cpc \in {"join", "exit"}
  BY <1>1 DEF FInv, Owners
<1>5. run'[t] # "running" \/ disposition = "ALIVE"
  BY <1>1, <1>2 DEF FInv, Owners
<1>6. Typed' /\ Staged'
  BY <1>1, <1>2, <1>3 DEF FInv, Typed, Staged
<1>7. Fenced'
  BY <1>1, <1>2, <1>3, <1>5 DEF FInv, Staged, Fenced, Holding
<1>8. Owners'
  BY <1>1, <1>2, <1>3, <1>4, <1>5 DEF FInv, Owners, Holding
<1> QED BY <1>6, <1>7, <1>8 DEF FInv

(* A step of the coordinator before it wakes the owners.  Once every owner  *)
(* has finished its dump they all wait, and hold their tasks.               *)
LEMMA FInvBefore ==
  ASSUME FInv, controller = "up", cpc \notin {"join", "exit"},
         UNCHANGED <<run, traced, armed, controller, opc, process, done, got, target>>,
         Staged'
  PROVE  FInv'
PROOF
<1>1. Typed'
  BY DEF FInv, Typed
<1>2. \A t \in Tasks : /\ opc[t] \notin {"cured", "detach", "end"}
                       /\ ~(opc[t] = "abort" /\ t \in process)
  BY DEF FInv, Owners
<1>3. Owners'
  BY <1>2 DEF FInv, Owners, Holding
<1>4. ASSUME exposed', NEW t \in Tasks PROVE Holding(t)'
  <2>1. opc[t] = "wait"
    BY <1>2, <1>4 DEF FInv, Owners, Staged
  <2> QED BY <2>1 DEF FInv, Owners, Holding
<1>5. Fenced'
  BY <1>4 DEF Fenced
<1> QED BY <1>1, <1>3, <1>5 DEF FInv

(* The coordinator. *)
LEMMA FInvCoordinator == ASSUME FInv, CoordinatorStep PROVE FInv'
PROOF
<1>1. CASE WaitMisc \/ WaitProcess \/ Seal \/ DumpError \/ Close \/ Destroy \/ SourceFinish
             \/ SendUnlock
  <2>1. /\ UNCHANGED <<run, traced, armed, controller, opc, process, done, got, target, exposed,
                       disposition, sent>>
        /\ controller = "up" /\ cpc \notin {"join", "exit"}
    BY <1>1 DEF WaitMisc, WaitProcess, Seal, DumpError, Close, Destroy, SourceFinish, SendUnlock,
       Coordinator, kernel, owner, wire, dest
  <2>2. \/ cpc' \notin {"seal", "drain", "send", "end", "finish"}
        \/ cpc' = "seal" /\ process = Tasks
        \/ cpc' = "err"
        \/ cpc = "seal" /\ cpc' = "drain"
        \/ cpc = "send" /\ cpc' = "end"
    BY <1>1 DEF WaitMisc, WaitProcess, Seal, DumpError, Close, Destroy, SourceFinish, SendUnlock,
       Coordinator
  <2>3. Staged'
    BY <2>1, <2>2 DEF FInv, Staged
  <2> QED BY <2>1, <2>3, FInvBefore
<1>2. CASE SendStart
  <2>1. Staged'
    BY <1>2 DEF SendStart, Coordinator, FInv, Staged, kernel, owner, wire, dest
  <2> QED BY <1>2, <2>1, FInvBefore DEF SendStart, Coordinator, kernel, owner, dest
<1>3. CASE Send
  <2>1. /\ UNCHANGED <<run, traced, armed, controller, opc, process, done, got, target, exposed,
                       disposition>>
        /\ controller = "up" /\ cpc = "send" /\ cpc' \in {"send", "err"}
    BY <1>3 DEF Send, Coordinator, kernel, owner, dest
  <2>2. Staged'
    BY <2>1 DEF FInv, Staged
  <2> QED BY <2>1, <2>2, FInvBefore
<1>4. CASE SendEnd
  <2>1. CASE Dies
    BY <2>1, FInvDies
  <2>2. CASE ~Dies
    <3>1. /\ UNCHANGED <<run, traced, armed, controller, opc, process, done, got, target, exposed,
                         disposition>>
          /\ controller = "up" /\ cpc = "end" /\ cpc' = "finish"
      BY <1>4, <2>2 DEF SendEnd, Coordinator, kernel, owner, dest
    <3>2. Staged'
      BY <3>1 DEF FInv, Staged
    <3> QED BY <3>1, <3>2, FInvBefore
  <2> QED BY <2>1, <2>2
<1>5. CASE Decide
  <2>1. Staged'
    BY <1>5 DEF Decide, Decision, Coordinator, FInv, Staged, owner, wire, dest
  <2> QED BY <1>5, <2>1, FInvBefore DEF Decide, Coordinator, kernel, owner, dest
<1>6. CASE Exit
  <2>1. /\ UNCHANGED <<run, traced, armed, opc, process, done, got, target, exposed, disposition,
                       sent>>
        /\ controller = "up" /\ controller' = "gone" /\ cpc' = "exit" /\ done = Tasks
    BY <1>6 DEF Exit, Coordinator, kernel, owner, dest
  <2>2. Typed' /\ Staged' /\ Owners'
    BY <2>1 DEF FInv, Typed, Staged, Owners
  <2>3. \A t \in Tasks : ~Holding(t)
    BY <2>1, FinalAssumption DEF FInv, Owners, Holding
  <2>4. Fenced'
    BY <2>1, <2>3 DEF FInv, Fenced
  <2> QED BY <2>2, <2>4 DEF FInv
<1> QED BY <1>1, <1>2, <1>3, <1>4, <1>5, <1>6 DEF CoordinatorStep

(* Every step keeps the invariant. *)
LEMMA FInvStep == FInv /\ [Next]_vars => FInv'
PROOF
<1> SUFFICES ASSUME FInv, [Next]_vars PROVE FInv'
  OBVIOUS
<1>1. CASE UNCHANGED vars
  BY <1>1 DEF vars, kernel, control, owner, wire, dest, FInv, Typed, Staged, Owners, Fenced, Holding
<1>2. ASSUME NEW t \in Tasks, OwnerStep(t) PROVE FInv'
  BY <1>2, FInvSeize, FInvOwner, FInvRelease, FInvDies DEF OwnerStep, Abort
<1> QED BY <1>1, <1>2, FInvCoordinator, FInvOutside, FInvDies DEF Next, Crash

(* Two copies of a task never execute: once the destination can run the     *)
(* restored tasks, every source task is dead, stopped or held by a          *)
(* controller whose death kills it (sb-kernel-transfer.c:1153,              *)
(* sb-kernel-fence.h, cr_dump_finish).                                      *)
THEOREM NeverTwoCopies == Spec => []NoTwoCopies
PROOF
<1>1. FInv => NoTwoCopies
  BY DEF FInv, Staged, Fenced, Holding, NoTwoCopies, TargetRuns, Executing
<1> QED BY <1>1, FInvInit, FInvStep, PTL DEF Spec

----------------------------------------------------------------------------
(* The gate of the catalogue counts the owners inside, lets nobody in once  *)
(* it is sealed or closing, and the catalogue is sent or freed only when    *)
(* nobody is inside.                                                        *)
Inside == {t \in Tasks : opc[t] \in {"register", "release"}}
Gated ==
  /\ opc \in [Tasks -> OwnerPlaces]
  /\ active = Cardinality(Inside)
  /\ cpc = "drain" => sealed
  /\ cpc = "destroy" => closing
  /\ held => sealed /\ Inside = {}
  /\ freed => closing /\ Inside = {}

(* Only finitely many owners are inside. *)
LEMMA InsideFinite == IsFiniteSet(Inside) /\ Cardinality(Inside) \in Nat
PROOF
<1>1. Inside \in SUBSET Tasks /\ IsFiniteSet(Tasks)
  BY FinalAssumption DEF Inside
<1>2. IsFiniteSet(Inside)
  BY <1>1, FS_Subset
<1> QED BY <1>2, FS_CardinalityType

(* Nobody is inside at the start. *)
LEMMA GatedInit == Init => Gated
PROOF
<1> SUFFICES ASSUME Init PROVE Gated
  OBVIOUS
<1>1. Inside = {}
  BY DEF Init, Inside
<1>2. Cardinality(Inside) = 0
  BY <1>1, FS_EmptySet
<1> QED BY <1>1, <1>2 DEF Init, Gated, OwnerPlaces

(* A step that moves no owner and leaves the gate alone. *)
LEMMA GatedSame ==
  ASSUME Gated, UNCHANGED <<opc, active, cpc, sealed, closing, held, freed>> PROVE Gated'
PROOF
<1>1. Inside' = Inside
  BY DEF Inside
<1> QED BY <1>1 DEF Gated

(* An owner that moves neither in nor out. *)
LEMMA GatedPasses ==
  ASSUME Gated, NEW t \in Tasks, NEW to \in OwnerPlaces, opc' = [opc EXCEPT ![t] = to],
         opc[t] \in {"register", "release"} <=> to \in {"register", "release"},
         UNCHANGED <<active, cpc, sealed, closing, held, freed>>
  PROVE  Gated'
PROOF
<1>1. Inside' = Inside
  BY DEF Inside, Gated
<1>2. opc' \in [Tasks -> OwnerPlaces]
  BY DEF Gated
<1> QED BY <1>1, <1>2 DEF Gated

(* Entering and leaving. *)
LEMMA GatedEnter ==
  ASSUME Gated, NEW t \in Tasks, RegisterEnter(t) PROVE Gated'
PROOF
<1>1. opc[t] = "enter" /\ ~held /\ UNCHANGED <<cpc, sealed, closing, held, freed>>
  BY DEF RegisterEnter, Owner, control
<1>2. CASE opc' = [opc EXCEPT ![t] = "abort"] /\ active' = active
  BY <1>1, <1>2, GatedPasses DEF OwnerPlaces
<1>3. ASSUME NEW to \in {"register", "release"}, opc' = [opc EXCEPT ![t] = to],
             active' = active + 1, ~closing, ~sealed
      PROVE  Gated'
  <2>1. Inside' = Inside \cup {t} /\ t \notin Inside
    BY <1>1, <1>3 DEF Inside, Gated
  <2>2. active' = Cardinality(Inside')
    BY <1>3, <2>1, InsideFinite, FS_AddElement DEF Gated
  <2>3. opc' \in [Tasks -> OwnerPlaces]
    BY <1>3 DEF Gated, OwnerPlaces
  <2> QED BY <1>1, <1>3, <2>2, <2>3 DEF Gated
<1> QED BY <1>2, <1>3 DEF RegisterEnter, OwnerGoto

(* The last step of the registration. *)
LEMMA GatedLeave ==
  ASSUME Gated, NEW t \in Tasks, RegisterRelease(t) PROVE Gated'
PROOF
<1>1. /\ opc[t] = "release" /\ active' = active - 1
      /\ UNCHANGED <<cpc, sealed, closing, held, freed>>
  BY DEF RegisterRelease, Owner, control, catalog
<1>2. PICK to \in {"abort", "dumped"} : opc' = [opc EXCEPT ![t] = to]
  BY DEF RegisterRelease, OwnerGoto
<1>3. Inside' = Inside \ {t} /\ t \in Inside
  BY <1>1, <1>2 DEF Inside, Gated
<1>4. active' = Cardinality(Inside')
  BY <1>1, <1>3, InsideFinite, FS_RemoveElement DEF Gated
<1>5. opc' \in [Tasks -> OwnerPlaces]
  BY <1>2 DEF Gated, OwnerPlaces
<1> QED BY <1>1, <1>3, <1>4, <1>5 DEF Gated

(* The owners. *)
LEMMA GatedOwner ==
  ASSUME Gated, NEW t \in Tasks, OwnerStep(t) PROVE Gated'
PROOF
<1>1. CASE Seize(t) \/ ArmExitkill(t) \/ Abort(t)
  BY <1>1, GatedSame DEF Seize, ArmExitkill, Abort, Dies, control, owner, gate, catalog
<1>2. CASE DumpMisc(t) \/ Register(t) \/ DumpDone(t) \/ Cure(t) \/ ReleaseKill(t)
             \/ ReleaseStop(t) \/ ReleaseResume(t) \/ OwnerDone(t)
  <2>1. UNCHANGED <<active, cpc, sealed, closing, held, freed>>
    BY <1>2 DEF DumpMisc, Register, DumpDone, Cure, ReleaseKill, ReleaseStop, ReleaseResume,
       OwnerDone, control, gate, catalog
  <2>2. PICK to \in OwnerPlaces :
          /\ opc' = [opc EXCEPT ![t] = to]
          /\ opc[t] \in {"register", "release"} <=> to \in {"register", "release"}
    BY <1>2 DEF DumpMisc, Register, DumpDone, Cure, ReleaseKill, ReleaseStop, ReleaseResume,
       OwnerDone, Owner, OwnerGoto, OwnerPlaces
  <2> QED BY <2>1, <2>2, GatedPasses
<1>3. CASE Detach(t)
  <2>1. UNCHANGED <<active, cpc, sealed, closing, held, freed>> /\ opc[t] = "detach"
    BY <1>3 DEF Detach, Owner, control, gate, catalog
  <2>2. opc' = opc \/ opc' = [opc EXCEPT ![t] = "abort"]
    BY <1>3 DEF Detach, OwnerGoto
  <2> QED BY <2>1, <2>2, GatedSame, GatedPasses DEF OwnerPlaces
<1> QED BY <1>1, <1>2, <1>3, GatedEnter, GatedLeave DEF OwnerStep

(* The coordinator. *)
LEMMA GatedCoordinator == ASSUME Gated, CoordinatorStep PROVE Gated'
PROOF
<1>1. opc' = opc /\ active' = active /\ Inside' = Inside
  BY DEF CoordinatorStep, WaitMisc, WaitProcess, Seal, SendStart, Send, SendUnlock, SendEnd, Dies,
     SourceFinish, DumpError, Close, Destroy, Decide, Exit, owner, gate, Inside
<1>2. Inside = {} <=> active = 0
  BY InsideFinite, FS_EmptySet DEF Gated
<1>3. /\ sealed => sealed'
      /\ closing => closing'
      /\ cpc' = "drain" => cpc = "drain" \/ sealed'
      /\ cpc' = "destroy" => cpc = "destroy" \/ closing'
      /\ held' => held \/ (cpc = "drain" /\ active = 0)
      /\ freed' => freed \/ (cpc = "destroy" /\ active = 0)
  <2>1. CASE Seal
    BY <2>1 DEF Seal, Coordinator, catalog
  <2>2. CASE SendStart
    BY <2>2 DEF SendStart, Coordinator, catalog
  <2>3. CASE Send \/ SendUnlock
    BY <2>3 DEF Send, SendUnlock, Coordinator, catalog
  <2>4. CASE Close \/ Destroy
    BY <2>4 DEF Close, Destroy, Coordinator, gate, catalog
  <2>5. CASE WaitMisc \/ WaitProcess \/ SendEnd \/ SourceFinish \/ DumpError \/ Decide \/ Exit
    <3>1. UNCHANGED <<sealed, closing, held, freed>>
      BY <2>5 DEF WaitMisc, WaitProcess, SendEnd, Dies, SourceFinish, DumpError, Decide, Exit,
         gate, catalog
    <3>2. cpc' = cpc \/ cpc' \notin {"drain", "destroy"}
      BY <2>5 DEF WaitMisc, WaitProcess, SendEnd, Dies, SourceFinish, DumpError, Decide, Exit
    <3> QED BY <3>1, <3>2
  <2> QED BY <2>1, <2>2, <2>3, <2>4, <2>5 DEF CoordinatorStep
<1> QED BY <1>1, <1>2, <1>3 DEF Gated

(* While an owner registers without the lock, the catalogue is neither sent *)
(* nor freed, for any number of tasks and also when the coordinator gives   *)
(* up early (sb-kernel-final-gate.h).                                       *)
THEOREM RegistersQuietly == Spec => []RegisterQuiet
PROOF
<1>1. Gated /\ [Next]_vars => Gated'
  <2> SUFFICES ASSUME Gated, [Next]_vars PROVE Gated'
    OBVIOUS
  <2>1. CASE UNCHANGED vars \/ Crash \/ Break \/ TargetReceive \/ TargetFails \/ TargetServe
               \/ TargetAck
    BY <2>1, GatedSame DEF vars, Crash, Dies, Break, TargetReceive, TargetFails, TargetServe,
       TargetAck, control, owner, gate, catalog
  <2> QED BY <2>1, GatedOwner, GatedCoordinator DEF Next
<1>2. Gated => RegisterQuiet
  BY DEF Gated, Inside, RegisterQuiet
<1> QED BY <1>1, <1>2, GatedInit, PTL DEF Spec
=============================================================================
