--------------------------- MODULE LifecycleGate ---------------------------
(***************************************************************************)
(* The gate of a process family on the destination (sb-lifecycle-gate.h):   *)
(* page installers hold it shared around COPY and publication, whoever      *)
(* reads userfaultfd events holds it exclusively around acknowledgement and *)
(* the map and bitmap change.  This is its busy-wait form, one action per   *)
(* atomic instruction.  The sleeping form is a writer-preferring            *)
(* pthread_rwlock and promises the same exclusion.                          *)
(***************************************************************************)
EXTENDS Naturals, FiniteSets

CONSTANTS Threads,          \* the installers and the event reader
          SB_GATE_WRITER    \* the flag bit, above every reader count

ASSUME GateAssumption ==
  /\ IsFiniteSet(Threads)
  /\ SB_GATE_WRITER \in Nat
  /\ Cardinality(Threads) < SB_GATE_WRITER

VARIABLES state,    \* SB_GATE_WRITER, or the number of shared holders
          writers,  \* announced writers that do not hold the gate yet
          gpc,      \* where each thread is in the gate's functions
          value,    \* the state a reader compares with, 0 elsewhere
          held      \* what a thread holds: "R", "W" or "no"

gateVars == <<state, writers, gpc, value, held>>

GateTypeOK ==
  /\ state \in 0 .. SB_GATE_WRITER
  /\ writers \in 0 .. Cardinality(Threads)
  /\ gpc \in [Threads -> {"out", "cas", "withdraw", "rwait", "rload",
                          "rcas", "in", "clear", "drop"}]
  /\ value \in [Threads -> 0 .. SB_GATE_WRITER]
  /\ held \in [Threads -> {"no", "R", "W"}]

GateInit ==
  /\ state = 0 /\ writers = 0
  /\ gpc = [t \in Threads |-> "out"]
  /\ value = [t \in Threads |-> 0]
  /\ held = [t \in Threads |-> "no"]

HasWriter(v) == v >= SB_GATE_WRITER
GateAt(t, from, to) == gpc[t] = from /\ gpc' = [gpc EXCEPT ![t] = to]

----------------------------------------------------------------------------
(* sb_gate_wrlock: announce, compare and swap 0 to the flag, withdraw the   *)
(* announcement.  A failed comparison and the spinning after it change      *)
(* nothing: the writer stays where it is until the gate is free.            *)
WrLock(t) ==
  /\ GateAt(t, "out", "cas")
  /\ writers' = writers + 1
  /\ UNCHANGED <<state, value, held>>
WrCas(t) ==
  /\ state = 0
  /\ GateAt(t, "cas", "withdraw")
  /\ state' = SB_GATE_WRITER
  /\ held' = [held EXCEPT ![t] = "W"]
  /\ UNCHANGED <<writers, value>>
WrWithdraw(t) ==
  /\ GateAt(t, "withdraw", "in")
  /\ writers' = writers - 1
  /\ UNCHANGED <<state, value, held>>

(* Mutant: readers do not wait for an announced writer. *)
RdWaitHasty(t) ==
  /\ GateAt(t, "rwait", "rload")
  /\ UNCHANGED <<state, writers, value, held>>

(* Mutant: the loaded count is not tested for the writer's flag. *)
RdLoadBlind(t) ==
  /\ GateAt(t, "rload", "rcas")
  /\ value' = [value EXCEPT ![t] = state]
  /\ UNCHANGED <<state, writers, held>>

(* sb_gate_rdlock: wait until no writer is announced, load the count, and   *)
(* compare and swap it to one more.                                         *)
RdLock(t) ==
  /\ GateAt(t, "out", "rwait")
  /\ UNCHANGED <<state, writers, value, held>>
RdWait(t) ==
  /\ writers = 0
  /\ GateAt(t, "rwait", "rload")
  /\ UNCHANGED <<state, writers, value, held>>
RdLoad(t) ==
  /\ IF HasWriter(state) \/ state >= SB_GATE_WRITER - 1
       THEN GateAt(t, "rload", "rwait") /\ UNCHANGED value
       ELSE GateAt(t, "rload", "rcas") /\ value' = [value EXCEPT ![t] = state]
  /\ UNCHANGED <<state, writers, held>>
RdCas(t) ==
  \/ /\ state = value[t]
     /\ GateAt(t, "rcas", "in")
     /\ state' = value[t] + 1
     /\ held' = [held EXCEPT ![t] = "R"]
     /\ value' = [value EXCEPT ![t] = 0]
     /\ UNCHANGED writers
  \/ /\ state # value[t]
     /\ GateAt(t, "rcas", "rwait")
     /\ value' = [value EXCEPT ![t] = 0]
     /\ UNCHANGED <<state, writers, held>>

(* sb_gate_unlock finds out from the state in which mode it holds the gate. *)
Unlock(t) ==
  /\ IF HasWriter(state) THEN GateAt(t, "in", "clear") ELSE GateAt(t, "in", "drop")
  /\ UNCHANGED <<state, writers, value, held>>
UnlockClear(t) ==
  /\ GateAt(t, "clear", "out")
  /\ state' = 0
  /\ held' = [held EXCEPT ![t] = "no"]
  /\ UNCHANGED <<writers, value>>
UnlockDrop(t) ==
  /\ GateAt(t, "drop", "out")
  /\ state' = state - 1
  /\ held' = [held EXCEPT ![t] = "no"]
  /\ UNCHANGED <<writers, value>>

(* The steps a thread takes inside the gate's functions. *)
GateStep(t) ==
  \/ WrCas(t) \/ WrWithdraw(t)
  \/ RdWait(t) \/ RdLoad(t) \/ RdCas(t)
  \/ UnlockClear(t) \/ UnlockDrop(t)

GateNext == \E t \in Threads : GateStep(t) \/ WrLock(t) \/ RdLock(t) \/ Unlock(t)
GateSpec == GateInit /\ [][GateNext]_gateVars

----------------------------------------------------------------------------
(* Whoever holds the gate exclusively holds it alone, so that no page is    *)
(* copied between the acknowledgement of an event and the map change it     *)
(* calls for (sb-lifecycle-gate.h:6).                                       *)
Exclusion ==
  \A t, u \in Threads : t # u /\ held[t] = "W" => held[u] = "no"

(* A writer that has announced itself gets the gate, however many           *)
(* installations follow each other: "continuous background copies cannot    *)
(* indefinitely admit readers" (sb-lifecycle-gate.h:9).                     *)
WriterProgress(t) == gpc[t] = "cas" ~> held[t] = "W"
============================================================================
