-------------------------- MODULE LifecycleProofs --------------------------
(***************************************************************************)
(* The gate of sb-lifecycle-gate.h excludes writers from everybody else for *)
(* any number of threads, and so does the component that goes through it.   *)
(***************************************************************************)
EXTENDS Lifecycle, FiniteSetTheorems, TLAPS

Shared == {t \in Threads : held[t] = "R"}
Announced == {t \in Threads : gpc[t] \in {"cas", "withdraw"}}
WriterIn == \E t \in Threads : held[t] = "W"

(* What a thread holds at each of its places.  A count it is about to       *)
(* compare with leaves room for one more reader.                            *)
Placed ==
  \A t \in Threads :
    /\ gpc[t] \in {"out", "cas", "rwait", "rload", "rcas"} => held[t] = "no"
    /\ gpc[t] \in {"withdraw", "clear"} => held[t] = "W"
    /\ gpc[t] = "drop" => held[t] = "R"
    /\ gpc[t] = "in" => held[t] # "no"
    /\ gpc[t] = "rcas" => value[t] < SB_GATE_WRITER - 1

(* The inductive invariant: the word tells who holds the gate, and the      *)
(* announcements are counted.                                               *)
GateInv ==
  /\ gpc \in [Threads -> {"out", "cas", "withdraw", "rwait", "rload",
                          "rcas", "in", "clear", "drop"}]
  /\ value \in [Threads -> Nat]
  /\ held \in [Threads -> {"no", "R", "W"}]
  /\ Placed
  /\ Exclusion
  /\ state = IF WriterIn THEN SB_GATE_WRITER ELSE Cardinality(Shared)
  /\ writers = Cardinality(Announced)

(* The sets the two counters stand for are finite, and fewer threads share  *)
(* the gate than the flag is large.                                         *)
LEMMA CountedSets ==
  /\ IsFiniteSet(Shared) /\ Cardinality(Shared) \in Nat
  /\ Cardinality(Shared) < SB_GATE_WRITER
  /\ IsFiniteSet(Announced) /\ Cardinality(Announced) \in Nat
  /\ SB_GATE_WRITER \in Nat
PROOF
<1>1. Shared \subseteq Threads /\ Announced \subseteq Threads
  BY DEF Shared, Announced
<1>2. IsFiniteSet(Threads) /\ SB_GATE_WRITER \in Nat /\ Cardinality(Threads) < SB_GATE_WRITER
  BY GateAssumption
<1>3. /\ IsFiniteSet(Shared) /\ Cardinality(Shared) <= Cardinality(Threads)
      /\ IsFiniteSet(Announced)
  BY <1>1, <1>2, FS_Subset
<1>4. /\ Cardinality(Shared) \in Nat /\ Cardinality(Announced) \in Nat
      /\ Cardinality(Threads) \in Nat
  BY <1>2, <1>3, FS_CardinalityType
<1> QED BY <1>2, <1>3, <1>4

(* The gate starts free. *)
LEMMA GateInvInit == GateInit => GateInv
PROOF
<1> SUFFICES ASSUME GateInit PROVE GateInv
  OBVIOUS
<1>1. Shared = {} /\ Announced = {} /\ ~WriterIn
  BY DEF GateInit, Shared, Announced, WriterIn
<1>2. Cardinality(Shared) = 0 /\ Cardinality(Announced) = 0
  BY <1>1, FS_EmptySet
<1>3. gpc \in [Threads -> {"out", "cas", "withdraw", "rwait", "rload",
                           "rcas", "in", "clear", "drop"}]
      /\ value \in [Threads -> Nat] /\ held \in [Threads -> {"no", "R", "W"}]
  BY DEF GateInit
<1>4. Placed /\ Exclusion
  BY DEF GateInit, Placed, Exclusion
<1> QED BY <1>1, <1>2, <1>3, <1>4 DEF GateInit, GateInv

(* A stuttering step keeps everything. *)
LEMMA GateInvStutter == GateInv /\ UNCHANGED gateVars => GateInv'
PROOF
<1> SUFFICES ASSUME GateInv, UNCHANGED gateVars PROVE GateInv'
  OBVIOUS
<1>1. state' = state /\ writers' = writers /\ gpc' = gpc /\ value' = value /\ held' = held
  BY DEF gateVars
<1>2. Shared' = Shared /\ Announced' = Announced /\ WriterIn' = WriterIn
  BY <1>1 DEF Shared, Announced, WriterIn
<1>3. Placed' /\ Exclusion'
  BY <1>1 DEF GateInv, Placed, Exclusion
<1> QED BY <1>1, <1>2, <1>3 DEF GateInv

(* How the two counted sets change when thread t goes to place "to" holding *)
(* h.                                                                       *)
LEMMA Moved ==
  ASSUME GateInv, NEW t \in Threads, NEW to, NEW h,
         gpc' = [gpc EXCEPT ![t] = to], held' = [held EXCEPT ![t] = h]
  PROVE  /\ Shared' = IF h = "R" THEN Shared \cup {t} ELSE Shared \ {t}
         /\ Announced' = IF to \in {"cas", "withdraw"} THEN Announced \cup {t}
                         ELSE Announced \ {t}
         /\ \A u \in Threads : /\ gpc'[u] = IF u = t THEN to ELSE gpc[u]
                               /\ held'[u] = IF u = t THEN h ELSE held[u]
PROOF
<1>1. \A u \in Threads : /\ gpc'[u] = IF u = t THEN to ELSE gpc[u]
                         /\ held'[u] = IF u = t THEN h ELSE held[u]
  BY DEF GateInv
<1> QED BY <1>1 DEF Shared, Announced

(* Steps that keep both counters and what every thread holds. *)
LEMMA GateInvQuiet ==
  ASSUME GateInv, NEW t \in Threads,
         RdLock(t) \/ RdWait(t) \/ RdLoad(t) \/ Unlock(t)
           \/ (RdCas(t) /\ state # value[t])
  PROVE  GateInv'
PROOF
<1> DEFINE to == gpc'[t]
<1>1. /\ state' = state /\ writers' = writers /\ held' = held
      /\ gpc' = [gpc EXCEPT ![t] = to]
      /\ gpc[t] \in {"out", "rwait", "rload", "rcas", "in"}
      /\ to \in {"rwait", "rload", "rcas", "clear", "drop"}
  BY DEF GateInv, RdLock, RdWait, RdLoad, RdCas, Unlock, GateAt
<1>2. held' = [held EXCEPT ![t] = held[t]]
  BY <1>1 DEF GateInv
<1>3. Shared' = Shared /\ Announced' = Announced /\ WriterIn' = WriterIn
  BY <1>1 DEF Shared, Announced, WriterIn, GateInv
<1>4. Exclusion'
  BY <1>1 DEF GateInv, Exclusion
<1>5. /\ value' \in [Threads -> Nat]
      /\ \A u \in Threads : u # t => value'[u] = value[u]
      /\ to = "rcas" => value'[t] < SB_GATE_WRITER - 1
  <2>1. state \in Nat /\ SB_GATE_WRITER \in Nat
    BY CountedSets DEF GateInv
  <2> QED BY <2>1 DEF GateInv, RdLock, RdWait, RdLoad, RdCas, Unlock, GateAt, HasWriter
<1>6. to = "clear" => held[t] = "W"
  BY CountedSets DEF GateInv, Placed, Exclusion, WriterIn, RdLock, RdWait, RdLoad, RdCas,
     Unlock, GateAt, HasWriter
<1>7. to = "drop" => held[t] = "R"
  BY CountedSets DEF GateInv, Placed, Exclusion, WriterIn, RdLock, RdWait, RdLoad, RdCas,
     Unlock, GateAt, HasWriter
<1>8. to \in {"rwait", "rload", "rcas"} => held[t] = "no"
  BY DEF GateInv, Placed, RdLock, RdWait, RdLoad, RdCas, Unlock, GateAt
<1>9. Placed'
  BY <1>1, <1>5, <1>6, <1>7, <1>8 DEF GateInv, Placed
<1>10. gpc' \in [Threads -> {"out", "cas", "withdraw", "rwait", "rload",
                             "rcas", "in", "clear", "drop"}]
  BY <1>1 DEF GateInv
<1> QED BY <1>1, <1>3, <1>4, <1>5, <1>9, <1>10 DEF GateInv

(* The announcement of a writer, and its withdrawal. *)
LEMMA GateInvAnnounce ==
  ASSUME GateInv, NEW t \in Threads, WrLock(t) \/ WrWithdraw(t)
  PROVE  GateInv'
PROOF
<1>1. /\ state' = state /\ value' = value /\ held' = held
      /\ held' = [held EXCEPT ![t] = held[t]]
  BY DEF GateInv, WrLock, WrWithdraw
<1>2. Shared' = Shared /\ WriterIn' = WriterIn /\ Exclusion'
  BY <1>1 DEF Shared, WriterIn, Exclusion, GateInv
<1>3. CASE WrLock(t)
  <2>1. gpc' = [gpc EXCEPT ![t] = "cas"] /\ gpc[t] = "out" /\ writers' = writers + 1
    BY <1>3 DEF WrLock, GateAt
  <2>2. Announced' = Announced \cup {t} /\ t \notin Announced
    BY <1>1, <2>1, Moved DEF Announced
  <2>3. writers' = Cardinality(Announced')
    BY <2>1, <2>2, CountedSets, FS_AddElement DEF GateInv
  <2>4. Placed'
    BY <1>1, <2>1 DEF GateInv, Placed
  <2> QED BY <1>1, <1>2, <2>1, <2>3, <2>4 DEF GateInv
<1>4. CASE WrWithdraw(t)
  <2>1. gpc' = [gpc EXCEPT ![t] = "in"] /\ gpc[t] = "withdraw" /\ writers' = writers - 1
    BY <1>4 DEF WrWithdraw, GateAt
  <2>2. Announced' = Announced \ {t} /\ t \in Announced
    BY <1>1, <2>1, Moved DEF Announced
  <2>3. writers' = Cardinality(Announced')
    BY <2>1, <2>2, CountedSets, FS_RemoveElement DEF GateInv
  <2>4. Placed'
    BY <1>1, <2>1 DEF GateInv, Placed
  <2> QED BY <1>1, <1>2, <2>1, <2>3, <2>4 DEF GateInv
<1> QED BY <1>3, <1>4

(* A writer gets the gate: the word was 0, so that nobody held it. *)
LEMMA GateInvWrite ==
  ASSUME GateInv, NEW t \in Threads, WrCas(t)
  PROVE  GateInv'
PROOF
<1>1. /\ state = 0 /\ state' = SB_GATE_WRITER /\ writers' = writers /\ value' = value
      /\ gpc[t] = "cas" /\ gpc' = [gpc EXCEPT ![t] = "withdraw"]
      /\ held' = [held EXCEPT ![t] = "W"]
  BY DEF WrCas, GateAt
<1>2. ~WriterIn /\ Cardinality(Shared) = 0
  BY <1>1, CountedSets DEF GateInv
<1>3. \A u \in Threads : held[u] = "no"
  BY <1>2, CountedSets, FS_EmptySet DEF GateInv, WriterIn, Shared
<1>4. Announced' = Announced
  BY <1>1, Moved DEF Announced
<1>5. WriterIn' /\ Exclusion'
  BY <1>1, <1>3 DEF GateInv, WriterIn, Exclusion
<1>6. Placed'
  BY <1>1 DEF GateInv, Placed
<1> QED BY <1>1, <1>4, <1>5, <1>6 DEF GateInv

(* A reader gets the gate: the word was a count below the flag. *)
LEMMA GateInvRead ==
  ASSUME GateInv, NEW t \in Threads, RdCas(t), state = value[t]
  PROVE  GateInv'
PROOF
<1>1. /\ state' = state + 1 /\ writers' = writers /\ value' = [value EXCEPT ![t] = 0]
      /\ gpc[t] = "rcas" /\ gpc' = [gpc EXCEPT ![t] = "in"]
      /\ held' = [held EXCEPT ![t] = "R"]
  BY DEF RdCas, GateAt
<1>2. state < SB_GATE_WRITER - 1 /\ SB_GATE_WRITER \in Nat
  BY <1>1, CountedSets DEF GateInv, Placed
<1>3. ~WriterIn /\ state = Cardinality(Shared) /\ t \notin Shared
  BY <1>1, <1>2, CountedSets DEF GateInv, Placed, Shared
<1>4. Shared' = Shared \cup {t} /\ Announced' = Announced
  BY <1>1, Moved DEF Announced
<1>5. state' = Cardinality(Shared')
  BY <1>1, <1>3, <1>4, CountedSets, FS_AddElement
<1>6. ~WriterIn' /\ Exclusion'
  BY <1>1, <1>3 DEF GateInv, WriterIn, Exclusion
<1>7. Placed'
  BY <1>1 DEF GateInv, Placed
<1> QED BY <1>1, <1>4, <1>5, <1>6, <1>7 DEF GateInv

(* The holder leaves: the sole writer clears the word, a reader takes       *)
(* itself off the count.                                                    *)
LEMMA GateInvLeave ==
  ASSUME GateInv, NEW t \in Threads, UnlockClear(t) \/ UnlockDrop(t)
  PROVE  GateInv'
PROOF
<1>1. /\ writers' = writers /\ value' = value /\ gpc[t] \in {"clear", "drop"}
      /\ gpc' = [gpc EXCEPT ![t] = "out"] /\ held' = [held EXCEPT ![t] = "no"]
  BY DEF UnlockClear, UnlockDrop, GateAt
<1>2. Shared' = Shared \ {t} /\ Announced' = Announced
  <2>1. /\ Shared' = IF "no" = "R" THEN Shared \cup {t} ELSE Shared \ {t}
        /\ Announced' = IF "out" \in {"cas", "withdraw"} THEN Announced \cup {t}
                        ELSE Announced \ {t}
    BY <1>1, Moved, Zenon
  <2>2. t \notin Announced
    BY <1>1 DEF Announced
  <2> QED BY <2>1, <2>2, SMT
<1>3. Placed' /\ Exclusion'
  BY <1>1 DEF GateInv, Placed, Exclusion
<1>4. ~WriterIn' /\ state' = Cardinality(Shared')
  <2>1. CASE UnlockClear(t)
    <3>1. state' = 0 /\ held[t] = "W"
      BY <2>1 DEF UnlockClear, GateAt, GateInv, Placed
    <3>2. \A u \in Threads : held'[u] = "no"
      BY <1>1, <3>1 DEF GateInv, Exclusion
    <3>3. Shared' = {} /\ ~WriterIn'
      BY <3>2 DEF Shared, WriterIn
    <3> QED BY <3>1, <3>3, FS_EmptySet
  <2>2. CASE UnlockDrop(t)
    <3>1. state' = state - 1 /\ held[t] = "R"
      BY <2>2 DEF UnlockDrop, GateAt, GateInv, Placed
    <3>2. ~WriterIn /\ ~WriterIn' /\ t \in Shared
      BY <1>1, <3>1 DEF GateInv, Exclusion, WriterIn, Shared
    <3>3. state = Cardinality(Shared)
      BY <3>2 DEF GateInv
    <3> QED BY <1>2, <3>1, <3>2, <3>3, CountedSets, FS_RemoveElement
  <2> QED BY <2>1, <2>2
<1> QED BY <1>1, <1>2, <1>3, <1>4 DEF GateInv

(* Every step of the gate keeps the invariant. *)
LEMMA GateInvStep == GateInv /\ [GateNext]_gateVars => GateInv'
PROOF
<1> SUFFICES ASSUME GateInv, [GateNext]_gateVars PROVE GateInv'
  OBVIOUS
<1>1. CASE UNCHANGED gateVars
  BY <1>1, GateInvStutter
<1>2. CASE GateNext
  <2>1. PICK t \in Threads : GateStep(t) \/ WrLock(t) \/ RdLock(t) \/ Unlock(t)
    BY <1>2 DEF GateNext
  <2>2. CASE RdCas(t)
    BY <2>2, GateInvRead, GateInvQuiet
  <2> QED BY <2>1, <2>2, GateInvQuiet, GateInvAnnounce, GateInvWrite, GateInvLeave DEF GateStep
<1> QED BY <1>1, <1>2

(* Whoever holds the gate exclusively holds it alone, for any number of     *)
(* threads (sb-lifecycle-gate.h:18 to 49).                                  *)
THEOREM GateExcludes == GateSpec => []Exclusion
PROOF
<1>1. GateInv => Exclusion
  BY DEF GateInv
<1> QED BY <1>1, GateInvInit, GateInvStep, PTL DEF GateSpec

(* Installers and the event reader use the gate only through its functions: *)
(* every step of the component is a step of the gate or leaves it alone.    *)
LEMMA StepsThroughGate == [Next]_vars => [GateNext]_gateVars
PROOF
<1> SUFFICES ASSUME [Next]_vars PROVE [GateNext]_gateVars
  OBVIOUS
<1>1. CASE UNCHANGED vars
  BY <1>1 DEF vars
<1>2. CASE Process \/ \E c \in Contexts : Zap(c)
  <2>1. ASSUME NEW c \in Contexts, Zap(c) PROVE UNCHANGED gateVars
    BY <2>1 DEF Zap
  <2>2. ASSUME NEW c \in Contexts, NEW a \in Addresses, Touch(c, a) \/ Discard(c, a) \/ Unmap(c, a)
        PROVE  UNCHANGED gateVars
    BY <2>2 DEF Touch, Discard, Unmap
  <2>3. ASSUME NEW c \in Contexts, NEW a \in Addresses, NEW b \in Addresses, Remap(c, a, b)
        PROVE  UNCHANGED gateVars
    BY <2>3 DEF Remap
  <2>4. ASSUME NEW c \in Contexts, NEW d \in Contexts, Fork(c, d) PROVE UNCHANGED gateVars
    BY <2>4 DEF Fork
  <2>5. ASSUME NEW c \in Contexts, Exit(c) PROVE UNCHANGED gateVars
    BY <2>5 DEF Exit
  <2> QED BY <1>2, <2>1, <2>2, <2>3, <2>4, <2>5 DEF Process
<1>3. ASSUME NEW t \in Installers, NEW p \in Pages, Install(t, p) PROVE GateNext
  BY <1>3, LifecycleAssumption DEF Install, GateNext
<1>4. ASSUME NEW t \in Threads, Work(t) \/ Gate(t) PROVE [GateNext]_gateVars
  <2>1. CASE Gate(t)
    BY <2>1 DEF Gate, GateNext
  <2>2. CASE InstallSkip(t) \/ InstallCopy(t) \/ InstallPublish(t) \/ InstallReturn(t)
               \/ ReadFault(t) \/ ReadEvent(t) \/ DrainNext(t)
    BY <2>2 DEF InstallSkip, InstallCopy, InstallPublish, InstallReturn, ReadFault,
       ReadEvent, DrainNext
  <2>3. CASE InstallUnlock(t) \/ DrainEnd(t)
    BY <2>3 DEF InstallUnlock, DrainEnd, Leave, GateNext
  <2>4. CASE InstallRetry(t) \/ InstallAgain(t)
    BY <2>4 DEF InstallRetry, InstallAgain, GateNext
  <2> QED BY <1>4, <2>1, <2>2, <2>3, <2>4 DEF Work
<1>5. CASE Poll \/ Finish
  BY <1>5, LifecycleAssumption DEF Poll, Finish, GateNext
<1>6. CASE Close
  BY <1>6, LifecycleAssumption DEF Close, Leave, GateNext
<1>7. CASE Serve
  <2>1. CASE ServeZero
    BY <2>1, LifecycleAssumption DEF ServeZero, Leave, GateNext
  <2>2. CASE ServeEnd
    BY <2>2, LifecycleAssumption DEF ServeEnd, Leave, GateNext
  <2> QED BY <1>7, <2>1, <2>2 DEF Serve, ServeDead, ServePending, ServePresent
<1> QED BY <1>1, <1>2, <1>3, <1>4, <1>5, <1>6, <1>7 DEF Next

(* The component keeps the exclusion, for any number of threads, contexts   *)
(* and pages.                                                               *)
THEOREM FamilyExcludes == Spec => []Exclusion
PROOF
<1>1. Init => GateInv
  BY GateInvInit DEF Init
<1>2. GateInv /\ [Next]_vars => GateInv'
  BY GateInvStep, StepsThroughGate
<1>3. GateInv => Exclusion
  BY DEF GateInv
<1> QED BY <1>1, <1>2, <1>3, PTL DEF Spec
============================================================================
