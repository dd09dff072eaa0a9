--------------------------- MODULE SbkSlotsProofs ---------------------------
(***************************************************************************)
(* Slots, waiters and late DMA of one lane of sbk_rdma.c, for any number of *)
(* readers and slots and any size of a batch.                               *)
(***************************************************************************)
EXTENDS SbkSlots, FiniteSetTheorems, SequenceTheorems, TLAPS

Queued(q, r) == \E i \in 1..Len(q) : q[i] = r
Once(q) == \A i, j \in 1..Len(q) : q[i] = q[j] => i = j

(* list_del_init takes the waiter, if it is there, out of the list and      *)
(* leaves the others as they are.                                           *)
LEMMA Unlinked ==
  ASSUME NEW q \in Seq(Readers), NEW r, Once(q)
  PROVE  LET w == RemoveFirst(q, r)
         IN  /\ w \in Seq(Readers) /\ Once(w) /\ ~Queued(w, r)
             /\ \A x : Queued(w, x) => Queued(q, x)
             /\ w # <<>> => q # <<>>
PROOF
<1> DEFINE w == RemoveFirst(q, r)
<1>1. CASE ~Queued(q, r)
  <2>1. w = q
    BY <1>1 DEF Queued, RemoveFirst
  <2> QED BY <1>1, <2>1
<1>2. CASE Queued(q, r)
  <2>1. PICK k \in 1..Len(q) : q[k] = r
    BY <1>2 DEF Queued
  <2> DEFINE I == {i \in 1..Len(q) : q[i] = r}
  <2>2. I = {k}
    BY <2>1 DEF Once
  <2>3. SelectInSeq(q, LAMBDA v : v = r) = k
    <3>1. SelectInSeq(q, LAMBDA v : v = r) = IF I # {} THEN Min(I) ELSE 0
      BY DEF SelectInSeq
    <3>2. Min({k}) = k
      BY <2>1 DEF Min
    <3> QED BY <3>1, <3>2, <2>2
  <2>4. w = SubSeq(q, 1, k - 1) \o SubSeq(q, k + 1, Len(q))
    BY <1>2, <2>3 DEF Queued, RemoveFirst, RemoveAt
  <2> DEFINE a == SubSeq(q, 1, k - 1)
             b == SubSeq(q, k + 1, Len(q))
  <2>5. /\ a \in Seq(Readers) /\ Len(a) = k - 1 /\ \A i \in 1..(k - 1) : a[i] = q[i]
        /\ b \in Seq(Readers) /\ Len(b) = Len(q) - k
        /\ \A i \in 1..(Len(q) - k) : b[i] = q[k + i]
    BY <2>1
  <2>6. /\ w \in Seq(Readers) /\ Len(w) = Len(q) - 1
        /\ \A i \in 1..Len(w) : w[i] = IF i < k THEN q[i] ELSE q[i + 1]
    <3> HIDE DEF a, b, w
    <3>1. w = a \o b
      BY <2>4 DEF a, b
    <3>2. /\ w \in Seq(Readers) /\ Len(w) = Len(a) + Len(b)
          /\ \A i \in 1..(Len(a) + Len(b)) : w[i] = IF i <= Len(a) THEN a[i] ELSE b[i - Len(a)]
      BY <3>1, <2>5, ConcatProperties
    <3>3. Len(w) = Len(q) - 1 /\ Len(q) \in Nat /\ k \in 1..Len(q)
      BY <3>2, <2>1, <2>5
    <3>4. ASSUME NEW i \in 1..Len(w), i < k PROVE w[i] = q[i]
      <4>1. i \in 1..(k - 1) /\ i <= Len(a)
        BY <3>3, <3>4, <2>5
      <4>2. w[i] = a[i]
        BY <4>1, <3>2
      <4> QED BY <4>1, <4>2, <2>5
    <3>5. ASSUME NEW i \in 1..Len(w), ~(i < k) PROVE w[i] = q[i + 1]
      <4>1. i - Len(a) \in 1..(Len(q) - k) /\ k + (i - Len(a)) = i + 1 /\ ~(i <= Len(a))
        BY <3>3, <3>5, <2>5
      <4>2. w[i] = b[i - Len(a)]
        BY <4>1, <3>2
      <4> QED BY <4>1, <4>2, <2>5
    <3> QED BY <3>2, <3>3, <3>4, <3>5
  <2> HIDE DEF w
  <2>7. Once(w)
    <3> SUFFICES ASSUME NEW i \in 1..Len(w), NEW j \in 1..Len(w), w[i] = w[j] PROVE i = j
      BY DEF Once
    <3> DEFINE at(n) == IF n < k THEN n ELSE n + 1
    <3>1. at(i) \in 1..Len(q) /\ at(j) \in 1..Len(q)
      BY <2>1, <2>6
    <3>2. q[at(i)] = q[at(j)]
      BY <2>6
    <3>3. at(i) = at(j)
      <4> HIDE DEF at
      <4> QED BY <3>1, <3>2 DEF Once
    <3> QED BY <3>3, <2>1, <2>6
  <2>8. ~Queued(w, r)
    BY <2>1, <2>6 DEF Once, Queued
  <2>9. \A x : Queued(w, x) => Queued(q, x)
    <3>1. ASSUME NEW x, NEW i \in 1..Len(w), w[i] = x PROVE Queued(q, x)
      <4>1. i \in 1..Len(q) /\ i + 1 \in 1..Len(q)
        BY <2>1, <2>6
      <4> QED BY <3>1, <4>1, <2>6 DEF Queued
    <3> QED BY <3>1 DEF Queued
  <2>10. q # <<>>
    BY <2>1
  <2> QED BY <2>6, <2>7, <2>8, <2>9, <2>10 DEF w
<1> QED BY <1>1, <1>2

----------------------------------------------------------------------------
(* Where a reader is tells whether it has a slot, and a listed waiter has   *)
(* none yet.                                                                *)
Placed ==
  /\ \A r \in Readers :
       /\ reader[r].pc = "idle" => reader[r].slot = None
       /\ reader[r].pc \in {"held", "poll", "quiesce", "cancel", "release"}
            => reader[r].slot # None
       /\ reader[r].pc \in {"idle", "wait", "take", "held"}
            => reader[r].mapped = {} /\ reader[r].ready = {}
  /\ Once(waiters)
  /\ \A r \in Readers : Queued(waiters, r) =>
       reader[r].pc \in {"wait", "take"} /\ reader[r].slot = None

(* Readers with a slot are the owners of the busy slots, one each. *)
Owned ==
  /\ \A r \in Readers : reader[r].slot # None => slot[reader[r].slot].busy
  /\ \A r, x \in Readers : reader[r].slot # None /\ reader[r].slot = reader[x].slot => r = x
  /\ \A s \in Slots : slot[s].busy => \E r \in Readers : reader[r].slot = s

(* Where the pages are that the device may still write to: with the reader  *)
(* that polls or tears down, else retained.                                 *)
Reads(s, r) == reader[r].slot = s /\ reader[r].pc \in {"poll", "quiesce"}
Pinned ==
  \A s \in Slots :
    /\ (\A r \in Readers : ~Reads(s, r)) => hw[s] \subseteq slot[s].retained
    /\ \A r \in Readers : Reads(s, r) =>
         /\ hw[s] \subseteq reader[r].mapped
         /\ reader[r].pc = "poll" => hw[s] \cap reader[r].ready = {}

Places == {"idle", "wait", "take", "held", "poll", "quiesce", "cancel", "release"}
ReaderRecs == [pc : Places, slot : Slots \cup {None}, moved : BOOLEAN,
               mapped : SUBSET Batch, ready : SUBSET Batch]
SlotRecs == [busy : BOOLEAN, failed : BOOLEAN, qp : BOOLEAN, retained : SUBSET Batch]

Typed ==
  /\ stopped \in BOOLEAN /\ quarantined \in BOOLEAN
  /\ slot \in [Slots -> SlotRecs]
  /\ hw \in [Slots -> SUBSET Batch]
  /\ waiters \in Seq(Readers)
  /\ reader \in [Readers -> ReaderRecs]

Inv == Typed /\ Placed /\ Owned /\ Pinned /\ WorkConserving

(* A change of place keeps the rest of a reader's record. *)
LEMMA PlaceChange ==
  ASSUME NEW v \in ReaderRecs, NEW p \in Places
  PROVE  LET w == [v EXCEPT !.pc = p]
         IN  /\ w \in ReaderRecs /\ w.pc = p /\ w.slot = v.slot
             /\ w.mapped = v.mapped /\ w.ready = v.ready
PROOF BY DEF ReaderRecs

(* So does a renewed wait. *)
LEMMA MovedChange ==
  ASSUME NEW v \in ReaderRecs, NEW b \in BOOLEAN
  PROVE  LET w == [v EXCEPT !.moved = b]
         IN  /\ w \in ReaderRecs /\ w.pc = v.pc /\ w.slot = v.slot
             /\ w.mapped = v.mapped /\ w.ready = v.ready
PROOF BY DEF ReaderRecs

(* A reader that gets slot s at once. *)
LEMMA SlotChange ==
  ASSUME NEW v \in ReaderRecs, NEW s \in Slots
  PROVE  LET w == [[v EXCEPT !.pc = "held"] EXCEPT !.slot = s]
         IN  /\ w \in ReaderRecs /\ w.pc = "held" /\ w.slot = s
             /\ w.mapped = v.mapped /\ w.ready = v.ready
PROOF BY DEF ReaderRecs, Places

(* A reader that unmaps what it still has. *)
LEMMA UnmapChange ==
  ASSUME NEW v \in ReaderRecs, NEW p \in Places
  PROVE  LET w == [[v EXCEPT !.pc = p] EXCEPT !.mapped = {}]
         IN  /\ w \in ReaderRecs /\ w.pc = p /\ w.slot = v.slot
             /\ w.mapped = {} /\ w.ready = v.ready
PROOF BY DEF ReaderRecs

(* A slot whose queue pair is destroyed. *)
LEMMA QuiesceChange ==
  ASSUME slot \in [Slots -> SlotRecs], NEW s \in Slots,
         slot' = [slot EXCEPT ![s].failed = TRUE, ![s].qp = FALSE]
  PROVE  /\ slot' \in [Slots -> SlotRecs]
         /\ \A u \in Slots : slot'[u].busy = slot[u].busy /\ slot'[u].retained = slot[u].retained
PROOF BY DEF SlotRecs

(* The session starts with free slots and no waiter. *)
LEMMA InvInit == Init => Inv
PROOF
<1> SUFFICES ASSUME Init PROVE Inv
  OBVIOUS
<1>1. Typed
  <2>1. Idle \in ReaderRecs
    BY DEF Idle, ReaderRecs, Places
  <2>2. [busy |-> FALSE, failed |-> FALSE, qp |-> TRUE, retained |-> {}] \in SlotRecs
    BY DEF SlotRecs
  <2>3. slot \in [Slots -> SlotRecs] /\ reader \in [Readers -> ReaderRecs]
    BY <2>1, <2>2 DEF Init
  <2>4. hw \in [Slots -> SUBSET Batch] /\ waiters \in Seq(Readers)
    BY DEF Init
  <2> QED BY <2>3, <2>4 DEF Init, Typed
<1>2. Placed
  BY SlotsAssumption DEF Init, Placed, Idle, Queued, Once
<1>3. Owned /\ Pinned /\ WorkConserving
  BY DEF Init, Owned, Pinned, Reads, WorkConserving, Idle
<1> QED BY <1>1, <1>2, <1>3 DEF Inv

(* A stuttering step keeps everything. *)
LEMMA InvStutter == Inv /\ UNCHANGED vars => Inv'
PROOF
  BY DEF Inv, vars, Typed, Placed, Owned, Pinned, Reads, WorkConserving

(* A free slot is taken at once, or the reader queues up. *)
LEMMA InvAcquire ==
  ASSUME Inv, NEW r \in Readers, Acquire(r) PROVE Inv'
PROOF
<1>1. reader[r].pc = "idle" /\ reader[r].slot = None /\ ~Queued(waiters, r)
  BY DEF Acquire, Inv, Placed
<1>2. CASE \E s \in Slots :
          /\ waiters = <<>> /\ ~slot[s].busy
          /\ slot' = [slot EXCEPT ![s].busy = TRUE]
          /\ reader' = [reader EXCEPT ![r].pc = "held", ![r].slot = s]
          /\ UNCHANGED waiters
  <2>1. PICK s \in Slots :
          /\ waiters = <<>> /\ ~slot[s].busy
          /\ slot' = [slot EXCEPT ![s].busy = TRUE]
          /\ reader' = [reader EXCEPT ![r].pc = "held", ![r].slot = s]
          /\ UNCHANGED waiters
    BY <1>2
  <2>2. UNCHANGED <<stopped, quarantined, hw>>
    BY DEF Acquire
  <2>3. Typed'
    <3>0. /\ reader' = [reader EXCEPT ![r].pc = "held", ![r].slot = s]
          /\ reader \in [Readers -> ReaderRecs]
      BY <2>1 DEF Inv, Typed
    <3>1. reader' \in [Readers -> ReaderRecs]
      BY <3>0, SlotChange
    <3>2. slot' \in [Slots -> SlotRecs]
      BY <2>1 DEF Inv, Typed, SlotRecs
    <3> QED BY <2>1, <2>2, <3>1, <3>2 DEF Inv, Typed
  <2>4. Placed'
    BY <2>1, <1>1, SlotsAssumption DEF Inv, Typed, ReaderRecs, SlotRecs, Placed, Queued
  <2>5. Owned'
    BY <2>1, <1>1, SlotsAssumption DEF Inv, Typed, ReaderRecs, SlotRecs, Owned
  <2>6. Pinned'
    <3>1. \A x \in Readers : x # r => reader'[x] = reader[x]
      BY <2>1 DEF Inv, Typed
    <3>2. reader'[r].pc = "held"
      BY <2>1 DEF Inv, Typed, ReaderRecs
    <3>3. \A u \in Slots : slot'[u].retained = slot[u].retained
      BY <2>1 DEF Inv, Typed, SlotRecs
    <3>4. \A u \in Slots, x \in Readers : Reads(u, x)' <=> Reads(u, x)
      BY <1>1, <3>1, <3>2 DEF Reads
    <3> QED BY <2>2, <3>1, <3>2, <3>3, <3>4 DEF Inv, Pinned, Reads
  <2>7. WorkConserving'
    BY <2>1 DEF WorkConserving
  <2> QED BY <2>3, <2>4, <2>5, <2>6, <2>7 DEF Inv
<1>3. CASE /\ waiters # <<>> \/ \A s \in Slots : slot[s].busy
           /\ waiters' = Append(waiters, r)
           /\ Goto(r, "wait") /\ UNCHANGED slot
  <2>1. UNCHANGED <<stopped, quarantined, hw>> /\ reader' = [reader EXCEPT ![r].pc = "wait"]
    BY <1>3 DEF Acquire, Goto
  <2>2. /\ waiters' \in Seq(Readers) /\ Len(waiters') = Len(waiters) + 1
        /\ \A i \in 1..Len(waiters) : waiters'[i] = waiters[i]
        /\ waiters'[Len(waiters) + 1] = r
    BY <1>3 DEF Inv, Typed
  <2>3. Typed'
    <3>1. reader' \in [Readers -> ReaderRecs]
      BY <2>1 DEF Inv, Typed, ReaderRecs, Places
    <3> QED BY <1>3, <2>1, <2>2, <3>1 DEF Inv, Typed
  <2>4. Placed'
    <3>1. Once(waiters')
      BY <2>2, <1>1 DEF Inv, Typed, ReaderRecs, SlotRecs, Placed, Queued, Once
    <3>2. \A x \in Readers : Queued(waiters', x) => x = r \/ Queued(waiters, x)
      BY <2>2 DEF Queued, Inv, Typed
    <3> QED BY <3>1, <3>2, <2>1, <1>1 DEF Inv, Typed, ReaderRecs, SlotRecs, Placed
  <2>5. Owned' /\ Pinned'
    BY <1>3, <2>1, <1>1 DEF Inv, Typed, ReaderRecs, SlotRecs, Owned, Pinned, Reads
  <2>6. WorkConserving'
    BY <1>3, <2>1 DEF Inv, WorkConserving, Acquire
  <2> QED BY <2>3, <2>4, <2>5, <2>6 DEF Inv
<1> QED BY <1>2, <1>3 DEF Acquire

(* A reader that goes on with the slot it has, or without one: its record   *)
(* becomes v, and of the slots at most its own changes.  Enough for the     *)
(* invariant is that v fits its place and that the pages the device may     *)
(* still write to are mapped in v or retained.                              *)
LEMMA InvGoesOn ==
  ASSUME Inv, NEW r \in Readers, NEW v \in ReaderRecs,
         reader' = [reader EXCEPT ![r] = v], v.slot = reader[r].slot,
         waiters' = waiters, stopped' \in BOOLEAN, stopped => stopped',
         quarantined' \in BOOLEAN,
         slot' \in [Slots -> SlotRecs], hw' \in [Slots -> SUBSET Batch],
         \A u \in Slots : slot'[u].busy = slot[u].busy,
         \A u \in Slots : u # v.slot => hw'[u] = hw[u] /\ slot'[u].retained = slot[u].retained,
         v.pc # "idle",
         v.pc \in {"held", "poll", "quiesce", "cancel", "release"} => v.slot # None,
         v.pc \in {"wait", "take", "held"} => v.mapped = {} /\ v.ready = {},
         reader[r].pc \in {"wait", "take"} => v.pc \in {"wait", "take"},
         v.slot # None /\ v.pc \in {"poll", "quiesce"} => hw'[v.slot] \subseteq v.mapped,
         v.slot # None /\ v.pc = "poll" => hw'[v.slot] \cap v.ready = {},
         v.slot # None /\ v.pc \notin {"poll", "quiesce"} => hw'[v.slot] \subseteq slot'[v.slot].retained
  PROVE  Inv'
PROOF
<1>1. \A x \in Readers : reader'[x] = IF x = r THEN v ELSE reader[x]
  BY DEF Inv, Typed
<1>2. Typed'
  BY DEF Inv, Typed
<1>3. \A x \in Readers : reader'[x].slot = reader[x].slot
  BY <1>1
<1>4. Placed'
  BY <1>1, <1>3 DEF Inv, Placed
<1>5. Owned'
  <2>1. \A x \in Readers : reader[x].slot \in Slots \cup {None}
    BY DEF Inv, Typed, ReaderRecs
  <2> QED BY <1>3, <2>1, SlotsAssumption DEF Inv, Owned
<1>6. Pinned'
  <2> SUFFICES ASSUME NEW s \in Slots
               PROVE  /\ (\A x \in Readers : ~Reads(s, x)') => hw'[s] \subseteq slot'[s].retained
                      /\ \A x \in Readers : Reads(s, x)' =>
                           /\ hw'[s] \subseteq reader'[x].mapped
                           /\ reader'[x].pc = "poll" => hw'[s] \cap reader'[x].ready = {}
    BY DEF Pinned
  <2>1. CASE s = v.slot
    <3>1. v.slot # None /\ \A x \in Readers : Reads(s, x)' => x = r
      BY <2>1, <1>1, <1>3, SlotsAssumption DEF Inv, Owned, Reads
    <3> QED BY <2>1, <3>1, <1>1 DEF Reads
  <2>2. CASE s # v.slot
    <3>1. \A x \in Readers : Reads(s, x)' <=> Reads(s, x)
      BY <2>2, <1>1 DEF Reads
    <3>2. \A x \in Readers : Reads(s, x) => reader'[x] = reader[x]
      BY <2>2, <1>1 DEF Reads
    <3> QED BY <2>2, <3>1, <3>2 DEF Inv, Pinned
  <2> QED BY <2>1, <2>2
<1>7. WorkConserving'
  BY DEF Inv, WorkConserving
<1> QED BY <1>2, <1>4, <1>5, <1>6, <1>7 DEF Inv

(* A reader that keeps everything but its place, which it leaves for one    *)
(* further on.                                                              *)
LEMMA InvMoves ==
  ASSUME Inv, NEW r \in Readers, NEW v \in ReaderRecs,
         reader' = [reader EXCEPT ![r] = v],
         UNCHANGED <<stopped, quarantined, slot, hw, waiters>>,
         v.slot = reader[r].slot, v.mapped = reader[r].mapped, v.ready = reader[r].ready,
         \/ reader[r].pc = "wait" /\ v.pc \in {"wait", "take"}
         \/ reader[r].pc = "held" /\ v.pc = "release"
         \/ reader[r].pc = "poll" /\ v.pc = "quiesce"
  PROVE  Inv'
PROOF
<1>1. v.slot \in Slots \cup {None}
  BY DEF ReaderRecs
<1>2. v.slot # None /\ v.pc = "quiesce" => hw[v.slot] \subseteq v.mapped
  BY <1>1 DEF Inv, Pinned, Reads
<1>3. v.slot # None /\ v.pc \notin {"poll", "quiesce"} => hw[v.slot] \subseteq slot[v.slot].retained
  <2> SUFFICES ASSUME v.slot # None, v.pc \notin {"poll", "quiesce"}
               PROVE  hw[v.slot] \subseteq slot[v.slot].retained
    OBVIOUS
  <2>1. \A x \in Readers : ~Reads(v.slot, x)
    BY DEF Inv, Owned, Reads
  <2> QED BY <2>1, <1>1 DEF Inv, Pinned
<1>4. /\ v.pc \in {"held", "poll", "quiesce", "cancel", "release"} => v.slot # None
      /\ v.pc \in {"wait", "take", "held"} => v.mapped = {} /\ v.ready = {}
      /\ v.pc # "idle" /\ v.pc # "poll"
      /\ reader[r].pc \in {"wait", "take"} => v.pc \in {"wait", "take"}
  BY DEF Inv, Placed
<1>5. /\ stopped' \in BOOLEAN /\ quarantined' \in BOOLEAN
      /\ slot' \in [Slots -> SlotRecs] /\ hw' \in [Slots -> SUBSET Batch]
  BY DEF Inv, Typed
<1> QED BY <1>2, <1>3, <1>4, <1>5, InvGoesOn

(* The readers' steps of that kind. *)
LEMMA InvPlace ==
  ASSUME Inv, NEW r \in Readers,
         Awake(r) \/ WaitAgain(r) \/ GiveUp(r) \/ NoPost(r) \/ PollFail(r)
  PROVE  Inv'
PROOF
<1>1. UNCHANGED <<stopped, quarantined, slot, hw, waiters>>
  BY DEF Awake, WaitAgain, GiveUp, NoPost, PollFail
<1>2. reader[r] \in ReaderRecs
  BY DEF Inv, Typed
<1>3. CASE WaitAgain(r)
  <2>1. reader' = [reader EXCEPT ![r] = [reader[r] EXCEPT !.moved = FALSE]] /\ reader[r].pc = "wait"
    BY <1>3 DEF WaitAgain
  <2> QED BY <1>1, <1>2, <2>1, MovedChange, InvMoves
<1>4. ASSUME NEW p \in Places, reader' = [reader EXCEPT ![r] = [reader[r] EXCEPT !.pc = p]],
             \/ reader[r].pc = "wait" /\ p = "take"
             \/ reader[r].pc = "held" /\ p = "release"
             \/ reader[r].pc = "poll" /\ p = "quiesce"
      PROVE  Inv'
  BY <1>1, <1>2, <1>4, PlaceChange, InvMoves
<1> QED BY <1>3, <1>4 DEF Awake, GiveUp, NoPost, PollFail, Goto, Places

(* The reads are posted on the reader's slot. *)
LEMMA InvPost ==
  ASSUME Inv, NEW r \in Readers, Post(r) PROVE Inv'
PROOF
<1> DEFINE s == reader[r].slot
<1>1. PICK sent \in 0..Count :
        /\ hw' = [hw EXCEPT ![s] = {i \in Batch : i < sent}]
        /\ reader' = [reader EXCEPT ![r].mapped = Batch,
                        ![r].pc = IF sent = Count THEN "poll" ELSE "quiesce"]
  BY DEF Post
<1> DEFINE p == IF sent = Count THEN "poll" ELSE "quiesce"
           v == [[reader[r] EXCEPT !.mapped = Batch] EXCEPT !.pc = p]
<1>2. reader[r].pc = "held" /\ UNCHANGED <<stopped, quarantined, slot, waiters>>
  BY DEF Post
<1>3. reader \in [Readers -> ReaderRecs] /\ reader[r] \in ReaderRecs /\ p \in Places
  BY DEF Inv, Typed, Places
<1>4. reader' = [reader EXCEPT ![r] = v]
  BY <1>1, <1>3
<1> HIDE DEF p
<1>5. /\ v \in ReaderRecs /\ v.pc = p /\ v.slot = s
      /\ v.mapped = Batch /\ v.ready = reader[r].ready
  BY <1>3 DEF ReaderRecs
<1> HIDE DEF v
<1>6. s \in Slots /\ v.ready = {} /\ p \in {"poll", "quiesce"}
  BY <1>2, <1>3, <1>5 DEF Inv, Placed, ReaderRecs, p
<1>7. /\ hw' \in [Slots -> SUBSET Batch] /\ hw'[s] \subseteq Batch
      /\ \A u \in Slots : u # s => hw'[u] = hw[u]
  BY <1>1, <1>6 DEF Inv, Typed
<1>8. stopped' \in BOOLEAN /\ quarantined' \in BOOLEAN /\ slot' \in [Slots -> SlotRecs]
  BY <1>2 DEF Inv, Typed
<1>9. s # None
  BY <1>6, SlotsAssumption
<1> QED BY <1>2, <1>4, <1>5, <1>6, <1>7, <1>8, <1>9, InvGoesOn

(* A completion ends the device's access to its page, which is unmapped     *)
(* and published; after the last one the device has none left.              *)
LEMMA InvPageReady ==
  ASSUME Inv, NEW r \in Readers, NEW i \in Batch, PageReady(r, i) PROVE Inv'
PROOF
<1> DEFINE s == reader[r].slot
           m == reader[r].mapped \ {i}
           n == reader[r].ready \cup {i}
           p == IF n = Batch THEN "release" ELSE reader[r].pc
           v == [[[reader[r] EXCEPT !.mapped = m] EXCEPT !.ready = n] EXCEPT !.pc = p]
<1>1. /\ reader[r].pc = "poll" /\ i \in hw[s] /\ hw' = [hw EXCEPT ![s] = @ \ {i}]
      /\ UNCHANGED <<stopped, quarantined, slot, waiters>>
  BY DEF PageReady
<1>2. reader' = [reader EXCEPT ![r].mapped = @ \ {i}, ![r].ready = @ \cup {i},
                   ![r].pc = IF reader[r].ready \cup {i} = Batch THEN "release" ELSE @]
  BY DEF PageReady
<1>3. /\ reader \in [Readers -> ReaderRecs] /\ reader[r] \in ReaderRecs
      /\ p \in Places /\ p \in {"poll", "release"}
  BY <1>1 DEF Inv, Typed, Places
<1>4. m \in SUBSET Batch /\ n \in SUBSET Batch
  BY <1>3 DEF ReaderRecs
<1>5. reader' = [reader EXCEPT ![r] = v]
  BY <1>2, <1>3 DEF ReaderRecs
<1>6. /\ v \in ReaderRecs /\ v.pc = p /\ v.slot = s /\ v.mapped = m /\ v.ready = n
  <2> HIDE DEF p, m, n
  <2> QED BY <1>3, <1>4 DEF ReaderRecs
<1> HIDE DEF v
<1>7. s \in Slots /\ s # None
  BY <1>1, <1>3, SlotsAssumption DEF Inv, Placed, ReaderRecs
<1>8. /\ hw' \in [Slots -> SUBSET Batch] /\ hw'[s] = hw[s] \ {i} /\ hw[s] \subseteq Batch
      /\ \A u \in Slots : u # s => hw'[u] = hw[u]
  BY <1>1, <1>7 DEF Inv, Typed
<1>9. hw[s] \subseteq reader[r].mapped /\ hw[s] \cap reader[r].ready = {}
  BY <1>1, <1>7 DEF Inv, Pinned, Reads
<1>10. hw'[s] \subseteq m /\ hw'[s] \cap n = {}
  BY <1>8, <1>9
<1>11. p # "poll" => hw'[s] \subseteq slot'[s].retained
  BY <1>1, <1>8, <1>10
<1>12. stopped' \in BOOLEAN /\ quarantined' \in BOOLEAN /\ slot' \in [Slots -> SlotRecs]
  BY <1>1 DEF Inv, Typed
<1> HIDE DEF p, m, n
<1> QED BY <1>1, <1>3, <1>5, <1>6, <1>7, <1>8, <1>10, <1>11, <1>12, InvGoesOn

(* The teardown after a read of unknown outcome: the queue pair is          *)
(* destroyed, or the mapped pages are retained; then the rest is unmapped.  *)
LEMMA InvTeardown ==
  ASSUME Inv, NEW r \in Readers, Quiesce(r) \/ Quarantine(r) \/ FailSession(r) PROVE Inv'
PROOF
<1> DEFINE s == reader[r].slot
<1>1. /\ reader \in [Readers -> ReaderRecs] /\ reader[r] \in ReaderRecs
      /\ reader[r].pc \in {"quiesce", "cancel"}
  BY DEF Inv, Typed, Quiesce, Quarantine, FailSession
<1>2. s \in Slots /\ s # None /\ reader[r].mapped \in SUBSET Batch
  BY <1>1, SlotsAssumption DEF Inv, Placed, ReaderRecs
<1>3. slot \in [Slots -> SlotRecs] /\ hw \in [Slots -> SUBSET Batch] /\ stopped \in BOOLEAN
      /\ quarantined \in BOOLEAN
  BY DEF Inv, Typed
<1>4. CASE Quiesce(r)
  <2> DEFINE v == [reader[r] EXCEPT !.pc = "cancel"]
  <2>1. /\ slot' = [slot EXCEPT ![s].failed = TRUE, ![s].qp = FALSE]
        /\ hw' = [hw EXCEPT ![s] = {}]
    BY <1>4 DEF Quiesce
  <2>5. /\ stopped' = stopped /\ quarantined' = quarantined /\ waiters' = waiters
        /\ reader' = [reader EXCEPT ![r] = v] /\ reader[r].pc = "quiesce"
    BY <1>4 DEF Quiesce, Goto
  <2>2. /\ slot' \in [Slots -> SlotRecs]
        /\ \A u \in Slots : slot'[u].busy = slot[u].busy /\ slot'[u].retained = slot[u].retained
    BY <1>2, <1>3, <2>1, QuiesceChange
  <2>3. /\ hw' \in [Slots -> SUBSET Batch] /\ hw'[s] = {}
        /\ \A u \in Slots : u # s => hw'[u] = hw[u]
    BY <1>2, <1>3, <2>1
  <2>4. v \in ReaderRecs /\ v.pc = "cancel" /\ v.slot = s
    BY <1>1, PlaceChange DEF Places
  <2> HIDE DEF v
  <2>6. /\ v.pc # "idle" /\ v.pc \notin {"wait", "take", "held", "poll", "quiesce"}
        /\ reader[r].pc \notin {"wait", "take"} /\ hw'[v.slot] \subseteq slot'[v.slot].retained
    BY <2>3, <2>4, <2>5
  <2> QED BY <1>2, <1>3, <2>2, <2>3, <2>4, <2>5, <2>6, InvGoesOn
<1>5. CASE Quarantine(r)
  <2> DEFINE v == [[reader[r] EXCEPT !.pc = "cancel"] EXCEPT !.mapped = {}]
  <2>1. /\ slot' = [slot EXCEPT ![s].failed = TRUE, ![s].retained = reader[r].mapped]
    BY <1>5 DEF Quarantine
  <2>6. /\ stopped' = TRUE /\ quarantined' = TRUE /\ hw' = hw /\ waiters' = waiters
        /\ reader[r].pc = "quiesce"
    BY <1>5 DEF Quarantine
  <2>2. reader' = [reader EXCEPT ![r] = v]
    BY <1>1, <1>5 DEF Quarantine
  <2>3. /\ slot' \in [Slots -> SlotRecs] /\ slot'[s].retained = reader[r].mapped
        /\ \A u \in Slots : slot'[u].busy = slot[u].busy
        /\ \A u \in Slots : u # s => slot'[u].retained = slot[u].retained
    BY <1>2, <1>3, <2>1 DEF SlotRecs
  <2>4. v \in ReaderRecs /\ v.pc = "cancel" /\ v.slot = s
    BY <1>1, UnmapChange DEF Places
  <2>5. hw[s] \subseteq reader[r].mapped
    BY <1>2, <2>6 DEF Inv, Pinned, Reads
  <2> HIDE DEF v
  <2>7. /\ v.pc # "idle" /\ v.pc \notin {"wait", "take", "held", "poll", "quiesce"}
        /\ reader[r].pc \notin {"wait", "take"} /\ hw'[v.slot] \subseteq slot'[v.slot].retained
    BY <2>3, <2>4, <2>5, <2>6
  <2> QED BY <1>2, <1>3, <2>2, <2>3, <2>4, <2>6, <2>7, InvGoesOn
<1>6. CASE FailSession(r)
  <2> DEFINE v == [[reader[r] EXCEPT !.pc = "release"] EXCEPT !.mapped = {}]
  <2>1. /\ stopped' = TRUE /\ UNCHANGED <<quarantined, slot, hw, waiters>>
        /\ reader[r].pc = "cancel"
    BY <1>6 DEF FailSession
  <2>2. reader' = [reader EXCEPT ![r] = v]
    BY <1>1, <1>6 DEF FailSession
  <2>3. v \in ReaderRecs /\ v.pc = "release" /\ v.slot = s
    BY <1>1, UnmapChange DEF Places
  <2>4. \A x \in Readers : ~Reads(s, x)
    BY <1>2, <2>1 DEF Inv, Owned, Reads
  <2>5. hw[s] \subseteq slot[s].retained
    BY <1>2, <2>4 DEF Inv, Pinned
  <2> HIDE DEF v
  <2> QED BY <1>2, <1>3, <2>1, <2>2, <2>3, <2>5, InvGoesOn
<1> QED BY <1>4, <1>5, <1>6

(* The device and the controller touch neither owners nor pages. *)
LEMMA InvOutside ==
  ASSUME Inv, Cancel \/ \E s \in Slots : AsyncEvent(s) PROVE Inv'
PROOF
<1>1. CASE Cancel
  BY <1>1 DEF Cancel, Inv, Typed, Placed, Owned, Pinned, Reads, WorkConserving
<1>2. ASSUME NEW s \in Slots, AsyncEvent(s) PROVE Inv'
  <2>1. /\ slot' = [slot EXCEPT ![s].failed = TRUE]
        /\ UNCHANGED <<stopped, quarantined, hw, waiters, reader>>
    BY <1>2 DEF AsyncEvent
  <2>2. slot \in [Slots -> SlotRecs]
    BY DEF Inv, Typed
  <2>3. /\ slot' \in [Slots -> SlotRecs]
        /\ \A u \in Slots : slot'[u].busy = slot[u].busy /\ slot'[u].retained = slot[u].retained
    BY <2>1, <2>2 DEF SlotRecs
  <2>4. Typed' /\ Placed'
    BY <2>1, <2>3 DEF Inv, Typed, Placed
  <2>5. \A r \in Readers : reader[r].slot \in Slots \cup {None}
    BY DEF Inv, Typed, ReaderRecs
  <2>6. Owned'
    BY <2>1, <2>3, <2>5 DEF Inv, Owned
  <2>7. Pinned'
    BY <2>1, <2>3 DEF Inv, Pinned, Reads
  <2>8. WorkConserving'
    BY <2>1, <2>3 DEF Inv, WorkConserving
  <2> QED BY <2>4, <2>6, <2>7, <2>8 DEF Inv
<1> QED BY <1>1, <1>2

(* The end of a wait: the reader leaves the list and keeps the slot it was  *)
(* given, if any.                                                           *)
LEMMA InvTake ==
  ASSUME Inv, NEW r \in Readers, Take(r) PROVE Inv'
PROOF
<1> DEFINE v == IF reader[r].slot = None THEN Idle
                ELSE [Idle EXCEPT !.pc = IF stopped THEN "release" ELSE "held",
                                  !.slot = reader[r].slot]
<1>1. /\ reader[r].pc = "take" /\ waiters' = RemoveFirst(waiters, r)
      /\ reader' = [reader EXCEPT ![r] = v]
      /\ UNCHANGED <<stopped, quarantined, slot, hw>>
  BY DEF Take
<1>2. reader \in [Readers -> ReaderRecs] /\ reader[r] \in ReaderRecs
  BY DEF Inv, Typed
<1>3. /\ v \in ReaderRecs /\ v.slot = reader[r].slot /\ v.mapped = {} /\ v.ready = {}
      /\ IF v.slot = None THEN v.pc = "idle" ELSE v.pc \in {"held", "release"}
  BY <1>2 DEF ReaderRecs, Places, Idle
<1> HIDE DEF v
<1>4. \A x \in Readers : reader'[x] = IF x = r THEN v ELSE reader[x]
  BY <1>1, <1>2
<1>5. /\ waiters' \in Seq(Readers) /\ Once(waiters') /\ ~Queued(waiters', r)
      /\ \A x : Queued(waiters', x) => Queued(waiters, x)
      /\ waiters' # <<>> => waiters # <<>>
  <2>1. waiters \in Seq(Readers) /\ Once(waiters)
    BY DEF Inv, Typed, Placed
  <2> QED BY <1>1, <2>1, Unlinked
<1>6. Typed'
  BY <1>1, <1>2, <1>3, <1>5 DEF Inv, Typed
<1>7. Placed'
  BY <1>3, <1>4, <1>5 DEF Inv, Placed
<1>8. \A x \in Readers : reader'[x].slot = reader[x].slot
  BY <1>3, <1>4
<1>9. Owned'
  BY <1>1, <1>8 DEF Inv, Owned
<1>10. \A u \in Slots, x \in Readers :
          (Reads(u, x)' <=> Reads(u, x)) /\ (Reads(u, x) => reader'[x] = reader[x])
  BY <1>1, <1>3, <1>4 DEF Reads
<1>11. Pinned'
  BY <1>1, <1>10 DEF Inv, Pinned
<1>12. WorkConserving'
  BY <1>1, <1>5 DEF Inv, WorkConserving
<1> QED BY <1>6, <1>7, <1>9, <1>11, <1>12 DEF Inv

(* What a release does to the readers: r has nothing left, the first waiter *)
(* has the slot if it was handed on, and no other place or slot changes.    *)
LEMMA Released ==
  ASSUME Inv, NEW r \in Readers, Release(r), NEW x \in Readers
  PROVE  /\ reader'[x] \in ReaderRecs
         /\ x = r => reader'[x] = Idle
         /\ x # r => /\ reader'[x].pc = reader[x].pc
                     /\ reader'[x].mapped = reader[x].mapped
                     /\ reader'[x].ready = reader[x].ready
                     /\ reader'[x].slot = IF ~stopped /\ waiters # <<>> /\ x = Head(waiters)
                                          THEN reader[r].slot ELSE reader[x].slot
PROOF
<1> DEFINE h == ~stopped /\ waiters # <<>> /\ x = Head(waiters)
           t == IF h THEN reader[r].slot ELSE reader[x].slot
           b == (reader[x].pc = "wait")
           v == [[reader[x] EXCEPT !.slot = t] EXCEPT !.moved = b]
<1>1. reader[x] \in ReaderRecs /\ reader[r] \in ReaderRecs
  BY DEF Inv, Typed
<1>2. t \in Slots \cup {None} /\ b \in BOOLEAN
  BY <1>1 DEF ReaderRecs
<1>3. reader'[x] = IF x = r THEN Idle ELSE v
  BY <1>1 DEF Release, ReaderRecs
<1>4. Idle \in ReaderRecs
  BY DEF Idle, ReaderRecs, Places
<1>5. /\ v \in ReaderRecs /\ v.pc = reader[x].pc /\ v.mapped = reader[x].mapped
      /\ v.ready = reader[x].ready /\ v.slot = t
  <2> HIDE DEF t, b
  <2> QED BY <1>1, <1>2 DEF ReaderRecs
<1> HIDE DEF v
<1> QED BY <1>3, <1>4, <1>5

(* A release that hands the slot to the first waiter. *)
LEMMA InvHandover ==
  ASSUME Inv, NEW r \in Readers, Release(r), ~stopped, waiters # <<>> PROVE Inv'
PROOF
<1> DEFINE s == reader[r].slot
           h == Head(waiters)
<1>1. /\ reader[r].pc = "release" /\ slot' = slot /\ waiters' = Tail(waiters)
      /\ UNCHANGED <<stopped, quarantined, hw>> /\ DOMAIN reader' = Readers
      /\ reader' = [x \in Readers |-> reader'[x]]
  BY DEF Release
<1>2. waiters \in Seq(Readers) /\ Once(waiters)
  BY DEF Inv, Typed, Placed
<1>3. /\ h \in Readers /\ Tail(waiters) \in Seq(Readers) /\ h = waiters[1]
      /\ Len(Tail(waiters)) = Len(waiters) - 1 /\ Len(waiters) \in Nat /\ Len(waiters) # 0
      /\ \A i \in 1..(Len(waiters) - 1) : Tail(waiters)[i] = waiters[i + 1]
  BY <1>2, HeadTailProperties
<1>4. /\ Queued(waiters, h) /\ Once(Tail(waiters)) /\ ~Queued(Tail(waiters), h)
      /\ \A x \in Readers : Queued(Tail(waiters), x) => Queued(waiters, x)
  <2>1. Queued(waiters, h)
    BY <1>3 DEF Queued
  <2>2. Once(Tail(waiters)) /\ ~Queued(Tail(waiters), h)
    BY <1>2, <1>3 DEF Queued, Once
  <2>3. ASSUME NEW x \in Readers, NEW i \in 1..Len(Tail(waiters)), Tail(waiters)[i] = x
        PROVE  Queued(waiters, x)
    <3>1. i + 1 \in 1..Len(waiters) /\ waiters[i + 1] = x
      BY <1>3, <2>3
    <3> QED BY <3>1 DEF Queued
  <2> QED BY <2>1, <2>2, <2>3 DEF Queued
<1>5. h # r /\ reader[h].pc \in {"wait", "take"} /\ reader[h].slot = None
  BY <1>1, <1>3, <1>4 DEF Inv, Placed
<1>6. s \in Slots /\ s # None
  BY <1>1, SlotsAssumption DEF Inv, Typed, Placed, ReaderRecs
<1>7. ASSUME NEW x \in Readers
      PROVE  /\ reader'[x] \in ReaderRecs
             /\ reader'[x].slot = IF x = r THEN None ELSE IF x = h THEN s ELSE reader[x].slot
             /\ x # r => /\ reader'[x].pc = reader[x].pc
                         /\ reader'[x].mapped = reader[x].mapped
                         /\ reader'[x].ready = reader[x].ready
             /\ x = r => reader'[x].pc = "idle" /\ reader'[x].mapped = {} /\ reader'[x].ready = {}
  <2>1. Idle.slot = None /\ Idle.pc = "idle" /\ Idle.mapped = {} /\ Idle.ready = {}
    BY DEF Idle
  <2> QED BY <2>1, Released
<1> HIDE DEF h, s
<1>8. Typed'
  BY <1>1, <1>3, <1>7 DEF Inv, Typed
<1>9. Placed'
  BY <1>1, <1>4, <1>5, <1>6, <1>7 DEF Inv, Placed
<1>10. Owned'
  <2>1. \A x \in Readers : x # r => reader[x].slot # s
    BY <1>6 DEF Inv, Owned, s
  <2>2. slot[s].busy
    BY <1>6 DEF Inv, Owned, s
  <2>3. \A u \in Slots : slot[u].busy => \E x \in Readers : reader'[x].slot = u
    BY <1>3, <1>5, <1>7, SlotsAssumption DEF Inv, Owned, s
  <2>4. ASSUME NEW x \in Readers, reader'[x].slot # None PROVE slot[reader'[x].slot].busy
    <3>1. CASE x = h
      BY <3>1, <1>5, <1>7, <2>2
    <3>2. CASE x # h
      <4>1. x # r /\ reader'[x].slot = reader[x].slot
        BY <3>2, <1>7, <2>4
      <4> QED BY <4>1, <2>4 DEF Inv, Owned
    <3> QED BY <3>1, <3>2
  <2>5. ASSUME NEW x \in Readers, NEW y \in Readers,
               reader'[x].slot # None, reader'[x].slot = reader'[y].slot
        PROVE  x = y
    <3>1. x # r /\ y # r
      BY <1>7, <2>5
    <3>2. CASE x # h /\ y # h
      BY <1>7, <2>5, <3>1, <3>2 DEF Inv, Owned
    <3>3. CASE x = h \/ y = h
      BY <1>5, <1>7, <2>1, <2>5, <3>1, <3>3
    <3> QED BY <3>2, <3>3
  <2> QED BY <1>1, <2>3, <2>4, <2>5 DEF Owned
<1>11. Pinned'
  <2>1. \A u \in Slots, x \in Readers : Reads(u, x)' <=> Reads(u, x)
    BY <1>1, <1>5, <1>7 DEF Reads
  <2>2. \A u \in Slots, x \in Readers : Reads(u, x) => x # r
    BY <1>1 DEF Reads
  <2> QED BY <1>1, <1>7, <2>1, <2>2 DEF Inv, Pinned
<1>12. WorkConserving'
  BY <1>1 DEF Inv, WorkConserving
<1> QED BY <1>8, <1>9, <1>10, <1>11, <1>12 DEF Inv

(* A release that frees the slot. *)
LEMMA InvFree ==
  ASSUME Inv, NEW r \in Readers, Release(r), stopped \/ waiters = <<>> PROVE Inv'
PROOF
<1> DEFINE s == reader[r].slot
<1>1. /\ reader[r].pc = "release" /\ slot' = [slot EXCEPT ![s].busy = FALSE]
      /\ waiters' = waiters /\ UNCHANGED <<stopped, quarantined, hw>>
      /\ reader' = [x \in Readers |-> reader'[x]]
  BY DEF Release
<1>2. s \in Slots /\ s # None /\ slot \in [Slots -> SlotRecs]
  BY <1>1, SlotsAssumption DEF Inv, Typed, Placed, ReaderRecs
<1>3. ASSUME NEW x \in Readers
      PROVE  /\ reader'[x] \in ReaderRecs
             /\ reader'[x].slot = IF x = r THEN None ELSE reader[x].slot
             /\ x # r => /\ reader'[x].pc = reader[x].pc
                         /\ reader'[x].mapped = reader[x].mapped
                         /\ reader'[x].ready = reader[x].ready
             /\ x = r => reader'[x].pc = "idle" /\ reader'[x].mapped = {} /\ reader'[x].ready = {}
  <2>1. Idle.slot = None /\ Idle.pc = "idle" /\ Idle.mapped = {} /\ Idle.ready = {}
    BY DEF Idle
  <2> QED BY <2>1, Released
<1>4. slot' \in [Slots -> SlotRecs] /\ \A u \in Slots : slot'[u].retained = slot[u].retained
  BY <1>1, <1>2 DEF SlotRecs
<1>10. \A u \in Slots : slot'[u].busy <=> u # s /\ slot[u].busy
  BY <1>1, <1>2 DEF SlotRecs
<1>5. Typed'
  <2>1. reader' \in [Readers -> ReaderRecs]
    BY <1>1, <1>3
  <2>2. /\ stopped' = stopped /\ quarantined' = quarantined /\ hw' = hw /\ waiters' = waiters
    BY <1>1
  <2> QED BY <1>4, <2>1, <2>2 DEF Inv, Typed
<1> HIDE DEF s
<1>6. Placed'
  BY <1>1, <1>3 DEF Inv, Placed
<1>7. Owned'
  <2>1. \A x \in Readers : x # r => reader[x].slot # s
    BY <1>2 DEF Inv, Owned, s
  <2>2. \A x \in Readers : reader[x].slot \in Slots \cup {None}
    BY DEF Inv, Typed, ReaderRecs
  <2>3. ASSUME NEW x \in Readers, reader'[x].slot # None PROVE slot'[reader'[x].slot].busy
    <3>1. x # r /\ reader'[x].slot = reader[x].slot /\ reader[x].slot \in Slots
      BY <1>3, <2>2, <2>3
    <3>2. slot[reader[x].slot].busy
      BY <2>3, <3>1 DEF Inv, Owned
    <3> QED BY <1>10, <2>1, <3>1, <3>2
  <2>4. ASSUME NEW u \in Slots, slot'[u].busy PROVE \E x \in Readers : reader'[x].slot = u
    <3>1. u # s /\ slot[u].busy
      BY <1>10, <2>4
    <3>2. PICK x \in Readers : reader[x].slot = u
      BY <3>1 DEF Inv, Owned
    <3>3. x # r
      BY <3>1, <3>2 DEF s
    <3> QED BY <1>3, <3>2, <3>3
  <2>5. \A x, y \in Readers : reader'[x].slot # None /\ reader'[x].slot = reader'[y].slot => x = y
    BY <1>3 DEF Inv, Owned
  <2> QED BY <2>3, <2>4, <2>5 DEF Owned
<1>8. Pinned'
  <2>1. \A u \in Slots, x \in Readers : Reads(u, x)' <=> Reads(u, x)
    BY <1>1, <1>3 DEF Reads
  <2>2. \A u \in Slots, x \in Readers : Reads(u, x) => x # r
    BY <1>1 DEF Reads
  <2>3. hw' = hw
    BY <1>1
  <2>4. ASSUME NEW u \in Slots, \A x \in Readers : ~Reads(u, x)' PROVE hw'[u] \subseteq slot'[u].retained
    <3>1. hw[u] \subseteq slot[u].retained
      BY <2>1, <2>4 DEF Inv, Pinned
    <3> QED BY <1>4, <2>3, <3>1
  <2>5. ASSUME NEW u \in Slots, NEW x \in Readers, Reads(u, x)'
        PROVE  /\ hw'[u] \subseteq reader'[x].mapped
               /\ reader'[x].pc = "poll" => hw'[u] \cap reader'[x].ready = {}
    <3>1. Reads(u, x) /\ x # r
      BY <2>1, <2>2, <2>5
    <3>2. /\ hw[u] \subseteq reader[x].mapped
          /\ reader[x].pc = "poll" => hw[u] \cap reader[x].ready = {}
      BY <3>1 DEF Inv, Pinned
    <3> QED BY <1>3, <2>3, <3>1, <3>2
  <2> QED BY <2>4, <2>5 DEF Pinned
<1>9. WorkConserving'
  BY <1>1 DEF WorkConserving
<1> QED BY <1>5, <1>6, <1>7, <1>8, <1>9 DEF Inv

(* Every step keeps the invariant. *)
LEMMA InvStep == Inv /\ [Next]_vars => Inv'
PROOF
<1> SUFFICES ASSUME Inv, [Next]_vars PROVE Inv'
  OBVIOUS
<1>1. CASE UNCHANGED vars
  BY <1>1, InvStutter
<1>2. CASE Cancel \/ \E s \in Slots : AsyncEvent(s)
  BY <1>2, InvOutside
<1>3. ASSUME NEW r \in Readers, Acquire(r) \/ GiveUp(r) \/ ReaderStep(r) PROVE Inv'
  BY <1>3, InvAcquire, InvPlace, InvTake, InvPost, InvPageReady, InvTeardown, InvHandover,
     InvFree DEF ReaderStep
<1> QED BY <1>1, <1>2, <1>3 DEF Next

(* The invariant is one of the specification. *)
LEMMA InvHolds == Spec => []Inv
PROOF
  BY InvInit, InvStep, PTL DEF Spec

----------------------------------------------------------------------------
(* A busy slot has exactly one owner and a free slot none, however          *)
(* handovers race timeouts, signals and cancels (sbk_rdma.c, slot_lock).    *)
THEOREM OneOwner == Spec => []SlotExclusive
PROOF
<1>1. Inv => SlotExclusive
  <2> SUFFICES ASSUME Inv, NEW s \in Slots
               PROVE  Cardinality({r \in Readers : reader[r].slot = s}) = IF slot[s].busy THEN 1 ELSE 0
    BY DEF SlotExclusive
  <2>1. s # None
    BY SlotsAssumption
  <2>2. CASE slot[s].busy
    <3>1. PICK r \in Readers : reader[r].slot = s
      BY <2>2 DEF Inv, Owned
    <3>2. {x \in Readers : reader[x].slot = s} = {r}
      BY <2>1, <3>1 DEF Inv, Owned
    <3> QED BY <2>2, <3>2, FS_Singleton
  <2>3. CASE ~slot[s].busy
    <3>1. {x \in Readers : reader[x].slot = s} = {}
      BY <2>1, <2>3 DEF Inv, Owned
    <3> QED BY <2>3, <3>1, FS_EmptySet
  <2> QED BY <2>2, <2>3
<1> QED BY <1>1, InvHolds, PTL

(* Late DMA finds its page mapped or retained: what the device may still    *)
(* write to is never a page that has gone back (sbk_rdma.c,                 *)
(* sbk_rdma_read_reserved).                                                 *)
THEOREM DmaStaysFenced == Spec => []DmaFenced
PROOF
<1>1. Inv => DmaFenced
  <2> SUFFICES ASSUME Inv, NEW s \in Slots
               PROVE  hw[s] \subseteq slot[s].retained
                        \cup UNION {reader[r].mapped : r \in {x \in Readers : reader[x].slot = s}}
    BY DEF DmaFenced
  <2>1. CASE \A r \in Readers : ~Reads(s, r)
    BY <2>1 DEF Inv, Pinned
  <2>2. ASSUME NEW r \in Readers, Reads(s, r)
        PROVE  hw[s] \subseteq UNION {reader[x].mapped : x \in {y \in Readers : reader[y].slot = s}}
    BY <2>2 DEF Inv, Pinned, Reads
  <2> QED BY <2>1, <2>2
<1> QED BY <1>1, InvHolds, PTL

(* A running lane never leaves a slot free beside a waiter.                 *)
THEOREM NeverIdles == Spec => []WorkConserving
PROOF
<1>1. Inv => WorkConserving
  BY DEF Inv
<1> QED BY <1>1, InvHolds, PTL

(* Apart from Acquire and Release, no step gives anybody a slot. *)
LEMMA KeepsSlots ==
  ASSUME Inv, NEW r \in Readers,
         GiveUp(r) \/ (ReaderStep(r) /\ ~Release(r)),
         NEW x \in Readers, reader'[x].slot # None
  PROVE  reader[x].slot # None
PROOF
<1>1. reader \in [Readers -> ReaderRecs] /\ reader[x] \in ReaderRecs
  BY DEF Inv, Typed
<1>2. CASE GiveUp(r) \/ Awake(r) \/ WaitAgain(r) \/ NoPost(r) \/ PollFail(r) \/ Quiesce(r)
  BY <1>1, <1>2 DEF GiveUp, Awake, WaitAgain, NoPost, PollFail, Quiesce, Goto, ReaderRecs
<1>3. CASE Post(r) \/ Quarantine(r) \/ FailSession(r)
  BY <1>1, <1>3 DEF Post, Quarantine, FailSession, ReaderRecs
<1>4. ASSUME NEW i \in Batch, PageReady(r, i) PROVE reader[x].slot # None
  BY <1>1, <1>4 DEF PageReady, ReaderRecs
<1>5. CASE Take(r)
  BY <1>1, <1>5 DEF Take, Idle
<1> QED BY <1>2, <1>3, <1>4, <1>5 DEF ReaderStep

(* Nobody who waits is overtaken: whoever gets a slot while others wait is  *)
(* the first of them (sbk_acquire_slot and sbk_rdma_release).               *)
THEOREM FifoOrder == Spec => FifoGrant
PROOF
<1> DEFINE Grant == \A r \in Readers :
      reader[r].slot = None /\ reader'[r].slot # None /\ waiters # <<>> => r = Head(waiters)
<1>1. Inv /\ [Next]_vars => [Grant]_vars
  <2> SUFFICES ASSUME Inv, Next, NEW x \in Readers,
                      reader[x].slot = None, reader'[x].slot # None, waiters # <<>>
               PROVE  x = Head(waiters)
    OBVIOUS
  <2>1. reader \in [Readers -> ReaderRecs] /\ reader[x] \in ReaderRecs
    BY DEF Inv, Typed
  <2>2. CASE Cancel \/ \E s \in Slots : AsyncEvent(s)
    BY <2>2 DEF Cancel, AsyncEvent
  <2>3. ASSUME NEW r \in Readers, Acquire(r) PROVE FALSE
    <3>1. reader' = [reader EXCEPT ![r].pc = "wait"]
      BY <2>3 DEF Acquire, Goto
    <3> QED BY <2>1, <3>1 DEF ReaderRecs
  <2>4. ASSUME NEW r \in Readers, Release(r) PROVE x = Head(waiters)
    <3>1. Idle.slot = None
      BY DEF Idle
    <3> QED BY <2>4, <3>1, Released
  <2>5. ASSUME NEW r \in Readers, GiveUp(r) \/ (ReaderStep(r) /\ ~Release(r)) PROVE FALSE
    BY <2>5, KeepsSlots
  <2> QED BY <2>2, <2>3, <2>4, <2>5 DEF Next
<1> QED BY <1>1, InvHolds, PTL DEF Spec, FifoGrant
=============================================================================
