--------------------------- MODULE SbSchedProofs ---------------------------
(***************************************************************************)
(* Theorems about the SwiftBaton-U page scheduler: no page is lost, none   *)
(* is transferred twice, cells are exclusive, the completion counter is    *)
(* sound, and the scheduler implements PageHandoff.                        *)
(***************************************************************************)
EXTENDS SbSchedInv

----------------------------------------------------------------------------
(* No page is lost. *)
Located(p, t) == Publishing(p, t) \/ InRing(p, t) \/ Popped(p, t)

(* Publishing in one cell leaves every other job where it is, and puts the *)
(* publisher's own job into the ring.                                      *)
LEMMA LocateStore ==
  ASSUME TypeOK, RingInv, NEW r \in Requesters, Holds(r), NEW j, Store(r, j),
         \A s \in Requesters : s # r => req'[s] = req[s], clm' = clm,
         NEW p \in Pages, NEW t \in Tickets, Located(p, t),
         req[r].pc = "publish" =>
           j = [page |-> req[r].page, ticket |-> Token(req[r].word, req[r].lane)]
  PROVE  Located(p, t)'
<1> DEFINE l == t.st - 1
           mine == req[r].pos
<1>0. /\ l \in Lanes /\ prod \in [Lanes -> Nat] /\ cons \in [Lanes -> Nat]
      /\ req[r].lane \in Lanes /\ mine \in Nat /\ req[r].word \in Words
      /\ \A c \in Claimers : clm[c].lane \in Lanes /\ clm[c].pos \in Nat
      /\ seq \in [Lanes -> [0..Capacity - 1 -> Nat]]
      /\ job \in [Lanes -> [0..Capacity - 1 -> Jobs]]
  <2>1. l \in Lanes
    BY Consts DEF Tickets, QueuedStates
  <2> QED
    BY <2>1, Locals DEF TypeOK
<1>1. /\ prod' = prod /\ cons' = cons
      /\ \A k \in Lanes, n \in Nat : ~(k = req[r].lane /\ Cell(n) = Cell(mine)) =>
           seq'[k][Cell(n)] = seq[k][Cell(n)] /\ job'[k][Cell(n)] = job[k][Cell(n)]
      /\ seq'[req[r].lane][Cell(mine)] = mine + 1 /\ job'[req[r].lane][Cell(mine)] = j
  <2>1. /\ job' = [job EXCEPT ![req[r].lane] = [@ EXCEPT ![Cell(mine)] = j]]
        /\ seq' = [seq EXCEPT ![req[r].lane] = [@ EXCEPT ![Cell(mine)] = mine + 1]]
        /\ prod' = prod /\ cons' = cons
    BY DEF Store
  <2>2. Cell(mine) \in 0..Capacity - 1
    BY <1>0, CellType
  <2>3. \A k \in Lanes, n \in Nat : ~(k = req[r].lane /\ Cell(n) = Cell(mine)) =>
          seq'[k][Cell(n)] = seq[k][Cell(n)]
    BY <1>0, <2>1, <2>2, CellType
  <2>4. \A k \in Lanes, n \in Nat : ~(k = req[r].lane /\ Cell(n) = Cell(mine)) =>
          job'[k][Cell(n)] = job[k][Cell(n)]
    BY <1>0, <2>1, <2>2, CellType
  <2>5. seq'[req[r].lane][Cell(mine)] = mine + 1
    BY <1>0, <2>1, <2>2
  <2>6. job'[req[r].lane][Cell(mine)] = j
    BY <1>0, <2>1, <2>2
  <2> QED
    BY <2>1, <2>3, <2>4, <2>5, <2>6
<1>2. /\ cons[req[r].lane] <= mine /\ mine < prod[req[r].lane]
      /\ seq[req[r].lane][Cell(mine)] = mine
  BY DEF RingInv, ReservedOK
<1>3. ASSUME NEW n \in Nat, InCell(p, t, l, n) PROVE InCell(p, t, l, n)'
  <2>1. ~(l = req[r].lane /\ Cell(n) = Cell(mine))
    BY <1>0, <1>2, <1>3, CellNext DEF InCell
  <2> QED
    BY <1>0, <1>1, <1>3, <2>1 DEF InCell
<1>4. CASE Publishing(p, t)
  <2>1. PICK s \in Requesters : /\ req[s].pc = "publish" /\ req[s].page = p
                               /\ Token(req[s].word, req[s].lane) = t
    BY <1>4 DEF Publishing
  <2>2. CASE s # r
    BY <2>1, <2>2 DEF Located, Publishing
  <2>3. CASE s = r
    <3>1. req[r].lane = l
      BY <1>0, <2>1, <2>3, TokenType, Consts
    <3>2. PICK n \in Nat : n = mine
      BY <1>0
    <3>3. InCell(p, t, l, n)'
      BY <1>1, <2>1, <2>3, <3>1, <3>2 DEF InCell
    <3>4. n \in cons'[l]..prod'[l] - 1
      BY <1>0, <1>1, <1>2, <3>1, <3>2
    <3> QED
      BY <3>3, <3>4 DEF Located, InRing
  <2> QED
    BY <2>2, <2>3
<1>5. CASE InRing(p, t)
  <2>1. PICK n \in cons[l]..prod[l] - 1 : InCell(p, t, l, n)
    BY <1>5 DEF InRing
  <2>2. n \in Nat
    BY <1>0
  <2>3. InCell(p, t, l, n)'
    BY <1>3, <2>1, <2>2
  <2> QED
    BY <1>1, <2>3 DEF Located, InRing
<1>6. CASE Popped(p, t)
  <2>1. PICK c \in Claimers : /\ clm[c].lane = l
                             /\ \/ clm[c].pc = "read" /\ InCell(p, t, l, clm[c].pos)
                                \/ clm[c].pc = "cas" /\ clm[c].job = [page |-> p, ticket |-> t]
    BY <1>6 DEF Popped
  <2>2. InCell(p, t, l, clm[c].pos) => InCell(p, t, l, clm[c].pos)'
    BY <1>0, <1>3
  <2>3. Popped(p, t)'
    BY <2>1, <2>2 DEF Popped, InCell
  <2> QED
    BY <2>3 DEF Located
<1> QED
  BY <1>4, <1>5, <1>6 DEF Located

(* A pop moves the oldest job from the ring into the claim's hands. *)
LEMMA LocatePop ==
  ASSUME TypeOK, RingInv, NEW c \in Claimers, Pop(c),
         NEW p \in Pages, NEW t \in Tickets, Located(p, t)
  PROVE  Located(p, t)'
<1> DEFINE l == t.st - 1
<1>0. /\ l \in Lanes /\ prod \in [Lanes -> Nat] /\ cons \in [Lanes -> Nat] /\ clm[c].lane \in Lanes
      /\ clm \in [Claimers -> ClmType]
  <2>1. l \in Lanes
    BY Consts DEF Tickets, QueuedStates
  <2> QED
    BY <2>1, Locals DEF TypeOK, ClmType
<1>1. /\ cons' = [cons EXCEPT ![clm[c].lane] = cons[clm[c].lane] + 1]
      /\ prod' = prod /\ seq' = seq /\ req' = req /\ job' = job /\ clm[c].pc = "scan"
  BY DEF Pop
<1>2. /\ clm'[c].pc = "read" /\ clm'[c].lane = clm[c].lane /\ clm'[c].pos = cons[clm[c].lane]
      /\ \A d \in Claimers : d # c => clm'[d] = clm[d]
  BY <1>0 DEF Pop, ClmType
<1>3. \A n : InCell(p, t, l, n)' = InCell(p, t, l, n)
  BY <1>1 DEF InCell
<1>4. CASE Publishing(p, t)
  BY <1>1, <1>4 DEF Located, Publishing
<1>5. CASE InRing(p, t)
  <2>1. PICK n \in cons[l]..prod[l] - 1 : InCell(p, t, l, n)
    BY <1>5 DEF InRing
  <2>2. CASE n = cons[l] /\ l = clm[c].lane
    <3>1. Popped(p, t)'
      BY <1>2, <1>3, <2>1, <2>2 DEF Popped
    <3> QED
      BY <3>1 DEF Located
  <2>3. CASE ~(n = cons[l] /\ l = clm[c].lane)
    <3>1. n \in cons'[l]..prod'[l] - 1
      BY <1>0, <1>1, <2>1, <2>3
    <3>2. InRing(p, t)'
      BY <1>3, <2>1, <3>1 DEF InRing
    <3> QED
      BY <3>2 DEF Located
  <2> QED
    BY <2>2, <2>3
<1>6. CASE Popped(p, t)
  <2>1. PICK d \in Claimers : /\ clm[d].lane = l
                             /\ \/ clm[d].pc = "read" /\ InCell(p, t, l, clm[d].pos)
                                \/ clm[d].pc = "cas" /\ clm[d].job = [page |-> p, ticket |-> t]
    BY <1>6 DEF Popped
  <2>2. clm'[d] = clm[d]
    BY <1>1, <1>2, <2>1
  <2>3. Popped(p, t)'
    BY <1>3, <2>1, <2>2 DEF Popped
  <2> QED
    BY <2>3 DEF Located
<1> QED
  BY <1>4, <1>5, <1>6 DEF Located

(* Recycling a cell leaves every other job where it is; the reader keeps   *)
(* its own.                                                                *)
LEMMA LocateRead ==
  ASSUME TypeOK, RingInv, NEW c \in Claimers, Read(c),
         NEW p \in Pages, NEW t \in Tickets, Located(p, t)
  PROVE  Located(p, t)'
<1> DEFINE l == t.st - 1
           mine == clm[c].pos
<1>0. /\ l \in Lanes /\ prod \in [Lanes -> Nat] /\ cons \in [Lanes -> Nat]
      /\ clm[c].lane \in Lanes /\ mine \in Nat /\ clm \in [Claimers -> ClmType]
      /\ \A d \in Claimers : clm[d].pos \in Nat
      /\ seq \in [Lanes -> [0..Capacity - 1 -> Nat]]
      /\ job \in [Lanes -> [0..Capacity - 1 -> Jobs]]
  <2>1. l \in Lanes
    BY Consts DEF Tickets, QueuedStates
  <2> QED
    BY <2>1, Locals DEF TypeOK, ClmType
<1>1. /\ prod' = prod /\ cons' = cons /\ req' = req /\ clm[c].pc = "read"
      /\ \A k \in Lanes, n \in Nat : ~(k = clm[c].lane /\ Cell(n) = Cell(mine)) =>
           seq'[k][Cell(n)] = seq[k][Cell(n)] /\ job'[k][Cell(n)] = job[k][Cell(n)]
  <2>1. /\ job' = [job EXCEPT ![clm[c].lane] = [@ EXCEPT ![Cell(mine)] = Tombstone]]
        /\ seq' = [seq EXCEPT ![clm[c].lane] = [@ EXCEPT ![Cell(mine)] = mine + Capacity]]
        /\ prod' = prod /\ cons' = cons /\ req' = req /\ clm[c].pc = "read"
    BY DEF Read
  <2>2. Cell(mine) \in 0..Capacity - 1
    BY <1>0, CellType
  <2>3. \A k \in Lanes, n \in Nat : ~(k = clm[c].lane /\ Cell(n) = Cell(mine)) =>
          seq'[k][Cell(n)] = seq[k][Cell(n)]
    BY <1>0, <2>1, <2>2, CellType
  <2>4. \A k \in Lanes, n \in Nat : ~(k = clm[c].lane /\ Cell(n) = Cell(mine)) =>
          job'[k][Cell(n)] = job[k][Cell(n)]
    BY <1>0, <2>1, <2>2, CellType
  <2> QED
    BY <2>1, <2>3, <2>4
<1>2. /\ clm'[c].pc = "cas" /\ clm'[c].lane = clm[c].lane
      /\ clm'[c].job = job[clm[c].lane][Cell(mine)]
      /\ \A d \in Claimers : d # c => clm'[d] = clm[d]
  BY <1>0 DEF Read, ClmType
<1>3. mine < cons[clm[c].lane] /\ seq[clm[c].lane][Cell(mine)] = mine + 1
  BY <1>1 DEF RingInv, PoppedOK, Reads
<1>4. CASE Publishing(p, t)
  BY <1>1, <1>4 DEF Located, Publishing
<1>5. CASE InRing(p, t)
  <2>1. PICK n \in cons[l]..prod[l] - 1 : InCell(p, t, l, n)
    BY <1>5 DEF InRing
  <2>2. n \in Nat
    BY <1>0
  <2>3. ~(l = clm[c].lane /\ Cell(n) = Cell(mine))
    BY <1>0, <1>3, <2>1, <2>2 DEF InCell
  <2>4. InCell(p, t, l, n)'
    BY <1>0, <1>1, <2>1, <2>2, <2>3 DEF InCell
  <2> QED
    BY <1>1, <2>1, <2>4 DEF Located, InRing
<1>6. CASE Popped(p, t)
  <2>1. PICK d \in Claimers : /\ clm[d].lane = l
                             /\ \/ clm[d].pc = "read" /\ InCell(p, t, l, clm[d].pos)
                                \/ clm[d].pc = "cas" /\ clm[d].job = [page |-> p, ticket |-> t]
    BY <1>6 DEF Popped
  <2>2. CASE d = c
    <3>1. clm'[c].job = [page |-> p, ticket |-> t] /\ clm'[c].lane = l
      BY <1>1, <1>2, <2>1, <2>2 DEF InCell
    <3> QED
      BY <1>2, <3>1 DEF Located, Popped
  <2>3. CASE d # c /\ clm[d].pc = "read"
    <3>1. ~(l = clm[c].lane /\ Cell(clm[d].pos) = Cell(mine))
      BY <1>0, <1>1, <1>3, <2>1, <2>3 DEF InCell, RingInv, PoppedOnce, Reads
    <3>2. InCell(p, t, l, clm[d].pos)'
      <4>1. InCell(p, t, l, clm[d].pos) /\ clm'[d] = clm[d]
        BY <1>2, <2>1, <2>3
      <4> QED
        BY <1>0, <1>1, <3>1, <4>1 DEF InCell
    <3>3. Popped(p, t)'
      <4>1. clm'[d] = clm[d]
        BY <1>2, <2>3
      <4> QED
        BY <2>1, <2>3, <3>2, <4>1 DEF Popped, InCell
    <3> QED
      BY <3>3 DEF Located
  <2>4. CASE d # c /\ clm[d].pc = "cas"
    BY <1>2, <2>1, <2>4 DEF Located, Popped
  <2> QED
    BY <2>1, <2>2, <2>3, <2>4
<1> QED
  BY <1>4, <1>5, <1>6 DEF Located

(* A step that leaves the rings alone, and disturbs neither a publishing   *)
(* request nor a claim that holds this job, leaves the job located.        *)
LEMMA LocateFrame ==
  ASSUME NEW p \in Pages, NEW t \in Tickets, Located(p, t),
         prod' = prod, cons' = cons, seq' = seq, job' = job,
         \A r \in Requesters : req[r].pc = "publish" => req'[r] = req[r],
         \A c \in Claimers :
           \/ clm[c].pc = "read"
           \/ clm[c].pc = "cas" /\ clm[c].lane = t.st - 1 /\ clm[c].job = [page |-> p, ticket |-> t]
           => clm'[c] = clm[c]
  PROVE  Located(p, t)'
<1>1. CASE Publishing(p, t)
  BY <1>1 DEF Located, Publishing
<1>2. CASE InRing(p, t)
  BY <1>2 DEF Located, InRing, InCell
<1>3. CASE Popped(p, t)
  BY <1>3 DEF Located, Popped, InCell
<1> QED
  BY <1>1, <1>2, <1>3 DEF Located

(* Reserving a position only widens the window of the ring. *)
LEMMA LocateReserve ==
  ASSUME TypeOK, NEW r \in Requesters, Reserve(r),
         NEW p \in Pages, NEW t \in Tickets, Located(p, t)
  PROVE  Located(p, t)'
<1> DEFINE l == t.st - 1
<1>0. /\ l \in Lanes /\ prod \in [Lanes -> Nat] /\ cons \in [Lanes -> Nat] /\ req[r].lane \in Lanes
  <2>1. l \in Lanes
    BY Consts DEF Tickets, QueuedStates
  <2> QED
    BY <2>1, Locals DEF TypeOK
<1>1. /\ prod' = [prod EXCEPT ![req[r].lane] = prod[req[r].lane] + 1]
      /\ cons' = cons /\ seq' = seq /\ job' = job /\ clm' = clm /\ req[r].pc = "reserve"
  BY DEF Reserve
<1>2. \A s \in Requesters : s # r => req'[s] = req[s]
  BY OnlyOneMoves DEF RequesterStep
<1>3. CASE Publishing(p, t)
  BY <1>1, <1>2, <1>3 DEF Located, Publishing
<1>4. CASE InRing(p, t)
  <2>1. PICK n \in cons[l]..prod[l] - 1 : InCell(p, t, l, n)
    BY <1>4 DEF InRing
  <2>2. n \in cons'[l]..prod'[l] - 1
    BY <1>0, <1>1
  <2>3. InCell(p, t, l, n)'
    BY <1>1, <2>1 DEF InCell
  <2> QED
    BY <2>2, <2>3 DEF Located, InRing
<1>5. CASE Popped(p, t)
  BY <1>1, <1>5 DEF Located, Popped, InCell
<1> QED
  BY <1>3, <1>4, <1>5 DEF Located

(* Every step keeps the current ticket of every queued page located: the   *)
(* swap that makes a page queued happens with its cell already reserved,   *)
(* and a claim drops only tickets that are no longer current.              *)
LEMMA LostStep == TypeOK /\ RingInv /\ ReqInv /\ NoLostPage /\ [Next]_vars => NoLostPage'
<1> SUFFICES ASSUME TypeOK, RingInv, ReqInv, NoLostPage, [Next]_vars,
                    NEW p \in Pages, word'[p].st \in QueuedStates
    PROVE  \E t \in Tickets : t = word'[p] /\ Located(p, t)'
  BY DEF NoLostPage, Located
<1>0. /\ word \in [Pages -> Words] /\ req \in [Requesters -> ReqType] /\ clm \in [Claimers -> ClmType]
      /\ issued \subseteq [page : Pages, ticket : Tickets]
  BY DEF TypeOK, ReqType, ClmType
<1>1. word'[p] \in Tickets
  <2>1. word'[p] \in Words
    BY TypeStep DEF TypeOK
  <2> QED
    BY <2>1 DEF Words, Tickets
<1>2. ASSUME NEW r \in Requesters, RequestCas(r), word'[p] # word[p]
      PROVE  \E t \in Tickets : t = word'[p] /\ Located(p, t)'
  <2>1. req[r].page \in Pages
    BY <1>2 DEF ReqInv, ReqOK, RequestCas
  <2>2. p = req[r].page /\ word[p] = req[r].word /\ word'[p] = Token(word[p], req[r].lane)
    BY <1>0, <1>2, <2>1 DEF RequestCas
  <2>3. req' = [req EXCEPT ![r] = [@ EXCEPT !.pc = "publish"]]
    BY <1>2, <2>2 DEF RequestCas
  <2>4. /\ req'[r].pc = "publish" /\ req'[r].page = p /\ req'[r].word = word[p]
        /\ req'[r].lane = req[r].lane
    BY <1>0, <2>2, <2>3 DEF ReqType
  <2>5. PICK t \in Tickets : t = word'[p]
    BY <1>1
  <2>6. Publishing(p, t)'
    BY <2>2, <2>4, <2>5 DEF Publishing
  <2> QED
    BY <2>5, <2>6 DEF Located
<1>3. CASE word'[p] = word[p]
  <2>1. PICK t \in Tickets : t = word[p] /\ t = word'[p] /\ Located(p, t)
    BY <1>1, <1>3 DEF NoLostPage, Located
  <2>2. t.st \in QueuedStates
    BY DEF Tickets
  <2>3. ASSUME NEW r \in Requesters, NEW q \in Pages, NEW l \in Lanes, Request(r, q, l)
        PROVE  Located(p, t)'
    BY <1>0, <2>1, <2>3, LocateFrame DEF Request, ring
  <2>4. ASSUME NEW r \in Requesters, QueueFull(r) \/ RequestCas(r) PROVE Located(p, t)'
    <3>1. req[r].pc \in {"reserve", "cas"} /\ clm' = clm
      BY <2>4 DEF QueueFull, RequestCas
    <3>2. \A s \in Requesters : s # r => req'[s] = req[s]
      BY <2>4, OnlyOneMoves DEF RequesterStep
    <3> QED
      BY <2>1, <2>4, <3>1, <3>2, LocateFrame DEF QueueFull, RequestCas, ring
  <2>5. ASSUME NEW r \in Requesters, PublishJob(r) \/ PublishTombstone(r) PROVE Located(p, t)'
    <3>1. \A s \in Requesters : s # r => req'[s] = req[s]
      BY <2>5, OnlyOneMoves DEF RequesterStep
    <3>2. CASE PublishJob(r)
      BY <2>1, <3>1, <3>2, LocateStore DEF PublishJob, Holds
    <3>3. CASE PublishTombstone(r)
      BY <2>1, <3>1, <3>3, LocateStore DEF PublishTombstone, Holds
    <3> QED
      BY <2>5, <3>2, <3>3
  <2>6. ASSUME NEW c \in Claimers, Claim(c) \/ ScanNext(c) \/ ClaimCas(c) \/ ClaimStale(c)
        PROVE  Located(p, t)'
    <3>1. \A d \in Claimers : d # c => clm'[d] = clm[d]
      BY <2>6, OnlyOneMoves DEF ClaimerStep
    <3>2. /\ prod' = prod /\ cons' = cons /\ seq' = seq /\ job' = job /\ req' = req
          /\ clm[c].pc \in {"idle", "scan", "cas"}
      BY <2>6 DEF Claim, ScanNext, ClaimCas, ClaimStale, ring
    <3>3. ~(clm[c].pc = "cas" /\ clm[c].lane = t.st - 1 /\ clm[c].job = [page |-> p, ticket |-> t])
      <4> SUFFICES ASSUME clm[c].pc = "cas", clm[c].lane = t.st - 1,
                          clm[c].job = [page |-> p, ticket |-> t]
          PROVE FALSE
        OBVIOUS
      <4>1. clm[c].job.page = p /\ clm[c].job.ticket = t
        OBVIOUS
      <4>2. Fresh(clm[c].job, clm[c].lane)
        <5>1. t.st = clm[c].lane + 1
          BY <2>2 DEF QueuedStates
        <5> QED
          BY <2>1, <4>1, <5>1 DEF Fresh
      <4>3. ClaimCas(c)
        BY <2>6, <4>2 DEF Claim, ScanNext, ClaimStale
      <4>4. word'[p] = Active(t)
        BY <1>0, <4>1, <4>3 DEF ClaimCas
      <4>5. Active(t).st = t.st + 4
        BY DEF Active, Tickets
      <4>6. t.st = t.st + 4
        BY <2>1, <4>4, <4>5
      <4> QED
        BY <2>2, <4>6 DEF QueuedStates
    <3> QED
      BY <2>1, <3>1, <3>2, <3>3, LocateFrame
  <2>7. ASSUME NEW q \in Pages, SeedCommit(q) \/ Count(q) PROVE Located(p, t)'
    BY <2>1, <2>7, LocateFrame DEF SeedCommit, Count, ring
  <2>8. ASSUME NEW j \in issued, Finish(j, COMMITTED) \/ Finish(j, FAILED) PROVE Located(p, t)'
    BY <2>1, <2>8, LocateFrame DEF Finish, ring
  <2>9. CASE UNCHANGED vars
    BY <2>1, <2>9, LocateFrame DEF vars
  <2>10. Located(p, t)'
    BY <2>1, <2>3, <2>4, <2>5, <2>6, <2>7, <2>8, <2>9, LocateReserve, LocatePop, LocateRead,
       SchedAssumption DEF Next, RequesterStep, ClaimerStep
  <2> QED
    BY <2>1, <2>10
<1>4. CASE word'[p] # word[p]
  <2>1. ASSUME NEW q \in Pages, SeedCommit(q) PROVE FALSE
    BY <1>0, <1>4, <2>1 DEF SeedCommit, QueuedStates, COMMITTED
  <2>2. ASSUME NEW c \in Claimers, ClaimCas(c) PROVE FALSE
    <3>1. clm[c].job.page = p /\ word[p] = clm[c].job.ticket /\ word[p].st = clm[c].lane + 1
      BY <1>0, <1>4, <2>2 DEF ClaimCas, Fresh
    <3>2. word'[p] = Active(word[p]) /\ word[p] \in Words
      BY <1>0, <2>2, <3>1 DEF ClaimCas
    <3>3. word'[p].st = word[p].st + 4
      BY <3>2 DEF Active, Words
    <3>4. clm[c].lane \in {0, 1, 2}
      BY Locals, Consts
    <3> QED
      BY <3>1, <3>3, <3>4 DEF QueuedStates
  <2>3. ASSUME NEW j \in issued, NEW st \in {COMMITTED, FAILED}, Finish(j, st) PROVE FALSE
    <3>1. j.page = p /\ j.ticket \in Tickets
      BY <1>0, <1>4, <2>3 DEF Finish
    <3>2. word'[p] = [j.ticket EXCEPT !.st = st]
      BY <1>0, <2>3, <3>1 DEF Finish
    <3>3. word'[p].st = st
      BY <3>1, <3>2 DEF Tickets
    <3> QED
      BY <3>3 DEF QueuedStates, COMMITTED, FAILED
  <2>4. ASSUME NEW r \in Requesters, NEW q \in Pages, NEW l \in Lanes, Request(r, q, l) PROVE FALSE
    BY <1>4, <2>4 DEF Request
  <2>5. ASSUME NEW r \in Requesters, RequesterStep(r) PROVE RequestCas(r)
    BY <1>4, <2>5 DEF RequesterStep, Reserve, QueueFull, PublishJob, PublishTombstone
  <2>6. ASSUME NEW c \in Claimers, ClaimerStep(c) PROVE ClaimCas(c)
    BY <1>4, <2>6 DEF ClaimerStep, Claim, Pop, ScanNext, Read, ClaimStale
  <2>7. ASSUME NEW q \in Pages, Count(q) PROVE FALSE
    BY <1>4, <2>7 DEF Count
  <2>8. ~UNCHANGED vars
    BY <1>4 DEF vars
  <2>9. \E r \in Requesters : RequestCas(r)
    <3>1. ~ \E q \in Pages : SeedCommit(q) \/ Count(q)
      BY <2>1, <2>7
    <3>2. ~ \E r \in Requesters, q \in Pages : \E l \in Submits[r] : Request(r, q, l)
      BY <2>4, SchedAssumption
    <3>3. ~ \E c \in Claimers : ClaimerStep(c)
      BY <2>2, <2>6
    <3>4. ~ \E j \in issued : Finish(j, COMMITTED) \/ Finish(j, FAILED)
      BY <2>3
    <3> QED
      BY <2>5, <2>8, <3>1, <3>2, <3>3, <3>4 DEF Next
  <2> QED
    BY <1>2, <1>4, <2>9
<1> QED
  BY <1>3, <1>4

----------------------------------------------------------------------------
(* The completion counters. *)
(* A page that moves to COMMITTED is counted later: no other step changes  *)
(* the committed pages or those that await counting.                       *)
LEMMA CountFrame ==
  ASSUME CommittedSound, committed' = committed, uncounted' = uncounted,
         uncounted \subseteq Pages,
         \A p \in Pages : (word'[p].st = COMMITTED) <=> (word[p].st = COMMITTED)
  PROVE  CommittedSound'
<1>1. {p \in Pages : word'[p].st = COMMITTED} = {p \in Pages : word[p].st = COMMITTED}
  OBVIOUS
<1>2. {p \in uncounted : word'[p].st = COMMITTED} = {p \in uncounted : word[p].st = COMMITTED}
  OBVIOUS
<1> QED
  BY <1>1, <1>2 DEF CommittedSound

(* Committing one page adds it to both sets; failing one adds it to none. *)
LEMMA CountFinal ==
  ASSUME TypeOK, CommittedSound, NEW q \in Pages, NEW st \in {COMMITTED, FAILED},
         word[q].st \notin {COMMITTED, FAILED}, q \notin uncounted,
         word'[q].st = st, \A p \in Pages \ {q} : word'[p] = word[p],
         uncounted' = uncounted \cup {q}, committed' = committed
  PROVE  CommittedSound'
<1> DEFINE U == {p \in uncounted : word[p].st = COMMITTED}
           P == {p \in Pages : word[p].st = COMMITTED}
           V == {p \in uncounted \cup {q} : word'[p].st = COMMITTED}
           Q == {p \in Pages : word'[p].st = COMMITTED}
<1>1. /\ IsFiniteSet(P) /\ IsFiniteSet(U) /\ q \notin P /\ q \notin U
      /\ Cardinality(P) \in Nat /\ Cardinality(U) \in Nat
  BY SchedAssumption, FS_Subset, FS_CardinalityType DEF TypeOK
<1>2. committed + Cardinality(U) = Cardinality(P) /\ committed \in Nat
  BY DEF CommittedSound, TypeOK
<1>3. CASE st = COMMITTED
  <2>1. Q = P \cup {q} /\ V = U \cup {q}
    BY <1>3 DEF TypeOK
  <2>2. Cardinality(Q) = Cardinality(P) + 1 /\ Cardinality(V) = Cardinality(U) + 1
    BY <1>1, <2>1, FS_AddElement
  <2>3. committed + Cardinality(V) = Cardinality(Q)
    BY <1>1, <1>2, <2>2
  <2> QED
    BY <2>3 DEF CommittedSound
<1>4. CASE st = FAILED
  <2>1. word'[q].st # COMMITTED
    BY <1>4 DEF COMMITTED, FAILED
  <2>2. uncounted \subseteq Pages
    BY DEF TypeOK
  <2>3. Q = P
    BY <1>1, <2>1
  <2>4. V = U
    BY <1>1, <2>1, <2>2
  <2> QED
    BY <1>2, <2>3, <2>4 DEF CommittedSound
<1> QED
  BY <1>3, <1>4

(* The counter trails the committed pages by exactly those whose final     *)
(* swap has happened and whose fetch-and-add has not.                      *)
LEMMA CountStep ==
  TypeOK /\ ReqInv /\ WordInv /\ CommittedSound /\ [Next]_vars => CommittedSound'
<1> SUFFICES ASSUME TypeOK, ReqInv, WordInv, CommittedSound, [Next]_vars PROVE CommittedSound'
  OBVIOUS
<1>0. /\ word \in [Pages -> Words] /\ issued \subseteq [page : Pages, ticket : Tickets]
      /\ uncounted \subseteq Pages /\ committed \in Nat
  BY DEF TypeOK
<1>1. ASSUME NEW q \in Pages, SeedCommit(q) PROVE CommittedSound'
  <2>1. word[q].st = PRECOPY_PENDING /\ word'[q].st = COMMITTED
    BY <1>0, <1>1 DEF SeedCommit
  <2>2. word[q].st \notin {COMMITTED, FAILED} /\ q \notin uncounted
    BY <2>1 DEF WordInv, PRECOPY_PENDING, COMMITTED, FAILED
  <2>3. /\ \A p \in Pages \ {q} : word'[p] = word[p]
        /\ uncounted' = uncounted \cup {q} /\ committed' = committed
    BY <1>0, <1>1 DEF SeedCommit
  <2> QED
    BY <2>1, <2>2, <2>3, CountFinal
<1>2. ASSUME NEW j \in issued, NEW st \in {COMMITTED, FAILED}, Finish(j, st) PROVE CommittedSound'
  <2>1. j.page \in Pages /\ j.ticket \in Tickets
    BY <1>0
  <2>2. /\ word[j.page] = Active(j.ticket) /\ word'[j.page] = [j.ticket EXCEPT !.st = st]
        /\ \A p \in Pages \ {j.page} : word'[p] = word[p]
        /\ uncounted' = uncounted \cup {j.page} /\ committed' = committed
    BY <1>0, <1>2, <2>1 DEF Finish
  <2>3. word'[j.page].st = st /\ word[j.page].st = j.ticket.st + 4 /\ j.ticket.st \in QueuedStates
    BY <2>1, <2>2 DEF Active, Tickets
  <2>4. word[j.page].st \notin {COMMITTED, FAILED}
    BY <2>3 DEF QueuedStates, COMMITTED, FAILED
  <2>5. j.page \notin uncounted
    BY <2>4 DEF WordInv
  <2> QED
    BY <2>1, <2>2, <2>3, <2>4, <2>5, CountFinal
<1>3. ASSUME NEW q \in Pages, Count(q) PROVE CommittedSound'
  <2> DEFINE U == {p \in uncounted : word[p].st = COMMITTED}
             V == {p \in uncounted \ {q} : word[p].st = COMMITTED}
             P == {p \in Pages : word[p].st = COMMITTED}
  <2>1. /\ q \in uncounted /\ word' = word /\ uncounted' = uncounted \ {q}
        /\ committed' = IF word[q].st = COMMITTED THEN committed + 1 ELSE committed
    BY <1>3 DEF Count
  <2>2. IsFiniteSet(P) /\ IsFiniteSet(U) /\ Cardinality(P) \in Nat /\ Cardinality(U) \in Nat
    BY <1>0, SchedAssumption, FS_Subset, FS_CardinalityType
  <2>3. committed + Cardinality(U) = Cardinality(P)
    BY DEF CommittedSound
  <2>4. committed' + Cardinality(V) = Cardinality(P)
    <3>1. CASE word[q].st = COMMITTED
      <4>1. V = U \ {q} /\ q \in U
        BY <2>1, <3>1
      <4>2. Cardinality(V) = Cardinality(U) - 1
        BY <2>2, <4>1, FS_RemoveElement
      <4> QED
        BY <1>0, <2>1, <2>2, <2>3, <3>1, <4>2
    <3>2. CASE word[q].st # COMMITTED
      <4>1. V = U
        BY <3>2
      <4> QED
        BY <2>1, <2>3, <3>2, <4>1
    <3> QED
      BY <3>1, <3>2
  <2> QED
    BY <2>1, <2>4 DEF CommittedSound
<1>4. ASSUME NEW r \in Requesters, NEW p \in Pages, NEW l \in Lanes, Request(r, p, l)
      PROVE  CommittedSound'
  BY <1>0, <1>4, CountFrame DEF Request
<1>5. ASSUME NEW r \in Requesters, RequesterStep(r) PROVE CommittedSound'
  <2>1. committed' = committed /\ uncounted' = uncounted
    BY <1>5 DEF RequesterStep, Reserve, QueueFull, RequestCas, PublishJob, PublishTombstone
  <2>2. ASSUME NEW p \in Pages PROVE (word'[p].st = COMMITTED) <=> (word[p].st = COMMITTED)
    <3>1. CASE word'[p] = word[p]
      BY <3>1
    <3>2. CASE word'[p] # word[p]
      <4>1. RequestCas(r)
        BY <1>5, <3>2 DEF RequesterStep, Reserve, QueueFull, PublishJob, PublishTombstone
      <4>2. req[r].page \in Pages
        BY <4>1 DEF ReqInv, ReqOK, RequestCas
      <4>3. word'[p] = Token(word[p], req[r].lane) /\ word[p] \in Words
        BY <1>0, <3>2, <4>1, <4>2 DEF RequestCas
      <4>4. word'[p].st \in QueuedStates
        BY <4>3, Locals, TokenType
      <4>5. Moves(word[p], word'[p])
        BY <3>2, WordMoves
      <4> QED
        BY <4>4, <4>5 DEF Moves, QueuedStates, ActiveStates, IDLE, COMMITTED, FAILED, PRECOPY_PENDING
    <3> QED
      BY <3>1, <3>2
  <2> QED
    BY <1>0, <2>1, <2>2, CountFrame
<1>6. ASSUME NEW c \in Claimers, ClaimerStep(c) PROVE CommittedSound'
  <2>1. committed' = committed /\ uncounted' = uncounted
    BY <1>6 DEF ClaimerStep, Claim, Pop, ScanNext, Read, ClaimCas, ClaimStale
  <2>2. ASSUME NEW p \in Pages PROVE (word'[p].st = COMMITTED) <=> (word[p].st = COMMITTED)
    <3>1. CASE word'[p] = word[p]
      BY <3>1
    <3>2. CASE word'[p] # word[p]
      <4>1. ClaimCas(c)
        BY <1>6, <3>2 DEF ClaimerStep, Claim, Pop, ScanNext, Read, ClaimStale
      <4>2. clm[c].job.page = p /\ word[p] = clm[c].job.ticket /\ word[p].st = clm[c].lane + 1
        BY <1>0, <3>2, <4>1 DEF ClaimCas, Fresh
      <4>3. word'[p] = Active(word[p]) /\ word[p] \in Words
        BY <1>0, <4>1, <4>2 DEF ClaimCas
      <4>4. word'[p].st = word[p].st + 4
        BY <4>3 DEF Active, Words
      <4>5. clm[c].lane \in {0, 1, 2}
        BY Locals, Consts
      <4> QED
        BY <4>2, <4>4, <4>5 DEF COMMITTED
    <3> QED
      BY <3>1, <3>2
  <2> QED
    BY <1>0, <2>1, <2>2, CountFrame
<1>7. CASE UNCHANGED vars
  BY <1>0, <1>7, CountFrame DEF vars
<1> QED
  BY <1>1, <1>2, <1>3, <1>4, <1>5, <1>6, <1>7, SchedAssumption DEF Next

----------------------------------------------------------------------------
(* The theorems. *)

(* The zeroed mapping with its seeded pages satisfies the invariant. *)
LEMMA InitInv == Init => IInv /\ CommittedSound
<1> SUFFICES ASSUME Init PROVE IInv /\ CommittedSound
  OBVIOUS
<1>1. TypeOK
  BY TypeInit
<1>2. \A r \in Requesters : req[r] = ReqIdle /\ req[r].pc = "idle"
  BY Consts DEF Init
<1>3. \A c \in Claimers : clm[c] = ClmIdle /\ clm[c].pc = "idle"
  BY Consts DEF Init
<1>4. \A p \in Pages : word[p].st \in {IDLE, PRECOPY_PENDING}
  BY DEF Init
<1>5. RingInv
  <2>1. Window
    BY DEF Init, Window
  <2>2. Unreserved
    <3> SUFFICES ASSUME NEW l \in Lanes, NEW pos \in Nat PROVE seq[l][Cell(pos)] <= pos
      BY DEF Unreserved
    <3>1. seq[l][Cell(pos)] = Cell(pos)
      BY CellType DEF Init
    <3>2. Capacity \in Nat /\ Capacity > 0
      BY SchedAssumption
    <3>3. /\ pos \div Capacity \in Nat /\ Cell(pos) \in Int
          /\ pos = Capacity * (pos \div Capacity) + Cell(pos)
      BY <3>2, DivMod DEF Cell
    <3>4. Capacity * (pos \div Capacity) >= 0 /\ Capacity * (pos \div Capacity) \in Int
      BY <3>2, <3>3
    <3> QED
      BY <3>1, <3>3, <3>4
  <2> QED
    BY <1>2, <1>3, <2>1, <2>2
       DEF RingInv, ReservedOK, ReservedOnce, PoppedOK, PoppedOnce, Holds, Reads
<1>6. ReqInv
  BY <1>2 DEF ReqInv, ReqOK
<1>7. WordInv /\ TransferredOnce
  BY DEF Init, WordInv, TransferredOnce
<1>8. NoLostPage
  BY <1>4 DEF NoLostPage, QueuedStates, IDLE, PRECOPY_PENDING
<1>9. CommittedSound
  <2>1. /\ {p \in Pages : word[p].st = COMMITTED} = {}
        /\ {p \in uncounted : word[p].st = COMMITTED} = {}
    BY <1>4 DEF Init, IDLE, PRECOPY_PENDING, COMMITTED
  <2>2. Cardinality({}) = 0
    BY FS_EmptySet
  <2>3. committed = 0
    BY DEF Init
  <2> QED
    BY <2>1, <2>2, <2>3 DEF CommittedSound
<1> QED
  BY <1>1, <1>5, <1>6, <1>7, <1>8, <1>9 DEF IInv

(* Every reachable state of the scheduler satisfies the invariant. *)
LEMMA Invariance == Spec => [](IInv /\ CommittedSound)
<1>1. IInv /\ CommittedSound /\ [Next]_vars => (IInv /\ CommittedSound)'
  <2> SUFFICES ASSUME IInv, CommittedSound, [Next]_vars PROVE (IInv /\ CommittedSound)'
    OBVIOUS
  <2>1. TypeOK /\ RingInv /\ ReqInv /\ WordInv /\ NoLostPage /\ TransferredOnce
    BY DEF IInv
  <2>2. TypeOK' /\ RingInv' /\ ReqInv' /\ WordInv' /\ NoLostPage' /\ TransferredOnce'
    BY <2>1, TypeStep, RingStep, ReqStep, WordStep, LostStep
  <2>3. CommittedSound'
    BY <2>1, CountStep
  <2> QED
    BY <2>2, <2>3 DEF IInv
<1> QED
  BY <1>1, InitInv, PTL DEF Spec

(* The scheduler's state keeps its type, for any number of pages and       *)
(* threads and any ring capacity of at least two.                          *)
THEOREM TypeCorrect == Spec => []TypeOK
<1>1. IInv => TypeOK
  BY DEF IInv
<1> QED
  BY <1>1, Invariance, PTL

(* No queued page is ever lost: its ticket is being published, in its ring *)
(* or in the hands of a claim (sb_sched_request reserves before it swaps). *)
THEOREM PagesNotLost == Spec => []NoLostPage
<1>1. IInv => NoLostPage
  BY DEF IInv
<1> QED
  BY <1>1, Invariance, PTL

(* sb_sched_claim never hands the same page out twice. *)
THEOREM PagesTransferredOnce == Spec => []TransferredOnce
<1>1. IInv => TransferredOnce
  BY DEF IInv
<1> QED
  BY <1>1, Invariance, PTL

(* No two threads are ever inside the same ring cell (reserve and pop). *)
THEOREM CellsExclusive == Spec => []CellExclusive
<1>1. IInv => CellExclusive
  <2> SUFFICES ASSUME IInv, NEW l \in Lanes, NEW i \in 0..Capacity - 1,
                      NEW h \in Held(l, i), NEW k \in Held(l, i)
      PROVE  h = k
    BY DEF CellExclusive
  <2>0. TypeOK /\ RingInv
    BY DEF IInv
  <2> DEFINE R(r) == Holds(r) /\ req[r].lane = l /\ Cell(req[r].pos) = Cell(i)
             C(c) == Reads(c) /\ clm[c].lane = l /\ Cell(clm[c].pos) = Cell(i)
  <2>1. \A r \in Requesters : R(r) => seq[l][Cell(i)] = req[r].pos /\ req[r].pos \in Nat
    BY <2>0, Locals DEF RingInv, ReservedOK
  <2>2. \A c \in Claimers : C(c) => seq[l][Cell(i)] = clm[c].pos + 1 /\ clm[c].pos \in Nat
    BY <2>0, Locals DEF RingInv, PoppedOK
  <2>3. \A r, s \in Requesters : R(r) /\ R(s) => r = s
    BY <2>0, <2>1 DEF RingInv, ReservedOnce
  <2>4. \A c, d \in Claimers : C(c) /\ C(d) => c = d
    BY <2>0, <2>2 DEF RingInv, PoppedOnce
  <2>5. \A r \in Requesters, c \in Claimers : ~(R(r) /\ C(c))
    BY <2>1, <2>2, CellNext
  <2>6. /\ (\E r \in Requesters : R(r) /\ h = <<"req", r>>) \/ (\E c \in Claimers : C(c) /\ h = <<"clm", c>>)
        /\ (\E r \in Requesters : R(r) /\ k = <<"req", r>>) \/ (\E c \in Claimers : C(c) /\ k = <<"clm", c>>)
    BY DEF Held, Holds, Reads
  <2> HIDE DEF R, C
  <2> QED
    BY <2>3, <2>4, <2>5, <2>6
<1> QED
  BY <1>1, Invariance, PTL

(* stats.committed never runs ahead of the committed pages. *)
THEOREM CountersSound == Spec => []CommittedSound
  BY Invariance, PTL

----------------------------------------------------------------------------
(* The refinement of PageHandoff. *)

(* One step of the scheduler moves the word of one page at most. *)
LEMMA OnePage ==
  ASSUME TypeOK, ReqInv, [Next]_vars
  PROVE  \/ word' = word
         \/ \E p \in Pages : \A q \in Pages \ {p} : word'[q] = word[q]
<1>0. word \in [Pages -> Words] /\ issued \subseteq [page : Pages, ticket : Tickets]
  BY DEF TypeOK
<1>1. ASSUME NEW p \in Pages, SeedCommit(p) PROVE \A q \in Pages \ {p} : word'[q] = word[q]
  BY <1>0, <1>1 DEF SeedCommit
<1>2. ASSUME NEW r \in Requesters, RequestCas(r)
      PROVE  req[r].page \in Pages /\ \A q \in Pages \ {req[r].page} : word'[q] = word[q]
  BY <1>0, <1>2 DEF RequestCas, ReqInv, ReqOK
<1>3. ASSUME NEW c \in Claimers, ClaimCas(c)
      PROVE  clm[c].job.page \in Pages /\ \A q \in Pages \ {clm[c].job.page} : word'[q] = word[q]
  BY <1>0, <1>3 DEF ClaimCas, Fresh
<1>4. ASSUME NEW j \in issued, NEW st \in {COMMITTED, FAILED}, Finish(j, st)
      PROVE  j.page \in Pages /\ \A q \in Pages \ {j.page} : word'[q] = word[q]
  BY <1>0, <1>4 DEF Finish
<1>5. ASSUME NEW r \in Requesters, NEW q \in Pages, NEW l \in Lanes, Request(r, q, l) PROVE word' = word
  BY <1>5 DEF Request
<1>6. ASSUME NEW r \in Requesters, RequesterStep(r), ~RequestCas(r) PROVE word' = word
  BY <1>6 DEF RequesterStep, Reserve, QueueFull, PublishJob, PublishTombstone
<1>7. ASSUME NEW c \in Claimers, ClaimerStep(c), ~ClaimCas(c) PROVE word' = word
  BY <1>7 DEF ClaimerStep, Claim, Pop, ScanNext, Read, ClaimStale
<1>8. ASSUME NEW q \in Pages, Count(q) PROVE word' = word
  BY <1>8 DEF Count
<1>9. CASE UNCHANGED vars
  BY <1>9 DEF vars
<1> QED
  BY <1>1, <1>2, <1>3, <1>4, <1>5, <1>6, <1>7, <1>8, <1>9, SchedAssumption DEF Next

(* The status a word stands for. *)
LEMMA StatusOf ==
  ASSUME NEW w \in Words
  PROVE  /\ w.st = IDLE => Status(w) = "idle"
         /\ w.st = PRECOPY_PENDING => Status(w) = "reserved"
         /\ w.st \in QueuedStates => Status(w) = "wanted"
         /\ w.st \in ActiveStates => Status(w) = "owned"
         /\ w.st = COMMITTED => Status(w) = "committed"
         /\ w.st = FAILED => Status(w) = "failed"
  BY DEF Status, IDLE, PRECOPY_PENDING, QueuedStates, ActiveStates, COMMITTED, FAILED

(* The lock-free scheduler implements the page hand-off it promises: every *)
(* step moves one page along idle, wanted, owned, committed or failed, or  *)
(* changes nothing a caller can see.                                       *)
THEOREM RefinesHandoff == Spec => Handoff!Spec
<1> DEFINE status == [p \in Pages |-> Status(word[p])]
<1>1. Init => Handoff!Init
  <2> SUFFICES ASSUME Init PROVE status \in [Pages -> {"idle", "reserved"}]
    BY DEF Handoff!Init
  <2>1. \A p \in Pages : word[p] \in Words
    BY TypeInit DEF TypeOK
  <2>2. \A p \in Pages : word[p].st \in {IDLE, PRECOPY_PENDING}
    BY DEF Init
  <2> QED
    BY <2>1, <2>2, StatusOf
<1>2. IInv /\ IInv' /\ [Next]_vars => [Handoff!Next]_status
  <2> SUFFICES ASSUME IInv, IInv', [Next]_vars, status' # status PROVE Handoff!Next
    OBVIOUS
  <2>1. TypeOK /\ ReqInv /\ word \in [Pages -> Words] /\ word' \in [Pages -> Words]
    BY DEF IInv, TypeOK
  <2>2. PICK p \in Pages : \A q \in Pages \ {p} : word'[q] = word[q]
    BY <2>1, OnePage
  <2>3. status' = [status EXCEPT ![p] = Status(word'[p])]
    BY <2>2
  <2>4. Status(word'[p]) # Status(word[p]) /\ status[p] = Status(word[p])
    BY <2>3
  <2>5. Moves(word[p], word'[p])
    BY <2>1, <2>4, WordMoves
  <2>6. word[p] \in Words /\ word'[p] \in Words
    BY <2>1
  <2>7. \/ status[p] = "idle" /\ Status(word'[p]) = "wanted"
        \/ status[p] = "wanted" /\ Status(word'[p]) = "owned"
        \/ status[p] \in {"owned", "reserved"} /\ Status(word'[p]) = "committed"
        \/ status[p] = "owned" /\ Status(word'[p]) = "failed"
    <3>1. CASE word[p].st = PRECOPY_PENDING /\ word'[p].st = COMMITTED
      BY <2>4, <2>6, <3>1, StatusOf
    <3>2. CASE word[p].st \in {IDLE} \cup QueuedStates /\ word'[p].st \in QueuedStates
      BY <2>4, <2>6, <3>2, StatusOf
    <3>3. CASE word[p].st \in QueuedStates /\ word'[p].st = word[p].st + 4
      <4>1. word'[p].st \in ActiveStates
        BY <3>3 DEF QueuedStates, ActiveStates
      <4> QED
        BY <2>4, <2>6, <3>3, <4>1, StatusOf
    <3>4. CASE word[p].st \in ActiveStates /\ word'[p].st \in {COMMITTED, FAILED}
      BY <2>4, <2>6, <3>4, StatusOf
    <3> QED
      BY <2>5, <3>1, <3>2, <3>3, <3>4 DEF Moves
  <2> HIDE DEF status
  <2>8. \/ Handoff!Want(p) \/ Handoff!Own(p) \/ Handoff!Commit(p) \/ Handoff!Fail(p)
    <3> USE DEF status
    <3> QED
      BY <2>3, <2>7 DEF Handoff!Want, Handoff!Own, Handoff!Commit, Handoff!Fail, Handoff!Move
  <2> QED
    BY <2>8 DEF Handoff!Next
<1>3. Spec => []IInv
  BY Invariance, PTL
<1> HIDE DEF status
<1> QED
  BY <1>1, <1>2, <1>3, PTL DEF Spec, Handoff!Spec, status
============================================================================
