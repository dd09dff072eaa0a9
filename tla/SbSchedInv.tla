---------------------------- MODULE SbSchedInv -----------------------------
(***************************************************************************)
(* The inductive invariant of the SwiftBaton-U page scheduler, for any set *)
(* of pages, any ring capacity of at least two cells and any threads, and  *)
(* the proofs that its parts about types, words and rings are inductive.   *)
(***************************************************************************)
EXTENDS SbSched, TLAPS, FiniteSetTheorems

----------------------------------------------------------------------------
(* Ring arithmetic. *)

(* Division with remainder, in the form the provers can use. *)
LEMMA DivMod ==
  ASSUME NEW n \in Nat, n > 0, NEW a \in Nat
  PROVE  a \div n \in Nat /\ a % n \in 0..n - 1 /\ a = n * (a \div n) + (a % n)
  OBVIOUS

(* Two multiples of n in strict order are at least n apart. *)
LEMMA Multiples ==
  ASSUME NEW n \in Nat, n > 0, NEW x \in Nat, NEW y \in Nat, n * x < n * y
  PROVE  n * y >= n * x + n
<1>1. x < y
  <2>1. SUFFICES ASSUME y <= x PROVE FALSE
    OBVIOUS
  <2>2. PICK d \in Nat : x = y + d
    BY <2>1
  <2>3. n * x = n * y + n * d
    BY <2>2
  <2>4. n * d >= 0 /\ n * x \in Int /\ n * y \in Int /\ n * d \in Int
    OBVIOUS
  <2> QED
    BY <2>3, <2>4
<1>2. PICK d \in Nat : y = x + 1 + d
  BY <1>1, y - x - 1 \in Nat
<1>3. n * y = n * x + n + n * d
  BY <1>2
<1>4. n * d >= 0 /\ n * x \in Int /\ n * d \in Int
  OBVIOUS
<1> QED
  BY <1>3, <1>4

(* A position's cell (cell_at) lies inside the ring. *)
LEMMA CellType == \A pos \in Nat : Cell(pos) \in 0..Capacity - 1
  BY SchedAssumption DEF Cell

(* Two positions that share a cell are a full lap apart. *)
LEMMA CellLap ==
  ASSUME NEW a \in Nat, NEW b \in Nat, a < b, Cell(a) = Cell(b)
  PROVE  b >= a + Capacity
<1> DEFINE n == Capacity
<1>0. n \in Nat /\ n > 0
  BY SchedAssumption
<1>1. a = n * (a \div n) + (a % n) /\ b = n * (b \div n) + (b % n)
  BY <1>0, DivMod
<1>2. /\ a \div n \in Nat /\ b \div n \in Nat /\ a % n \in Int
      /\ n * (a \div n) \in Int /\ n * (b \div n) \in Int
  BY <1>0, DivMod
<1>3. n * (a \div n) < n * (b \div n)
  BY <1>1, <1>2 DEF Cell
<1>4. n * (b \div n) >= n * (a \div n) + n
  BY <1>0, <1>2, <1>3, Multiples
<1> QED
  BY <1>0, <1>1, <1>2, <1>4 DEF Cell

(* Successive positions use different cells: a cell about to be filled is  *)
(* never mistaken for one just published.                                  *)
LEMMA CellNext == \A a \in Nat : Cell(a) # Cell(a + 1)
  BY CellLap, SchedAssumption

----------------------------------------------------------------------------
(* The inductive invariant. *)

Holds(r) == req[r].pc \in {"cas", "publish", "tombstone"}
Reads(c) == clm[c].pc = "read"

(* Consumers never overtake producers, and no cell of a position not yet   *)
(* reserved carries a published number.                                    *)
Window == \A l \in Lanes : cons[l] <= prod[l]
Unreserved == \A l \in Lanes : \A pos \in Nat : pos >= prod[l] => seq[l][Cell(pos)] <= pos

(* A reserved position lies in the window and its cell still carries the   *)
(* position itself; one request at most holds it.                          *)
ReservedOK ==
  \A r \in Requesters : Holds(r) =>
    /\ cons[req[r].lane] <= req[r].pos /\ req[r].pos < prod[req[r].lane]
    /\ seq[req[r].lane][Cell(req[r].pos)] = req[r].pos
ReservedOnce ==
  \A r, s \in Requesters :
    Holds(r) /\ Holds(s) /\ req[r].lane = req[s].lane /\ req[r].pos = req[s].pos => r = s

(* A popped position is behind the window and its cell still carries the   *)
(* published number; one claim at most holds it.                           *)
PoppedOK ==
  \A c \in Claimers : Reads(c) =>
    /\ clm[c].pos < cons[clm[c].lane]
    /\ seq[clm[c].lane][Cell(clm[c].pos)] = clm[c].pos + 1
PoppedOnce ==
  \A c, d \in Claimers :
    Reads(c) /\ Reads(d) /\ clm[c].lane = clm[d].lane /\ clm[c].pos = clm[d].pos => c = d

RingInv == Window /\ Unreserved /\ ReservedOK /\ ReservedOnce /\ PoppedOK /\ PoppedOnce

(* A request past its load names a page, and carries a word it may raise. *)
ReqOK(q) ==
  /\ q.pc # "idle" => q.page \in Pages
  /\ q.pc \in {"reserve", "cas"} => Wants(q.word, q.lane)
ReqInv == \A r \in Requesters : ReqOK(req[r])

(* A page that was handed out is owned or final; a page that waits to be   *)
(* counted is final.                                                       *)
WordInv ==
  /\ \A j \in issued : word[j.page].st \in ActiveStates \cup {COMMITTED, FAILED}
  /\ \A p \in uncounted : word[p].st \in {COMMITTED, FAILED}

IInv == TypeOK /\ RingInv /\ ReqInv /\ WordInv /\ NoLostPage /\ TransferredOnce

ReqType == [pc : {"idle", "reserve", "cas", "publish", "tombstone"},
            page : Pages \cup {NoPage}, lane : Lanes, word : Words, pos : Nat]
ClmType == [pc : {"idle", "scan", "read", "cas"}, lane : Lanes, pos : Nat,
            job : Jobs, tries : Nat]

(* The constants of the types: lanes, the zero word, tombstones, idle threads. *)
LEMMA Consts ==
  /\ Lanes = {0, 1, 2}
  /\ Zero \in Words /\ Tombstone \in Jobs
  /\ ReqIdle \in ReqType /\ ReqIdle.pc = "idle"
  /\ ClmIdle \in ClmType /\ ClmIdle.pc = "idle"
<1>1. Lanes = {0, 1, 2} /\ Zero \in Words
  BY DEF Lanes, Zero, Words, States, IDLE
<1>2. Tombstone \in Jobs
  BY <1>1 DEF Tombstone, Jobs
<1> QED
  BY <1>1, <1>2 DEF ReqIdle, ReqType, ClmIdle, ClmType

(* Where the claim loop goes next is a legal idle or scanning state. *)
LEMMA ScanType ==
  ASSUME NEW c \in Claimers, NEW l \in Lanes, NEW n \in Nat
  PROVE  Scan(c, l, n) \in ClmType /\ Scan(c, l, n).pc \in {"idle", "scan"}
<1>1. Below(c, l) \subseteq {0, 1, 2}
  BY SchedAssumption, Consts DEF Below
<1>2. CASE Below(c, l) = {}
  BY <1>2, Consts DEF Scan
<1>3. CASE Below(c, l) # {}
  <2>1. \E k \in Below(c, l) : \A m \in Below(c, l) : m <= k
    BY <1>1, <1>3
  <2>2. (CHOOSE k \in Below(c, l) : \A m \in Below(c, l) : m <= k) \in Lanes
    BY <1>1, <2>1, Consts
  <2> QED
    BY <1>3, <2>2, Consts DEF Scan, ClmType, ClmIdle
<1> QED
  BY <1>2, <1>3

(* A token is a queued word of its lane, one generation up. *)
LEMMA TokenType ==
  ASSUME NEW w \in Words, NEW l \in Lanes
  PROVE  Token(w, l) \in Words /\ Token(w, l).st = l + 1 /\ l + 1 \in QueuedStates
  BY Consts DEF Token, Words, States, QueuedStates

----------------------------------------------------------------------------
(* Type correctness. *)

(* sb_sched_init_zeroed and the seeding leave a well-typed mapping. *)
LEMMA TypeInit == Init => TypeOK
<1> SUFFICES ASSUME Init PROVE TypeOK
  OBVIOUS
<1>1. word \in [Pages -> Words]
  BY DEF Init, Words, States, IDLE, PRECOPY_PENDING
<1>2. req \in [Requesters -> ReqType] /\ clm \in [Claimers -> ClmType]
  BY Consts DEF Init
<1>3. /\ prod \in [Lanes -> Nat] /\ cons \in [Lanes -> Nat]
      /\ seq \in [Lanes -> [0..Capacity - 1 -> Nat]]
      /\ job \in [Lanes -> [0..Capacity - 1 -> Jobs]]
  BY Consts, SchedAssumption DEF Init
<1> QED
  BY <1>1, <1>2, <1>3 DEF Init, TypeOK, ReqType, ClmType

(* Every step keeps the types. *)
LEMMA TypeStep == TypeOK /\ ReqInv /\ [Next]_vars => TypeOK'
<1> SUFFICES ASSUME TypeOK, ReqInv, [Next]_vars PROVE TypeOK'
  OBVIOUS
<1>0. /\ req \in [Requesters -> ReqType] /\ clm \in [Claimers -> ClmType]
      /\ word \in [Pages -> Words] /\ prod \in [Lanes -> Nat] /\ cons \in [Lanes -> Nat]
      /\ seq \in [Lanes -> [0..Capacity - 1 -> Nat]]
      /\ job \in [Lanes -> [0..Capacity - 1 -> Jobs]]
      /\ issued \subseteq [page : Pages, ticket : Tickets]
      /\ uncounted \subseteq Pages /\ committed \in Nat /\ failed \in Nat
  BY DEF TypeOK, ReqType, ClmType
<1>r. \A r \in Requesters : /\ req[r] \in ReqType /\ req[r].lane \in Lanes /\ req[r].word \in Words
                            /\ req[r].pos \in Nat /\ Cell(req[r].pos) \in 0..Capacity - 1
  BY <1>0, CellType DEF ReqType
<1>c. \A c \in Claimers : /\ clm[c] \in ClmType /\ clm[c].lane \in Lanes /\ clm[c].pos \in Nat
                          /\ Cell(clm[c].pos) \in 0..Capacity - 1
                          /\ clm[c].job \in Jobs /\ clm[c].tries \in Nat
  BY <1>0, CellType DEF ClmType
<1>q. SUFFICES
      /\ req' \in [Requesters -> ReqType] /\ clm' \in [Claimers -> ClmType]
      /\ word' \in [Pages -> Words] /\ prod' \in [Lanes -> Nat] /\ cons' \in [Lanes -> Nat]
      /\ seq' \in [Lanes -> [0..Capacity - 1 -> Nat]]
      /\ job' \in [Lanes -> [0..Capacity - 1 -> Jobs]]
      /\ issued' \subseteq [page : Pages, ticket : Tickets]
      /\ uncounted' \subseteq Pages /\ committed' \in Nat /\ failed' \in Nat
  BY DEF TypeOK, ReqType, ClmType
<1>1. ASSUME NEW p \in Pages, SeedCommit(p) PROVE <1>q!1
  BY <1>0, <1>1 DEF SeedCommit, ring, Words, States, COMMITTED
<1>2. ASSUME NEW r \in Requesters, NEW p \in Pages, NEW l \in Lanes, Request(r, p, l) PROVE <1>q!1
  BY <1>0, <1>2, Consts DEF Request, ring, ReqType
<1>3. ASSUME NEW r \in Requesters, Reserve(r) PROVE <1>q!1
  <2>1. req[r].lane \in Lanes /\ prod[req[r].lane] \in Nat
    BY <1>0, <1>r
  <2>2. [req[r] EXCEPT !.pc = "cas", !.pos = prod[req[r].lane]] \in ReqType
    BY <1>r, <2>1 DEF ReqType
  <2>3. req' \in [Requesters -> ReqType] /\ clm' \in [Claimers -> ClmType]
    BY <1>0, <1>3, <2>2 DEF Reserve
  <2>4. prod' \in [Lanes -> Nat] /\ cons' \in [Lanes -> Nat]
    BY <1>0, <1>3, <2>1 DEF Reserve
  <2> QED
    BY <1>0, <1>3, <2>3, <2>4 DEF Reserve
<1>4. ASSUME NEW r \in Requesters, QueueFull(r) PROVE <1>q!1
  BY <1>0, <1>4, Consts DEF QueueFull, ring
<1>5. ASSUME NEW r \in Requesters, RequestCas(r) PROVE <1>q!1
  <2>1. req[r].page \in Pages /\ req[r].lane \in Lanes
    BY <1>0, <1>5 DEF ReqInv, ReqOK, RequestCas, ReqType
  <2>2. word[req[r].page] \in Words /\ Token(word[req[r].page], req[r].lane) \in Words
    BY <1>0, <2>1, TokenType
  <2>3. /\ [req[r] EXCEPT !.pc = "publish"] \in ReqType
        /\ [req[r] EXCEPT !.pc = "tombstone", !.word = word[req[r].page]] \in ReqType
    BY <1>0, <2>2 DEF ReqType
  <2> QED
    BY <1>0, <1>5, <2>1, <2>2, <2>3 DEF RequestCas, ring
<1>6. ASSUME NEW r \in Requesters, NEW j \in Jobs, Store(r, j)
      PROVE /\ seq' \in [Lanes -> [0..Capacity - 1 -> Nat]]
            /\ job' \in [Lanes -> [0..Capacity - 1 -> Jobs]]
            /\ prod' = prod /\ cons' = cons
  BY <1>0, <1>6, <1>r DEF Store
<1>7. ASSUME NEW r \in Requesters, PublishJob(r) PROVE <1>q!1
  <2>1. [page |-> req[r].page, ticket |-> Token(req[r].word, req[r].lane)] \in Jobs
    <3>1. req[r].page \in Pages /\ Token(req[r].word, req[r].lane) \in Words
      BY <1>7, <1>r, TokenType DEF ReqInv, ReqOK, PublishJob
    <3> QED
      BY <3>1 DEF Jobs
  <2> QED
    <3>1. req' \in [Requesters -> ReqType]
      BY <1>0, <1>7, Consts DEF PublishJob
    <3> QED
      BY <1>0, <1>6, <1>7, <2>1, <3>1 DEF PublishJob
<1>8. ASSUME NEW r \in Requesters, PublishTombstone(r) PROVE <1>q!1
  <2>1. req' \in [Requesters -> ReqType]
    <3>1. [req[r] EXCEPT !.pc = "reserve", !.pos = 0] \in ReqType
      BY <1>r DEF ReqType
    <3> QED
      BY <1>0, <1>8, <3>1, Consts DEF PublishTombstone
  <2> QED
    BY <1>0, <1>6, <1>8, <2>1, Consts DEF PublishTombstone
<1>9. ASSUME NEW c \in Claimers, Claim(c) PROVE <1>q!1
  <2>1. Scan(c, DEMAND, 0) \in ClmType
    BY ScanType, Consts DEF DEMAND
  <2> QED
    BY <1>0, <1>9, <2>1 DEF Claim, ring
<1>10. ASSUME NEW c \in Claimers, Pop(c) PROVE <1>q!1
  <2>1. clm[c] \in ClmType /\ clm[c].lane \in Lanes /\ cons[clm[c].lane] \in Nat
    BY <1>0 DEF ClmType
  <2>2. [clm[c] EXCEPT !.pc = "read", !.pos = cons[clm[c].lane]] \in ClmType
    BY <2>1 DEF ClmType
  <2> QED
    BY <1>0, <1>10, <2>1, <2>2 DEF Pop
<1>11. ASSUME NEW c \in Claimers, ScanNext(c) PROVE <1>q!1
  <2>1. clm[c].lane # BACKGROUND => Scan(c, clm[c].lane - 1, clm[c].tries) \in ClmType
    <3>1. clm[c].lane \in Lanes /\ clm[c].tries \in Nat
      BY <1>0 DEF ClmType
    <3>2. clm[c].lane # BACKGROUND => clm[c].lane - 1 \in Lanes
      BY <3>1, Consts DEF BACKGROUND
    <3> QED
      BY <3>1, <3>2, ScanType
  <2> QED
    BY <1>0, <1>11, <2>1, Consts DEF ScanNext, ring
<1>12. ASSUME NEW c \in Claimers, Read(c) PROVE <1>q!1
  <2>1. /\ clm[c].lane \in Lanes /\ Cell(clm[c].pos) \in 0..Capacity - 1
        /\ clm[c].pos + Capacity \in Nat
        /\ job[clm[c].lane][Cell(clm[c].pos)] \in Jobs
    BY <1>0, <1>c, SchedAssumption, SMTT(30)
  <2>2. seq' \in [Lanes -> [0..Capacity - 1 -> Nat]]
    BY <1>0, <1>12, <2>1 DEF Read
  <2>3. job' \in [Lanes -> [0..Capacity - 1 -> Jobs]]
    BY <1>0, <1>12, <2>1, Consts DEF Read
  <2>4. clm' \in [Claimers -> ClmType]
    <3>1. [clm[c] EXCEPT !.pc = "cas", !.job = job[clm[c].lane][Cell(clm[c].pos)]] \in ClmType
      BY <1>0, <2>1, ZenonT(30) DEF ClmType
    <3> QED
      BY <1>0, <1>12, <3>1 DEF Read
  <2> QED
    BY <1>0, <1>12, <2>2, <2>3, <2>4 DEF Read
<1>13. ASSUME NEW c \in Claimers, ClaimCas(c) PROVE <1>q!1
  <2>1. clm[c].job \in [page : Pages, ticket : Tickets]
    <3>1. clm[c].job.page \in Pages /\ clm[c].job.ticket.st = clm[c].lane + 1
      BY <1>13 DEF ClaimCas, Fresh
    <3>2. clm[c].job \in Jobs /\ clm[c].lane \in {0, 1, 2}
      BY <1>c, Consts
    <3> QED
      BY <3>1, <3>2 DEF Jobs, Words, Tickets, QueuedStates
  <2>2. Active(clm[c].job.ticket) \in Words
    BY <2>1 DEF Active, Words, Tickets, States, QueuedStates, ActiveStates
  <2> QED
    BY <1>0, <1>13, <2>1, <2>2, Consts DEF ClaimCas, ring
<1>14. ASSUME NEW c \in Claimers, ClaimStale(c) PROVE <1>q!1
  <2>1. Scan(c, DEMAND, clm[c].tries + 1) \in ClmType
    <3>1. clm[c].tries + 1 \in Nat
      BY <1>0 DEF ClmType
    <3> QED
      BY <3>1, ScanType, Consts DEF DEMAND
  <2> QED
    BY <1>0, <1>14, <2>1, Consts DEF ClaimStale, ring
<1>15. ASSUME NEW j \in issued, NEW st \in {COMMITTED, FAILED}, Finish(j, st) PROVE <1>q!1
  <2>1. j.page \in Pages /\ [j.ticket EXCEPT !.st = st] \in Words
    BY <1>0 DEF Words, Tickets, States, COMMITTED, FAILED
  <2> QED
    BY <1>0, <1>15, <2>1 DEF Finish, ring
<1>16. ASSUME NEW p \in Pages, Count(p) PROVE <1>q!1
  BY <1>0, <1>16 DEF Count, ring
<1>17. CASE UNCHANGED vars
  BY <1>0, <1>17 DEF vars
<1> QED
  BY <1>1, <1>2, <1>3, <1>4, <1>5, <1>7, <1>8, <1>9, <1>10, <1>11, <1>12, <1>13, <1>14,
     <1>15, <1>16, <1>17, SchedAssumption DEF Next, RequesterStep, ClaimerStep

(* The types of a request's and of a claim's locals. *)
LEMMA Locals ==
  ASSUME TypeOK
  PROVE  /\ \A r \in Requesters :
              /\ req[r].pc \in {"idle", "reserve", "cas", "publish", "tombstone"}
              /\ req[r].lane \in Lanes /\ req[r].pos \in Nat /\ req[r].word \in Words
              /\ Cell(req[r].pos) \in 0..Capacity - 1
         /\ \A c \in Claimers :
              /\ clm[c].pc \in {"idle", "scan", "read", "cas"}
              /\ clm[c].lane \in Lanes /\ clm[c].pos \in Nat /\ clm[c].job \in Jobs
              /\ Cell(clm[c].pos) \in 0..Capacity - 1
  BY CellType DEF TypeOK

(* Which locals a step of another thread leaves alone. *)
LEMMA OnlyOneMoves ==
  ASSUME TypeOK
  PROVE  /\ \A r, s \in Requesters : s # r /\ RequesterStep(r) => req'[s] = req[s]
         /\ \A c, d \in Claimers : d # c /\ ClaimerStep(c) => clm'[d] = clm[d]
         /\ \A r \in Requesters : RequesterStep(r) => clm' = clm
         /\ \A c \in Claimers : ClaimerStep(c) => req' = req
<1>1. req = [r \in Requesters |-> req[r]] /\ clm = [c \in Claimers |-> clm[c]]
  BY DEF TypeOK
<1>2. ASSUME NEW r \in Requesters, NEW s \in Requesters, s # r, RequesterStep(r)
      PROVE  req'[s] = req[s]
  BY <1>1, <1>2 DEF RequesterStep, Reserve, QueueFull, RequestCas, PublishJob, PublishTombstone
<1>3. ASSUME NEW c \in Claimers, NEW d \in Claimers, d # c, ClaimerStep(c)
      PROVE  clm'[d] = clm[d]
  BY <1>1, <1>3 DEF ClaimerStep, Claim, Pop, ScanNext, Read, ClaimCas, ClaimStale
<1>4. ASSUME NEW r \in Requesters, RequesterStep(r) PROVE clm' = clm
  BY <1>4 DEF RequesterStep, Reserve, QueueFull, RequestCas, PublishJob, PublishTombstone
<1>5. ASSUME NEW c \in Claimers, ClaimerStep(c) PROVE req' = req
  BY <1>5 DEF ClaimerStep, Claim, Pop, ScanNext, Read, ClaimCas, ClaimStale
<1> QED
  BY <1>2, <1>3, <1>4, <1>5

(* Every step keeps what a request carries between its load and its swap. *)
LEMMA ReqStep == TypeOK /\ ReqInv /\ [Next]_vars => ReqInv'
<1> SUFFICES ASSUME TypeOK, ReqInv, [Next]_vars, NEW s \in Requesters PROVE ReqOK(req'[s])
  BY DEF ReqInv
<1>0. /\ req \in [Requesters -> ReqType] /\ req[s] \in ReqType /\ ReqIdle.pc = "idle"
      /\ ReqOK(req[s])
  BY Consts DEF TypeOK, ReqType, ReqInv
<1>1. ASSUME NEW p \in Pages, NEW l \in Lanes, Request(s, p, l) PROVE ReqOK(req'[s])
  BY <1>0, <1>1 DEF Request, ReqOK
<1>2. CASE Reserve(s)
  BY <1>0, <1>2 DEF Reserve, ReqOK, ReqType
<1>3. CASE QueueFull(s)
  BY <1>0, <1>3 DEF QueueFull, ReqOK
<1>4. CASE RequestCas(s)
  <2>1. /\ req'[s].pc \in {"publish", "tombstone"} /\ req'[s].page = req[s].page
        /\ req[s].pc = "cas"
    BY <1>0, <1>4, ZenonT(30) DEF RequestCas, ReqType
  <2> QED
    BY <1>0, <2>1 DEF ReqOK
<1>5. CASE PublishJob(s)
  BY <1>0, <1>5 DEF PublishJob, ReqOK
<1>6. CASE PublishTombstone(s)
  BY <1>0, <1>6 DEF PublishTombstone, ReqOK, ReqType
<1>7. CASE req'[s] = req[s]
  BY <1>0, <1>7
<1>8. ASSUME NEW r \in Requesters, NEW p \in Pages, NEW l \in Lanes, Request(r, p, l), r # s
      PROVE  req'[s] = req[s]
  BY <1>0, <1>8 DEF Request
<1>9. ASSUME NEW p \in Pages, SeedCommit(p) \/ Count(p) PROVE req' = req
  BY <1>9 DEF SeedCommit, Count
<1>10. ASSUME NEW j \in issued, Finish(j, COMMITTED) \/ Finish(j, FAILED) PROVE req' = req
  BY <1>10 DEF Finish
<1>11. CASE UNCHANGED vars
  BY <1>7, <1>11 DEF vars
<1>12. CASE \E r \in Requesters : RequesterStep(r)
  <2>1. PICK r \in Requesters : RequesterStep(r)
    BY <1>12
  <2>2. CASE r = s
    BY <2>1, <2>2, <1>2, <1>3, <1>4, <1>5, <1>6 DEF RequesterStep
  <2> QED
    BY <2>1, <2>2, <1>7, OnlyOneMoves
<1>13. CASE \E c \in Claimers : ClaimerStep(c)
  BY <1>7, <1>13, OnlyOneMoves
<1> QED
  BY <1>1, <1>7, <1>8, <1>9, <1>10, <1>11, <1>12, <1>13, SchedAssumption DEF Next

----------------------------------------------------------------------------
(* How a page's word may move: requests raise it, a claim takes it, an     *)
(* acknowledgement ends it, and nothing moves it back.                     *)
Moves(w, v) ==
  \/ w.st = PRECOPY_PENDING /\ v.st = COMMITTED
  \/ w.st \in {IDLE} \cup QueuedStates /\ v.st \in QueuedStates /\ v.st > w.st
  \/ w.st \in QueuedStates /\ v.st = w.st + 4
  \/ w.st \in ActiveStates /\ v.st \in {COMMITTED, FAILED}

(* Every step moves a word forward or not at all. *)
LEMMA WordMoves ==
  ASSUME TypeOK, ReqInv, [Next]_vars, NEW p \in Pages
  PROVE  word'[p] = word[p] \/ Moves(word[p], word'[p])
<1>0. word \in [Pages -> Words] /\ issued \subseteq [page : Pages, ticket : Tickets]
  BY DEF TypeOK
<1>1. ASSUME NEW q \in Pages, SeedCommit(q) PROVE word'[p] = word[p] \/ Moves(word[p], word'[p])
  BY <1>0, <1>1 DEF SeedCommit, Moves
<1>2. ASSUME NEW r \in Requesters, RequestCas(r) PROVE word'[p] = word[p] \/ Moves(word[p], word'[p])
  <2>1. req[r].page \in Pages /\ Wants(req[r].word, req[r].lane)
    BY <1>2 DEF ReqInv, ReqOK, RequestCas
  <2>2. req[r].lane \in Lanes /\ req[r].word \in Words
    BY Locals
  <2>3. CASE word[req[r].page] = req[r].word /\ p = req[r].page
    <3>1. word'[p] = Token(word[p], req[r].lane)
      BY <1>0, <1>2, <2>3 DEF RequestCas
    <3>2. word'[p].st = req[r].lane + 1 /\ word'[p].st \in QueuedStates
      BY <3>1, <2>2, <1>0, TokenType
    <3>3. word[p].st \in {IDLE} \cup QueuedStates /\ word[p].st < req[r].lane + 1
      BY <2>1, <2>2, <2>3 DEF Wants, Words, States, IDLE, QueuedStates, ActiveStates,
         COMMITTED, FAILED, PRECOPY_PENDING
    <3> QED
      BY <3>2, <3>3, <2>2, Consts DEF Moves, IDLE, QueuedStates
  <2>4. CASE ~(word[req[r].page] = req[r].word /\ p = req[r].page)
    BY <1>0, <1>2, <2>4 DEF RequestCas
  <2> QED
    BY <2>3, <2>4
<1>3. ASSUME NEW c \in Claimers, ClaimCas(c) PROVE word'[p] = word[p] \/ Moves(word[p], word'[p])
  <2>1. /\ clm[c].job.page \in Pages /\ word[clm[c].job.page] = clm[c].job.ticket
        /\ clm[c].job.ticket.st = clm[c].lane + 1
    BY <1>3 DEF ClaimCas, Fresh
  <2>2. clm[c].lane \in {0, 1, 2}
    BY Locals, Consts
  <2>3. CASE p = clm[c].job.page
    <3>1. word'[p] = Active(word[p]) /\ word[p] \in Words
      BY <1>0, <1>3, <2>1, <2>3 DEF ClaimCas
    <3>2. word'[p].st = word[p].st + 4
      BY <3>1 DEF Active, Words
    <3> QED
      <4>1. word[p].st = clm[c].lane + 1
        BY <2>1, <2>3
      <4>2. word[p].st \in {1, 2, 3}
        BY <2>2, <4>1
      <4> QED
        BY <3>2, <4>2 DEF Moves, QueuedStates
  <2>4. CASE p # clm[c].job.page
    BY <1>0, <1>3, <2>4 DEF ClaimCas
  <2> QED
    BY <2>3, <2>4
<1>4. ASSUME NEW j \in issued, NEW st \in {COMMITTED, FAILED}, Finish(j, st)
      PROVE  word'[p] = word[p] \/ Moves(word[p], word'[p])
  <2>1. j.page \in Pages /\ j.ticket \in Tickets
    BY <1>0
  <2>2. CASE p = j.page
    <3>1. word[p] = Active(j.ticket) /\ word'[p] = [j.ticket EXCEPT !.st = st]
      BY <1>0, <1>4, <2>1, <2>2 DEF Finish
    <3>2. word'[p].st = st /\ word[p].st = j.ticket.st + 4 /\ j.ticket.st \in QueuedStates
      BY <3>1, <2>1 DEF Active, Tickets
    <3> QED
      BY <3>2 DEF Moves, QueuedStates, ActiveStates
  <2>3. CASE p # j.page
    BY <1>0, <1>4, <2>3 DEF Finish
  <2> QED
    BY <2>2, <2>3
<1>5. ASSUME NEW r \in Requesters, NEW q \in Pages, NEW l \in Lanes, Request(r, q, l) PROVE word' = word
  BY <1>5 DEF Request
<1>6. ASSUME NEW r \in Requesters, RequesterStep(r), ~RequestCas(r) PROVE word' = word
  BY <1>6 DEF RequesterStep, Reserve, QueueFull, PublishJob, PublishTombstone
<1>7. ASSUME NEW c \in Claimers, ClaimerStep(c), ~ClaimCas(c) PROVE word' = word
  BY <1>7 DEF ClaimerStep, Claim, Pop, ScanNext, Read, ClaimStale
<1>8. ASSUME NEW q \in Pages, Count(q) PROVE word' = word
  BY <1>8 DEF Count
<1>9. CASE UNCHANGED vars
  BY <1>9 DEF vars
<1> QED
  BY <1>1, <1>2, <1>3, <1>4, <1>5, <1>6, <1>7, <1>8, <1>9, SchedAssumption DEF Next

(* Only a claim hands out a job, and only final swaps await counting. *)
LEMMA Bookkeeping ==
  ASSUME TypeOK, [Next]_vars
  PROVE  /\ issued' = issued \/ \E c \in Claimers : ClaimCas(c)
         /\ \/ uncounted' \subseteq uncounted
            \/ \E p \in Pages : SeedCommit(p)
            \/ \E j \in issued : Finish(j, COMMITTED) \/ Finish(j, FAILED)
<1>1. ASSUME NEW r \in Requesters, RequesterStep(r) PROVE issued' = issued /\ uncounted' = uncounted
  BY <1>1 DEF RequesterStep, Reserve, QueueFull, RequestCas, PublishJob, PublishTombstone
<1>2. ASSUME NEW c \in Claimers, ClaimerStep(c), ~ClaimCas(c) PROVE issued' = issued
  BY <1>2 DEF ClaimerStep, Claim, Pop, ScanNext, Read, ClaimStale
<1>3. ASSUME NEW c \in Claimers, ClaimerStep(c) PROVE uncounted' = uncounted
  BY <1>3 DEF ClaimerStep, Claim, Pop, ScanNext, Read, ClaimCas, ClaimStale
<1>4. ASSUME NEW r \in Requesters, NEW q \in Pages, NEW l \in Lanes, Request(r, q, l)
      PROVE  issued' = issued /\ uncounted' = uncounted
  BY <1>4 DEF Request
<1>5. ASSUME NEW q \in Pages, Count(q) PROVE issued' = issued /\ uncounted' \subseteq uncounted
  BY <1>5 DEF Count
<1>6. ASSUME NEW q \in Pages, SeedCommit(q) PROVE issued' = issued
  BY <1>6 DEF SeedCommit
<1>7. ASSUME NEW j \in issued, Finish(j, COMMITTED) \/ Finish(j, FAILED) PROVE issued' = issued
  BY <1>7 DEF Finish
<1>8. CASE UNCHANGED vars
  BY <1>8 DEF vars
<1> QED
  BY <1>1, <1>2, <1>3, <1>4, <1>5, <1>6, <1>7, <1>8, SchedAssumption DEF Next

(* Pages handed out stay owned or final, so no claim hands one out again. *)
LEMMA WordStep == TypeOK /\ ReqInv /\ WordInv /\ TransferredOnce /\ [Next]_vars
                    => WordInv' /\ TransferredOnce'
<1> SUFFICES ASSUME TypeOK, ReqInv, WordInv, TransferredOnce, [Next]_vars
    PROVE  WordInv' /\ TransferredOnce'
  OBVIOUS
<1> DEFINE Gone == ActiveStates \cup {COMMITTED, FAILED}
<1>0. word \in [Pages -> Words] /\ issued \subseteq [page : Pages, ticket : Tickets] /\ uncounted \subseteq Pages
  BY DEF TypeOK
<1>1. ASSUME NEW p \in Pages, word[p].st \in Gone PROVE word'[p].st \in Gone
  BY <1>1, WordMoves DEF Moves, PRECOPY_PENDING, IDLE, QueuedStates, ActiveStates, COMMITTED, FAILED
<1>2. ASSUME NEW p \in Pages, word[p].st \in {COMMITTED, FAILED} PROVE word'[p] = word[p]
  BY <1>2, WordMoves DEF Moves, PRECOPY_PENDING, IDLE, QueuedStates, ActiveStates, COMMITTED, FAILED
<1>3. \A j \in issued : word'[j.page].st \in Gone
  BY <1>0, <1>1 DEF WordInv
<1>4. \A p \in uncounted : word'[p].st \in {COMMITTED, FAILED}
  BY <1>0, <1>2 DEF WordInv
<1>5. ASSUME NEW c \in Claimers, ClaimCas(c)
      PROVE  /\ word'[clm[c].job.page].st \in Gone
             /\ \A j \in issued : j.page # clm[c].job.page
             /\ issued' = issued \cup {clm[c].job}
  <2>1. /\ clm[c].job.page \in Pages /\ word[clm[c].job.page] = clm[c].job.ticket
        /\ clm[c].job.ticket.st = clm[c].lane + 1
        /\ word'[clm[c].job.page] = Active(clm[c].job.ticket)
    BY <1>0, <1>5 DEF ClaimCas, Fresh
  <2>2. clm[c].lane \in {0, 1, 2} /\ clm[c].job.ticket \in Words
    BY <1>0, <2>1, Locals, Consts
  <2>3. word'[clm[c].job.page].st = clm[c].lane + 5
    BY <2>1, <2>2 DEF Active, Words
  <2> QED
    BY <2>1, <2>2, <2>3, <1>5 DEF WordInv, ClaimCas, ActiveStates, COMMITTED, FAILED
<1>6. WordInv'
  <2>1. \A j \in issued' : word'[j.page].st \in Gone
    BY <1>3, <1>5, Bookkeeping
  <2>2. \A p \in uncounted' : word'[p].st \in {COMMITTED, FAILED}
    <3>1. ASSUME NEW p \in Pages, SeedCommit(p)
          PROVE  uncounted' = uncounted \cup {p} /\ word'[p].st = COMMITTED
      BY <1>0, <3>1 DEF SeedCommit
    <3>2. ASSUME NEW j \in issued, NEW st \in {COMMITTED, FAILED}, Finish(j, st)
          PROVE  uncounted' = uncounted \cup {j.page} /\ word'[j.page].st = st
      <4>1. j.page \in Pages /\ j.ticket \in Tickets
        BY <1>0
      <4> QED
        BY <1>0, <3>2, <4>1 DEF Finish, Tickets
    <3> QED
      BY <1>4, <3>1, <3>2, Bookkeeping
  <2> QED
    BY <2>1, <2>2 DEF WordInv
<1>7. TransferredOnce'
  BY <1>5, Bookkeeping DEF TransferredOnce
<1> QED
  BY <1>6, <1>7

----------------------------------------------------------------------------
(* The rings. *)

(* A step that touches no ring index or sequence and lets no thread into a *)
(* cell keeps the ring invariant.                                          *)
LEMMA RingFrame ==
  ASSUME RingInv, prod' = prod, cons' = cons, seq' = seq,
         \A r \in Requesters : Holds(r)' =>
           Holds(r) /\ req'[r].lane = req[r].lane /\ req'[r].pos = req[r].pos,
         \A c \in Claimers : Reads(c)' =>
           Reads(c) /\ clm'[c].lane = clm[c].lane /\ clm'[c].pos = clm[c].pos
  PROVE  RingInv'
<1>1. Window' /\ Unreserved'
  BY DEF RingInv, Window, Unreserved
<1>2. ReservedOK' /\ PoppedOK'
  BY DEF RingInv, ReservedOK, PoppedOK
<1>3. ReservedOnce'
  BY DEF RingInv, ReservedOnce
<1>4. PoppedOnce'
  BY DEF RingInv, PoppedOnce
<1> QED
  BY <1>1, <1>2, <1>3, <1>4 DEF RingInv

(* reserve(): the winner of the producer swap alone holds the position. *)
LEMMA RingReserve ==
  ASSUME TypeOK, RingInv, NEW r \in Requesters, Reserve(r)
  PROVE  RingInv'
<1> DEFINE l == req[r].lane
           pos == prod[l]
<1>0. /\ l \in Lanes /\ pos \in Nat /\ prod \in [Lanes -> Nat] /\ cons \in [Lanes -> Nat]
      /\ \A s \in Requesters : req[s].lane \in Lanes /\ req[s].pos \in Nat
  BY Locals DEF TypeOK
<1>1. /\ prod' = [prod EXCEPT ![l] = pos + 1] /\ cons' = cons /\ seq' = seq /\ clm' = clm
      /\ seq[l][Cell(pos)] = pos
  BY DEF Reserve
<1>2. /\ Holds(r)' /\ req'[r].lane = l /\ req'[r].pos = pos
      /\ \A s \in Requesters : s # r => req'[s] = req[s]
  <2>1. req \in [Requesters -> ReqType]
    BY DEF TypeOK, ReqType
  <2> QED
    BY <2>1 DEF Reserve, Holds, ReqType
<1>p. \A k \in Lanes : prod[k] \in Nat /\ prod[k] <= prod'[k] /\ prod'[k] \in Nat
  BY <1>0, <1>1
<1>3. Window' /\ Unreserved'
  <2>1. Window'
    <3> SUFFICES ASSUME NEW k \in Lanes PROVE cons[k] <= prod'[k]
      BY <1>1 DEF Window
    <3>1. cons[k] <= prod[k] /\ cons[k] \in Nat
      BY <1>0 DEF RingInv, Window
    <3> QED
      BY <1>p, <3>1
  <2>2. ASSUME NEW k \in Lanes, NEW n \in Nat, n >= prod'[k] PROVE seq[k][Cell(n)] <= n
    <3>1. n >= prod[k]
      BY <1>p, <2>2
    <3> QED
      BY <3>1 DEF RingInv, Unreserved
  <2> QED
    BY <1>1, <2>1, <2>2 DEF Unreserved
<1>s. ASSUME NEW s \in Requesters, Holds(s)', s # r
      PROVE  /\ Holds(s) /\ req'[s] = req[s]
             /\ cons[req[s].lane] <= req[s].pos /\ req[s].pos < prod[req[s].lane]
             /\ seq[req[s].lane][Cell(req[s].pos)] = req[s].pos
  <2>1. Holds(s) /\ req'[s] = req[s]
    BY <1>2, <1>s DEF Holds
  <2> QED
    BY <2>1 DEF RingInv, ReservedOK
<1>4. ReservedOK'
  <2> SUFFICES ASSUME NEW s \in Requesters, Holds(s)'
      PROVE  /\ cons[req'[s].lane] <= req'[s].pos /\ req'[s].pos < prod'[req'[s].lane]
             /\ seq[req'[s].lane][Cell(req'[s].pos)] = req'[s].pos
    BY <1>1 DEF ReservedOK
  <2>1. CASE s = r
    <3>1. cons[l] <= pos /\ prod'[l] = pos + 1
      BY <1>0, <1>1 DEF RingInv, Window
    <3> QED
      BY <1>0, <1>1, <1>2, <2>1, <3>1, SMTT(30)
  <2>2. CASE s # r
    <3>1. /\ prod[req[s].lane] <= prod'[req[s].lane] /\ req[s].pos \in Nat
          /\ prod[req[s].lane] \in Nat /\ prod'[req[s].lane] \in Nat
      BY <1>0, <1>p
    <3> QED
      BY <1>s, <2>2, <3>1, SMTT(30)
  <2> QED
    BY <2>1, <2>2
<1>5. ReservedOnce'
  <2>1. ASSUME NEW s \in Requesters, Holds(s)', s # r
        PROVE  ~(req'[s].lane = l /\ req'[s].pos = pos)
    BY <1>0, <1>s, <2>1
  <2>2. ASSUME NEW s \in Requesters, NEW t \in Requesters, Holds(s)', Holds(t)', s # r, t # r,
               req'[s].lane = req'[t].lane, req'[s].pos = req'[t].pos
        PROVE  s = t
    <3>1. Holds(s) /\ Holds(t) /\ req'[s] = req[s] /\ req'[t] = req[t]
      BY <1>s, <2>2
    <3> QED
      BY <2>2, <3>1 DEF RingInv, ReservedOnce
  <2> QED
    BY <1>2, <2>1, <2>2 DEF ReservedOnce
<1>6. PoppedOK' /\ PoppedOnce'
  BY <1>1 DEF RingInv, PoppedOK, PoppedOnce, Reads
<1> QED
  BY <1>3, <1>4, <1>5, <1>6 DEF RingInv

(* Publishing a cell gives the position up. *)
LEMMA RingStore ==
  ASSUME TypeOK, RingInv, NEW r \in Requesters, Holds(r), NEW j, Store(r, j), ~Holds(r)',
         \A s \in Requesters : s # r => req'[s] = req[s], clm' = clm
  PROVE  RingInv'
<1> DEFINE l == req[r].lane
           pos == req[r].pos
<1>0. /\ l \in Lanes /\ pos \in Nat /\ prod \in [Lanes -> Nat] /\ cons \in [Lanes -> Nat]
      /\ \A s \in Requesters : req[s].lane \in Lanes /\ req[s].pos \in Nat
      /\ \A c \in Claimers : clm[c].lane \in Lanes /\ clm[c].pos \in Nat
      /\ seq \in [Lanes -> [0..Capacity - 1 -> Nat]]
  BY Locals DEF TypeOK
<1>1. /\ prod' = prod /\ cons' = cons /\ clm' = clm
      /\ \A k \in Lanes : \A n \in Nat :
           seq'[k][Cell(n)] = IF k = l /\ Cell(n) = Cell(pos) THEN pos + 1 ELSE seq[k][Cell(n)]
  BY <1>0, CellType DEF Store
<1>2. cons[l] <= pos /\ pos < prod[l] /\ seq[l][Cell(pos)] = pos
  BY DEF RingInv, ReservedOK
<1>3. Window' /\ Unreserved'
  <2>1. Window'
    BY <1>1 DEF RingInv, Window
  <2>2. ASSUME NEW k \in Lanes, NEW n \in Nat, n >= prod[k] PROVE seq'[k][Cell(n)] <= n
    <3>1. seq[k][Cell(n)] <= n
      BY <2>2 DEF RingInv, Unreserved
    <3>2. k = l => pos + 1 <= n
      BY <1>0, <1>2, <2>2, SMTT(30)
    <3> QED
      BY <1>1, <3>1, <3>2
  <2> QED
    BY <1>1, <2>1, <2>2 DEF Unreserved
<1>4. ReservedOK'
  <2> SUFFICES ASSUME NEW s \in Requesters, Holds(s)'
      PROVE  /\ cons[req'[s].lane] <= req'[s].pos /\ req'[s].pos < prod[req'[s].lane]
             /\ seq'[req'[s].lane][Cell(req'[s].pos)] = req'[s].pos
    BY <1>1 DEF ReservedOK
  <2>1. s # r /\ req'[s] = req[s] /\ Holds(s)
    BY DEF Holds
  <2>2. /\ cons[req[s].lane] <= req[s].pos /\ req[s].pos < prod[req[s].lane]
        /\ seq[req[s].lane][Cell(req[s].pos)] = req[s].pos
    BY <2>1 DEF RingInv, ReservedOK
  <2>3. ~(req[s].lane = l /\ Cell(req[s].pos) = Cell(pos))
    BY <1>2, <2>1, <2>2 DEF RingInv, ReservedOnce
  <2>4. req[s].lane \in Lanes /\ req[s].pos \in Nat
    BY <1>0
  <2>5. seq'[req[s].lane][Cell(req[s].pos)] = seq[req[s].lane][Cell(req[s].pos)]
    BY <1>1, <2>3, <2>4
  <2> QED
    BY <2>1, <2>2, <2>5
<1>5. ReservedOnce'
  BY DEF RingInv, ReservedOnce, Holds
<1>6. PoppedOK'
  <2> SUFFICES ASSUME NEW c \in Claimers, Reads(c)
      PROVE  /\ clm[c].pos < cons[clm[c].lane]
             /\ seq'[clm[c].lane][Cell(clm[c].pos)] = clm[c].pos + 1
    BY <1>1 DEF PoppedOK, Reads
  <2>1. clm[c].pos < cons[clm[c].lane] /\ seq[clm[c].lane][Cell(clm[c].pos)] = clm[c].pos + 1
    BY DEF RingInv, PoppedOK
  <2>2. ~(clm[c].lane = l /\ Cell(clm[c].pos) = Cell(pos))
    BY <1>0, <1>2, <2>1, CellNext
  <2>3. clm[c].lane \in Lanes /\ clm[c].pos \in Nat
    BY <1>0
  <2>4. seq'[clm[c].lane][Cell(clm[c].pos)] = seq[clm[c].lane][Cell(clm[c].pos)]
    BY <1>1, <2>2, <2>3
  <2> QED
    BY <2>1, <2>4
<1>7. PoppedOnce'
  BY DEF RingInv, PoppedOnce, Reads
<1> QED
  BY <1>3, <1>4, <1>5, <1>6, <1>7 DEF RingInv

(* pop(): the winner of the consumer swap alone holds the position, and   *)
(* never passes the producers.                                             *)
LEMMA RingPop ==
  ASSUME TypeOK, RingInv, NEW c \in Claimers, Pop(c)
  PROVE  RingInv' /\ cons[clm[c].lane] < prod[clm[c].lane]
<1> DEFINE l == clm[c].lane
           pos == cons[l]
<1>0. /\ l \in Lanes /\ pos \in Nat /\ prod \in [Lanes -> Nat] /\ cons \in [Lanes -> Nat]
      /\ \A d \in Claimers : clm[d].lane \in Lanes /\ clm[d].pos \in Nat
      /\ \A s \in Requesters : req[s].lane \in Lanes /\ req[s].pos \in Nat
  BY Locals DEF TypeOK
<1>1. /\ cons' = [cons EXCEPT ![l] = pos + 1] /\ prod' = prod /\ seq' = seq /\ req' = req
      /\ seq[l][Cell(pos)] = pos + 1
  BY DEF Pop
<1>2. /\ Reads(c)' /\ clm'[c].lane = l /\ clm'[c].pos = pos
      /\ \A d \in Claimers : d # c => clm'[d] = clm[d]
  <2>1. clm \in [Claimers -> ClmType]
    BY DEF TypeOK, ClmType
  <2> QED
    BY <2>1 DEF Pop, Reads, ClmType
<1>3. pos < prod[l]
  BY <1>0, <1>1 DEF RingInv, Unreserved
<1>p. \A k \in Lanes : cons[k] \in Nat /\ cons[k] <= cons'[k] /\ cons'[k] \in Nat
  BY <1>0, <1>1
<1>4. Window' /\ Unreserved'
  <2>1. Window'
    BY <1>0, <1>1, <1>3, SMTT(30) DEF RingInv, Window
  <2>2. Unreserved'
    BY <1>1 DEF RingInv, Unreserved
  <2> QED
    BY <2>1, <2>2
<1>5. ReservedOK' /\ ReservedOnce'
  <2>1. ASSUME NEW s \in Requesters, Holds(s)
        PROVE  cons'[req[s].lane] <= req[s].pos
    <3>1. /\ cons[req[s].lane] <= req[s].pos /\ seq[req[s].lane][Cell(req[s].pos)] = req[s].pos
          /\ req[s].lane \in Lanes /\ req[s].pos \in Nat
      BY <1>0, <2>1 DEF RingInv, ReservedOK
    <3>2. CASE req[s].lane = l
      <4>1. req[s].pos # pos
        BY <1>0, <1>1, <3>1, <3>2
      <4> QED
        BY <1>0, <1>1, <3>1, <3>2, <4>1
    <3>3. CASE req[s].lane # l
      BY <1>0, <1>1, <3>1, <3>3
    <3> QED
      BY <3>2, <3>3
  <2>2. ReservedOK'
    BY <1>1, <2>1 DEF RingInv, ReservedOK, Holds
  <2>3. ReservedOnce'
    BY <1>1 DEF RingInv, ReservedOnce, Holds
  <2> QED
    BY <2>2, <2>3
<1>d. ASSUME NEW d \in Claimers, Reads(d)', d # c
      PROVE  /\ Reads(d) /\ clm'[d] = clm[d]
             /\ clm[d].pos < cons[clm[d].lane]
             /\ seq[clm[d].lane][Cell(clm[d].pos)] = clm[d].pos + 1
  <2>1. Reads(d) /\ clm'[d] = clm[d]
    BY <1>2, <1>d DEF Reads
  <2> QED
    BY <2>1 DEF RingInv, PoppedOK
<1>6. PoppedOK'
  <2> SUFFICES ASSUME NEW d \in Claimers, Reads(d)'
      PROVE  /\ clm'[d].pos < cons'[clm'[d].lane]
             /\ seq[clm'[d].lane][Cell(clm'[d].pos)] = clm'[d].pos + 1
    BY <1>1 DEF PoppedOK
  <2>1. CASE d = c
    <3>1. cons'[l] = pos + 1
      BY <1>0, <1>1
    <3> QED
      BY <1>0, <1>1, <1>2, <2>1, <3>1, SMTT(30)
  <2>2. CASE d # c
    <3>1. /\ cons[clm[d].lane] <= cons'[clm[d].lane] /\ clm[d].pos \in Nat
          /\ cons[clm[d].lane] \in Nat /\ cons'[clm[d].lane] \in Nat
      BY <1>0, <1>p
    <3> QED
      BY <1>d, <2>2, <3>1, SMTT(30)
  <2> QED
    BY <2>1, <2>2
<1>7. PoppedOnce'
  <2>1. ASSUME NEW d \in Claimers, Reads(d)', d # c
        PROVE  ~(clm'[d].lane = l /\ clm'[d].pos = pos)
    BY <1>0, <1>d, <2>1
  <2>2. ASSUME NEW d \in Claimers, NEW e \in Claimers, Reads(d)', Reads(e)', d # c, e # c,
               clm'[d].lane = clm'[e].lane, clm'[d].pos = clm'[e].pos
        PROVE  d = e
    <3>1. Reads(d) /\ Reads(e) /\ clm'[d] = clm[d] /\ clm'[e] = clm[e]
      BY <1>d, <2>2
    <3> QED
      BY <2>2, <3>1 DEF RingInv, PoppedOnce
  <2> QED
    BY <1>2, <2>1, <2>2 DEF PoppedOnce
<1> QED
  BY <1>3, <1>4, <1>5, <1>6, <1>7 DEF RingInv

(* Recycling a cell gives the position up for the next lap. *)
LEMMA RingRead ==
  ASSUME TypeOK, RingInv, NEW c \in Claimers, Read(c)
  PROVE  RingInv'
<1> DEFINE l == clm[c].lane
           pos == clm[c].pos
<1>0. /\ l \in Lanes /\ pos \in Nat /\ prod \in [Lanes -> Nat] /\ cons \in [Lanes -> Nat]
      /\ \A d \in Claimers : clm[d].lane \in Lanes /\ clm[d].pos \in Nat
      /\ \A s \in Requesters : req[s].lane \in Lanes /\ req[s].pos \in Nat
      /\ seq \in [Lanes -> [0..Capacity - 1 -> Nat]]
  BY Locals DEF TypeOK
<1>1. /\ prod' = prod /\ cons' = cons /\ req' = req
      /\ \A k \in Lanes : \A n \in Nat : seq'[k][Cell(n)] =
           IF k = l /\ Cell(n) = Cell(pos) THEN pos + Capacity ELSE seq[k][Cell(n)]
  BY <1>0, CellType DEF Read
<1>2. /\ ~Reads(c)' /\ \A d \in Claimers : d # c => clm'[d] = clm[d]
  <2>1. clm \in [Claimers -> ClmType]
    BY DEF TypeOK, ClmType
  <2> QED
    BY <2>1 DEF Read, Reads, ClmType
<1>3. pos < cons[l] /\ seq[l][Cell(pos)] = pos + 1
  BY DEF RingInv, PoppedOK, Reads, Read
<1>4. Window'
  BY <1>1 DEF RingInv, Window
<1>5. Unreserved'
  <2> SUFFICES ASSUME NEW k \in Lanes, NEW n \in Nat, n >= prod[k] PROVE seq'[k][Cell(n)] <= n
    BY <1>1 DEF Unreserved
  <2>1. CASE k = l /\ Cell(n) = Cell(pos)
    <3>1. pos < n
      BY <1>0, <1>3, <2>1 DEF RingInv, Window
    <3> QED
      BY <1>0, <1>1, <2>1, <3>1, CellLap
  <2>2. CASE ~(k = l /\ Cell(n) = Cell(pos))
    BY <1>1, <2>2 DEF RingInv, Unreserved
  <2> QED
    BY <2>1, <2>2
<1>6. ReservedOK'
  <2> SUFFICES ASSUME NEW s \in Requesters, Holds(s)
      PROVE  /\ cons[req[s].lane] <= req[s].pos /\ req[s].pos < prod[req[s].lane]
             /\ seq'[req[s].lane][Cell(req[s].pos)] = req[s].pos
    BY <1>1 DEF ReservedOK, Holds
  <2>1. /\ cons[req[s].lane] <= req[s].pos /\ req[s].pos < prod[req[s].lane]
        /\ seq[req[s].lane][Cell(req[s].pos)] = req[s].pos
    BY DEF RingInv, ReservedOK
  <2>2. ~(req[s].lane = l /\ Cell(req[s].pos) = Cell(pos))
    BY <1>0, <1>3, <2>1, CellNext
  <2>3. req[s].lane \in Lanes /\ req[s].pos \in Nat
    BY <1>0
  <2>4. seq'[req[s].lane][Cell(req[s].pos)] = seq[req[s].lane][Cell(req[s].pos)]
    BY <1>1, <2>2, <2>3
  <2> QED
    BY <2>1, <2>4
<1>7. ReservedOnce'
  BY <1>1 DEF RingInv, ReservedOnce, Holds
<1>8. PoppedOK'
  <2> SUFFICES ASSUME NEW d \in Claimers, Reads(d)'
      PROVE  /\ clm'[d].pos < cons[clm'[d].lane]
             /\ seq'[clm'[d].lane][Cell(clm'[d].pos)] = clm'[d].pos + 1
    BY <1>1 DEF PoppedOK
  <2>1. d # c /\ clm'[d] = clm[d] /\ Reads(d) /\ Reads(c)
    BY <1>2 DEF Reads, Read
  <2>2. clm[d].pos < cons[clm[d].lane] /\ seq[clm[d].lane][Cell(clm[d].pos)] = clm[d].pos + 1
    BY <2>1 DEF RingInv, PoppedOK
  <2>3. ~(clm[d].lane = l /\ Cell(clm[d].pos) = Cell(pos))
    <3> SUFFICES ASSUME clm[d].lane = l, Cell(clm[d].pos) = Cell(pos) PROVE FALSE
      OBVIOUS
    <3>1. clm[d].pos = pos
      BY <1>0, <1>3, <2>2, SMTT(30)
    <3> QED
      BY <2>1, <3>1 DEF RingInv, PoppedOnce
  <2>4. clm[d].lane \in Lanes /\ clm[d].pos \in Nat
    BY <1>0
  <2>5. seq'[clm[d].lane][Cell(clm[d].pos)] = seq[clm[d].lane][Cell(clm[d].pos)]
    BY <1>1, <2>3, <2>4
  <2> QED
    BY <2>1, <2>2, <2>5
<1>9. PoppedOnce'
  BY <1>2 DEF RingInv, PoppedOnce, Reads
<1> QED
  BY <1>4, <1>5, <1>6, <1>7, <1>8, <1>9 DEF RingInv

(* Every step keeps the ring invariant. *)
LEMMA RingStep == TypeOK /\ RingInv /\ [Next]_vars => RingInv'
<1> SUFFICES ASSUME TypeOK, RingInv, [Next]_vars PROVE RingInv'
  OBVIOUS
<1>0. /\ req \in [Requesters -> ReqType] /\ clm \in [Claimers -> ClmType]
      /\ ReqIdle.pc = "idle" /\ ClmIdle.pc = "idle"
  BY Consts DEF TypeOK, ReqType, ClmType
<1>1. ASSUME NEW r \in Requesters, NEW p \in Pages, NEW l \in Lanes, Request(r, p, l) PROVE RingInv'
  <2>1. \A s \in Requesters : Holds(s)' => Holds(s) /\ req'[s] = req[s]
    BY <1>0, <1>1 DEF Request, Holds
  <2> QED
    BY <1>1, <2>1, RingFrame DEF Request, ring, Reads
<1>2. ASSUME NEW r \in Requesters, QueueFull(r) PROVE RingInv'
  <2>1. \A s \in Requesters : Holds(s)' => Holds(s) /\ req'[s] = req[s]
    BY <1>0, <1>2 DEF QueueFull, Holds
  <2> QED
    BY <1>2, <2>1, RingFrame DEF QueueFull, ring, Reads
<1>3. ASSUME NEW r \in Requesters, RequestCas(r) PROVE RingInv'
  <2>1. \A s \in Requesters : Holds(s)' =>
          Holds(s) /\ req'[s].lane = req[s].lane /\ req'[s].pos = req[s].pos
    <3>1. \A s \in Requesters : s # r => req'[s] = req[s]
      BY <1>3, OnlyOneMoves DEF RequesterStep
    <3>2. req[r].pc = "cas" /\ req'[r].lane = req[r].lane /\ req'[r].pos = req[r].pos
      BY <1>0, <1>3 DEF RequestCas, ReqType
    <3> QED
      BY <3>1, <3>2 DEF Holds
  <2> QED
    BY <1>3, <2>1, RingFrame DEF RequestCas, ring, Reads
<1>4. ASSUME NEW r \in Requesters, PublishJob(r) PROVE RingInv'
  <2>1. ~Holds(r)' /\ Holds(r) /\ \A s \in Requesters : s # r => req'[s] = req[s]
    BY <1>0, <1>4 DEF PublishJob, Holds
  <2> QED
    BY <1>4, <2>1, RingStore DEF PublishJob
<1>5. ASSUME NEW r \in Requesters, PublishTombstone(r) PROVE RingInv'
  <2>1. ~Holds(r)' /\ Holds(r) /\ \A s \in Requesters : s # r => req'[s] = req[s]
    <3>1. /\ req[r] \in ReqType /\ [req[r] EXCEPT !.pc = "reserve", !.pos = 0].pc = "reserve"
          /\ req'[r] \in {ReqIdle, [req[r] EXCEPT !.pc = "reserve", !.pos = 0]}
      BY <1>0, <1>5 DEF PublishTombstone, ReqType
    <3>2. \A s \in Requesters : s # r => req'[s] = req[s]
      BY <1>5, OnlyOneMoves DEF RequesterStep
    <3> QED
      BY <1>0, <1>5, <3>1, <3>2 DEF PublishTombstone, Holds
  <2> QED
    BY <1>5, <2>1, RingStore DEF PublishTombstone
<1>6. ASSUME NEW c \in Claimers, Claim(c) \/ ScanNext(c) \/ ClaimStale(c) \/ ClaimCas(c)
      PROVE  RingInv'
  <2>1. DEMAND \in Lanes /\ clm[c].tries + 1 \in Nat /\ clm[c].tries \in Nat /\ clm[c].lane \in Lanes
    BY <1>0, Consts DEF DEMAND, ClmType
  <2>2. clm[c].lane # BACKGROUND => clm[c].lane - 1 \in Lanes
    BY <2>1, Consts DEF BACKGROUND
  <2>3. clm'[c].pc \in {"idle", "scan"}
    BY <1>0, <1>6, <2>1, <2>2, ScanType DEF Claim, ScanNext, ClaimStale, ClaimCas
  <2>4. \A d \in Claimers : d # c => clm'[d] = clm[d]
    BY <1>6, OnlyOneMoves DEF ClaimerStep
  <2>5. \A d \in Claimers : Reads(d)' => Reads(d) /\ clm'[d] = clm[d]
    BY <2>3, <2>4 DEF Reads
  <2>6. prod' = prod /\ cons' = cons /\ seq' = seq /\ req' = req
    BY <1>6 DEF Claim, ScanNext, ClaimStale, ClaimCas, ring
  <2> QED
    BY <2>5, <2>6, RingFrame DEF Holds
<1>7. ASSUME NEW p \in Pages, SeedCommit(p) \/ Count(p) PROVE RingInv'
  BY <1>7, RingFrame DEF SeedCommit, Count, ring, Holds, Reads
<1>8. ASSUME NEW j \in issued, Finish(j, COMMITTED) \/ Finish(j, FAILED) PROVE RingInv'
  BY <1>8, RingFrame DEF Finish, ring, Holds, Reads
<1>9. CASE UNCHANGED vars
  BY <1>9, RingFrame DEF vars, Holds, Reads
<1> QED
  BY <1>1, <1>2, <1>3, <1>4, <1>5, <1>6, <1>7, <1>8, <1>9, RingReserve, RingPop, RingRead,
     SchedAssumption DEF Next, RequesterStep, ClaimerStep
============================================================================
