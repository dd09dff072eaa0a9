------------------------------ MODULE SbSched ------------------------------
(***************************************************************************)
(* The SwiftBaton-U page scheduler, criu/criu/sb-sched.c: one ownership    *)
(* word per page and one bounded lock-free ring per lane, all in a shared  *)
(* mapping.  Every step below is one atomic access of the C code that      *)
(* another thread can observe: a successful compare-and-swap, or the       *)
(* release store that publishes or recycles a ring cell.                   *)
(*                                                                         *)
(* A word is the record [gen, st]; the C code packs it as gen * 16 + st.   *)
(* A ticket is the word a successful request stored, so `ticket + 4' (the  *)
(* word while the ticket's holder owns the page) keeps gen and adds 4 to   *)
(* st.                                                                     *)
(***************************************************************************)
EXTENDS Naturals, FiniteSets

CONSTANTS Pages,        \* pages of the migration address space
          Capacity,     \* cells of one lane's ring
          MaxGen,       \* largest generation a word can hold (2^60 - 1 in C)
          Requesters,   \* threads that call sb_sched_request
          Claimers,     \* threads that call sb_sched_claim
          NoPage,       \* the page number UINT64_MAX of a tombstone
          Submits,      \* Submits[r]: the lanes requester r asks for
          Mask          \* Mask[c]: the lanes claimer c passes to sb_sched_claim

Lanes == 0..2           \* SB_BACKGROUND, SB_PREFETCH, SB_DEMAND
BACKGROUND == 0
PREFETCH == 1
DEMAND == 2

IDLE == 0               \* enum sb_page_state
QueuedStates == 1..3
ActiveStates == 5..7
COMMITTED == 8
FAILED == 9
PRECOPY_PENDING == 10
States == {IDLE} \cup QueuedStates \cup ActiveStates
            \cup {COMMITTED, FAILED, PRECOPY_PENDING}

ASSUME SchedAssumption ==
  /\ Capacity \in Nat /\ Capacity >= 2
  /\ MaxGen \in Nat
  /\ IsFiniteSet(Pages) /\ NoPage \notin Pages
  /\ Submits \in [Requesters -> SUBSET Lanes]
  /\ Mask \in [Claimers -> (SUBSET Lanes) \ {{}}]

Words == [gen : Nat, st : States]
Tickets == [gen : Nat, st : QueuedStates]
Zero == [gen |-> 0, st |-> IDLE]
Jobs == [page : Pages \cup {NoPage}, ticket : Words]
Tombstone == [page |-> NoPage, ticket |-> Zero]

VARIABLES word,       \* word[p]: generation and state of page p
          prod,       \* prod[l]: next position a producer of lane l reserves
          cons,       \* cons[l]: next position a consumer of lane l takes
          seq,        \* seq[l][i]: sequence number of cell i of lane l
          job,        \* job[l][i]: the job stored in cell i of lane l
          req,        \* req[r]: locals of sb_sched_request in thread r
          clm,        \* clm[c]: locals of sb_sched_claim in thread c
          issued,     \* jobs returned by sb_sched_claim
          uncounted,  \* pages whose final state is stored, not yet counted
          committed,  \* stats.committed
          failed      \* stats.failed

vars == <<word, prod, cons, seq, job, req, clm, issued, uncounted, committed, failed>>
ring == <<prod, cons, seq, job>>

Cell(pos) == pos % Capacity
Active(ticket) == [ticket EXCEPT !.st = @ + 4]
Token(w, l) == [gen |-> w.gen + 1, st |-> l + 1]

ReqIdle == [pc |-> "idle", page |-> NoPage, lane |-> 0, word |-> Zero, pos |-> 0]
ClmIdle == [pc |-> "idle", lane |-> 0, pos |-> 0, job |-> Tombstone, tries |-> 0]

(* sb_sched_init_zeroed, then sb_sched_seed_bitmap (or sb_sched_seed page  *)
(* by page) for the pages already copied, both before any thread runs.     *)
Init ==
  /\ \E seeded \in SUBSET Pages :
       word = [p \in Pages |-> [gen |-> 0, st |-> IF p \in seeded THEN PRECOPY_PENDING ELSE IDLE]]
  /\ prod = [l \in Lanes |-> 0]
  /\ cons = [l \in Lanes |-> 0]
  /\ seq = [l \in Lanes |-> [i \in 0..Capacity - 1 |-> i]]
  /\ job = [l \in Lanes |-> [i \in 0..Capacity - 1 |-> Tombstone]]
  /\ req = [r \in Requesters |-> ReqIdle]
  /\ clm = [c \in Claimers |-> ClmIdle]
  /\ issued = {}
  /\ uncounted = {}
  /\ committed = 0
  /\ failed = 0

----------------------------------------------------------------------------
(* The swap of sb_sched_seed_commit; Count is its fetch-and-add. *)
SeedCommit(p) ==
  /\ word[p] = [gen |-> 0, st |-> PRECOPY_PENDING]
  /\ word' = [word EXCEPT ![p] = [gen |-> 0, st |-> COMMITTED]]
  /\ uncounted' = uncounted \cup {p}
  /\ UNCHANGED <<ring, req, clm, issued, committed, failed>>

(* Whether a request of lane l goes on after reading w: not failed, not    *)
(* owned or final, not queued at this priority or above, generation left.  *)
Wants(w, l) == w.st < 5 /\ w.st < l + 1 /\ w.gen < MaxGen

(* sb_sched_request up to its load of the word.  A request that returns    *)
(* EIO, EOVERFLOW or 0 here changes nothing.                               *)
Request(r, p, l) ==
  /\ req[r].pc = "idle"
  /\ failed = 0
  /\ Wants(word[p], l)
  /\ req' = [req EXCEPT ![r] = [pc |-> "reserve", page |-> p, lane |-> l,
                                word |-> word[p], pos |-> 0]]
  /\ UNCHANGED <<word, ring, clm, issued, uncounted, committed, failed>>

(* Mutant: the producer takes the position whether or not it was recycled. *)
ReserveOverwriting(r) ==
  LET l == req[r].lane  pos == prod[l] IN
  /\ req[r].pc = "reserve"
  /\ prod' = [prod EXCEPT ![l] = pos + 1]
  /\ req' = [req EXCEPT ![r] = [@ EXCEPT !.pc = "cas", !.pos = pos]]
  /\ UNCHANGED <<word, cons, seq, job, clm, issued, uncounted, committed, failed>>

(* reserve(): the swap of the producer index succeeds. *)
Reserve(r) ==
  LET l == req[r].lane  pos == prod[l] IN
  /\ req[r].pc = "reserve"
  /\ seq[l][Cell(pos)] = pos
  /\ prod' = [prod EXCEPT ![l] = pos + 1]
  /\ req' = [req EXCEPT ![r] = [@ EXCEPT !.pc = "cas", !.pos = pos]]
  /\ UNCHANGED <<word, cons, seq, job, clm, issued, uncounted, committed, failed>>

(* reserve() returns NULL and the request EAGAIN: the cell is not recycled. *)
QueueFull(r) ==
  LET l == req[r].lane IN
  /\ req[r].pc = "reserve"
  /\ seq[l][Cell(prod[l])] < prod[l]
  /\ req' = [req EXCEPT ![r] = ReqIdle]
  /\ UNCHANGED <<word, ring, clm, issued, uncounted, committed, failed>>

(* Mutant: the ownership word is stored without comparing it first. *)
RequestBlind(r) ==
  /\ req[r].pc = "cas"
  /\ word' = [word EXCEPT ![req[r].page] = Token(@, req[r].lane)]
  /\ req' = [req EXCEPT ![r] = [@ EXCEPT !.pc = "publish"]]
  /\ UNCHANGED <<ring, clm, issued, uncounted, committed, failed>>

(* The ownership swap.  When it loses, the C code keeps the word it saw. *)
RequestCas(r) ==
  LET p == req[r].page IN
  /\ req[r].pc = "cas"
  /\ IF word[p] = req[r].word
       THEN /\ word' = [word EXCEPT ![p] = Token(@, req[r].lane)]
            /\ req' = [req EXCEPT ![r] = [@ EXCEPT !.pc = "publish"]]
       ELSE /\ word' = word
            /\ req' = [req EXCEPT ![r] = [@ EXCEPT !.pc = "tombstone", !.word = word[p]]]
  /\ UNCHANGED <<ring, clm, issued, uncounted, committed, failed>>

(* The release store of the cell's sequence that publishes job j. *)
Store(r, j) ==
  LET l == req[r].lane  pos == req[r].pos IN
  /\ job' = [job EXCEPT ![l][Cell(pos)] = j]
  /\ seq' = [seq EXCEPT ![l][Cell(pos)] = pos + 1]
  /\ UNCHANGED <<prod, cons>>

PublishJob(r) ==
  /\ req[r].pc = "publish"
  /\ Store(r, [page |-> req[r].page, ticket |-> Token(req[r].word, req[r].lane)])
  /\ req' = [req EXCEPT ![r] = ReqIdle]
  /\ UNCHANGED <<word, clm, issued, uncounted, committed, failed>>

(* Mutant: a lost reservation is abandoned instead of published. *)
AbandonReservation(r) ==
  /\ req[r].pc = "tombstone"
  /\ req' = [req EXCEPT ![r] = IF Wants(req[r].word, req[r].lane)
                                 THEN [req[r] EXCEPT !.pc = "reserve", !.pos = 0]
                                 ELSE ReqIdle]
  /\ UNCHANGED <<word, ring, clm, issued, uncounted, committed, failed>>

(* A lost reservation is published as a tombstone; the loop then judges    *)
(* the word the losing swap returned.                                      *)
PublishTombstone(r) ==
  /\ req[r].pc = "tombstone"
  /\ Store(r, Tombstone)
  /\ req' = [req EXCEPT ![r] = IF Wants(req[r].word, req[r].lane)
                                 THEN [req[r] EXCEPT !.pc = "reserve", !.pos = 0]
                                 ELSE ReqIdle]
  /\ UNCHANGED <<word, clm, issued, uncounted, committed, failed>>

----------------------------------------------------------------------------
(* The lanes of the mask from lane l down, and the loop of sb_sched_claim  *)
(* at the highest of them (lanes outside the mask are skipped).            *)
Below(c, l) == {k \in Mask[c] : k <= l}
Scan(c, l, n) ==
  IF Below(c, l) = {} THEN ClmIdle
  ELSE [ClmIdle EXCEPT !.pc = "scan", !.tries = n,
                       !.lane = CHOOSE k \in Below(c, l) : \A m \in Below(c, l) : m <= k]

(* sb_sched_claim enters its loop at the demand lane; EIO once failed. *)
Claim(c) ==
  /\ clm[c].pc = "idle"
  /\ failed = 0
  /\ clm' = [clm EXCEPT ![c] = Scan(c, DEMAND, 0)]
  /\ UNCHANGED <<word, ring, req, issued, uncounted, committed, failed>>

(* Mutant: the cell is recycled before its job is copied out. *)
PopRecycling(c) ==
  LET l == clm[c].lane  pos == cons[l] IN
  /\ clm[c].pc = "scan"
  /\ seq[l][Cell(pos)] = pos + 1
  /\ cons' = [cons EXCEPT ![l] = pos + 1]
  /\ seq' = [seq EXCEPT ![l][Cell(pos)] = pos + Capacity]
  /\ clm' = [clm EXCEPT ![c] = [@ EXCEPT !.pc = "read", !.pos = pos]]
  /\ UNCHANGED <<word, prod, job, req, issued, uncounted, committed, failed>>

(* pop(): the swap of the consumer index succeeds. *)
Pop(c) ==
  LET l == clm[c].lane  pos == cons[l] IN
  /\ clm[c].pc = "scan"
  /\ seq[l][Cell(pos)] = pos + 1
  /\ cons' = [cons EXCEPT ![l] = pos + 1]
  /\ clm' = [clm EXCEPT ![c] = [@ EXCEPT !.pc = "read", !.pos = pos]]
  /\ UNCHANGED <<word, prod, seq, job, req, issued, uncounted, committed, failed>>

(* pop() returns 0: the next lower lane of the mask, or return 0. *)
ScanNext(c) ==
  LET l == clm[c].lane IN
  /\ clm[c].pc = "scan"
  /\ seq[l][Cell(cons[l])] < cons[l] + 1
  /\ clm' = [clm EXCEPT ![c] = IF l = BACKGROUND THEN ClmIdle ELSE Scan(c, l - 1, clm[c].tries)]
  /\ UNCHANGED <<word, ring, req, issued, uncounted, committed, failed>>

(* pop() copies the job and recycles the cell for the ring's next lap; the *)
(* cell's old content is dead until the next publication overwrites it.    *)
Read(c) ==
  LET l == clm[c].lane  pos == clm[c].pos IN
  /\ clm[c].pc = "read"
  /\ seq' = [seq EXCEPT ![l][Cell(pos)] = pos + Capacity]
  /\ job' = [job EXCEPT ![l][Cell(pos)] = Tombstone]
  /\ clm' = [clm EXCEPT ![c] = [@ EXCEPT !.pc = "cas", !.job = job[l][Cell(pos)]]]
  /\ UNCHANGED <<word, prod, cons, req, issued, uncounted, committed, failed>>

(* Mutant: a popped job is believed without comparing the word. *)
FreshByState(j, l) == j.page \in Pages /\ j.ticket.st = l + 1
Fresh(j, l) == j.page \in Pages /\ j.ticket.st = l + 1 /\ word[j.page] = j.ticket

(* The ownership swap of a claim: the caller owns the page until the ack. *)
ClaimCas(c) ==
  LET j == clm[c].job IN
  /\ clm[c].pc = "cas"
  /\ Fresh(j, clm[c].lane)
  /\ word' = [word EXCEPT ![j.page] = Active(j.ticket)]
  /\ issued' = issued \cup {j}
  /\ clm' = [clm EXCEPT ![c] = ClmIdle]
  /\ UNCHANGED <<ring, req, uncounted, committed, failed>>

(* A stale or tombstone entry restarts the scan at demand, boundedly often. *)
ClaimStale(c) ==
  LET n == clm[c].tries + 1 IN
  /\ clm[c].pc = "cas"
  /\ ~Fresh(clm[c].job, clm[c].lane)
  /\ clm' = [clm EXCEPT ![c] = IF n < 3 * Capacity THEN Scan(c, DEMAND, n) ELSE ClmIdle]
  /\ UNCHANGED <<word, ring, req, issued, uncounted, committed, failed>>

(* finish(): the swap of sb_sched_commit and sb_sched_fail.  Any job ever  *)
(* claimed may be acknowledged, again or late; a stale one gets ESTALE.    *)
Finish(j, st) ==
  /\ word[j.page] = Active(j.ticket)
  /\ word' = [word EXCEPT ![j.page] = [j.ticket EXCEPT !.st = st]]
  /\ uncounted' = uncounted \cup {j.page}
  /\ UNCHANGED <<ring, req, clm, issued, committed, failed>>

(* The fetch-and-add that follows a successful final swap. *)
Count(p) ==
  /\ p \in uncounted
  /\ uncounted' = uncounted \ {p}
  /\ IF word[p].st = COMMITTED
       THEN committed' = committed + 1 /\ failed' = failed
       ELSE failed' = failed + 1 /\ committed' = committed
  /\ UNCHANGED <<word, ring, req, clm, issued>>

RequesterStep(r) == Reserve(r) \/ QueueFull(r) \/ RequestCas(r) \/ PublishJob(r) \/ PublishTombstone(r)
ClaimerStep(c) == Claim(c) \/ Pop(c) \/ ScanNext(c) \/ Read(c) \/ ClaimCas(c) \/ ClaimStale(c)

Next ==
  \/ \E p \in Pages : SeedCommit(p) \/ Count(p)
  \/ \E r \in Requesters, p \in Pages : \E l \in Submits[r] : Request(r, p, l)
  \/ \E r \in Requesters : RequesterStep(r)
  \/ \E c \in Claimers : ClaimerStep(c)
  \/ \E j \in issued : Finish(j, COMMITTED) \/ Finish(j, FAILED)

Spec == Init /\ [][Next]_vars

(* Threads between two accesses, the source threads' claim loops, the      *)
(* receiver's acknowledgements and the counters keep running; nobody is    *)
(* obliged to request, to seed or to fail a page.                          *)
Fairness ==
  /\ \A r \in Requesters : WF_vars(RequesterStep(r))
  /\ \A c \in Claimers : WF_vars(ClaimerStep(c))
  /\ \A p \in Pages : /\ WF_vars(SeedCommit(p)) /\ WF_vars(Count(p))
                      /\ WF_vars(\E j \in issued : j.page = p /\ Finish(j, COMMITTED))

FairSpec == Spec /\ Fairness
----------------------------------------------------------------------------
(* The shapes of all the scheduler's shared and thread-local state. *)
TypeOK ==
  /\ word \in [Pages -> Words]
  /\ prod \in [Lanes -> Nat]
  /\ cons \in [Lanes -> Nat]
  /\ seq \in [Lanes -> [0..Capacity - 1 -> Nat]]
  /\ job \in [Lanes -> [0..Capacity - 1 -> Jobs]]
  /\ req \in [Requesters -> [pc : {"idle", "reserve", "cas", "publish", "tombstone"},
                              page : Pages \cup {NoPage}, lane : Lanes, word : Words, pos : Nat]]
  /\ clm \in [Claimers -> [pc : {"idle", "scan", "read", "cas"}, lane : Lanes, pos : Nat,
                            job : Jobs, tries : Nat]]
  /\ issued \subseteq [page : Pages, ticket : Tickets]
  /\ uncounted \subseteq Pages
  /\ committed \in Nat
  /\ failed \in Nat

(* Where a queued ticket can be: with the request that stored it and has   *)
(* not yet published it, in an unread cell, or with a claim that popped it. *)
Publishing(p, t) ==
  \E r \in Requesters : /\ req[r].pc = "publish" /\ req[r].page = p
                        /\ Token(req[r].word, req[r].lane) = t
InCell(p, t, l, pos) ==
  seq[l][Cell(pos)] = pos + 1 /\ job[l][Cell(pos)] = [page |-> p, ticket |-> t]
InRing(p, t) ==
  \E pos \in cons[t.st - 1]..prod[t.st - 1] - 1 : InCell(p, t, t.st - 1, pos)
Popped(p, t) ==
  \E c \in Claimers :
    /\ clm[c].lane = t.st - 1
    /\ \/ clm[c].pc = "read" /\ InCell(p, t, t.st - 1, clm[c].pos)
       \/ clm[c].pc = "cas" /\ clm[c].job = [page |-> p, ticket |-> t]

(* No page is lost: whatever requests race, promote or find a ring full, a *)
(* page marked queued has its current ticket in the ring of its lane (or   *)
(* in the hands of the thread moving it there or out of it), so that some  *)
(* claim will meet it.  This is what reserving the cell before the         *)
(* ownership swap is for.                                                  *)
NoLostPage ==
  \A p \in Pages : word[p].st \in QueuedStates =>
    Publishing(p, word[p]) \/ InRing(p, word[p]) \/ Popped(p, word[p])

(* A page is handed to one transfer at most, however often it is requested *)
(* or promoted: claims never return two jobs for one page.                 *)
TransferredOnce == \A j, k \in issued : j.page = k.page => j = k

(* While a claim still copies a job out of its cell, or a request still    *)
(* fills a reserved one, no other thread holds the same cell.              *)
Held(l, pos) ==
  {<<"req", r>> : r \in {r \in Requesters : /\ req[r].pc \in {"cas", "publish", "tombstone"}
                                           /\ req[r].lane = l /\ Cell(req[r].pos) = Cell(pos)}}
  \cup {<<"clm", c>> : c \in {c \in Claimers : /\ clm[c].pc = "read"
                                             /\ clm[c].lane = l /\ Cell(clm[c].pos) = Cell(pos)}}
CellExclusive ==
  \A l \in Lanes, i \in 0..Capacity - 1 : \A h, k \in Held(l, i) : h = k

(* The completion test of the source, committed = pages, is sound: the     *)
(* counter may lag behind the words but never runs ahead of them.          *)
CommittedSound ==
  committed + Cardinality({p \in uncounted : word[p].st = COMMITTED})
    = Cardinality({p \in Pages : word[p].st = COMMITTED})

(* What the scheduler promises its callers, PageHandoff, under the mapping *)
(* that forgets generations, lanes, rings and threads.                     *)
Status(w) == CASE w.st = IDLE -> "idle"
               [] w.st = PRECOPY_PENDING -> "reserved"
               [] w.st \in QueuedStates -> "wanted"
               [] w.st \in ActiveStates -> "owned"
               [] w.st = COMMITTED -> "committed"
               [] w.st = FAILED -> "failed"
Handoff == INSTANCE PageHandoff WITH status <- [p \in Pages |-> Status(word[p])]

(* The lock-free scheduler implements the promise, fairness included: each *)
(* page goes once through wanted, owned and committed, in that order, and  *)
(* a wanted page is picked up.                                             *)
ImplementsHandoff == Handoff!FairSpec

(* A requested page is eventually owned by a transfer and committed, unless *)
(* some page failed: promotions, tombstones and a full ring delay it only. *)
Delivered ==
  \A p \in Pages : (word[p].st \in QueuedStates)
                    ~> (word[p].st = COMMITTED \/ \E q \in Pages : word[q].st = FAILED)
============================================================================
