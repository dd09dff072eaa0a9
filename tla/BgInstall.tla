----------------------------- MODULE BgInstall -----------------------------
(***************************************************************************)
(* Background transfer (sb-transfer.c, sb-bg-install.h).  The source sends  *)
(* batches of pages into the slots of a ring on the destination.  There a   *)
(* coordinator publishes the pages of a batch, workers install them, and    *)
(* the demand thread of the process installs a page itself when a fault     *)
(* wants one that has arrived already.  A slot goes back to the source when *)
(* all its pages are installed.  One action per atomic access.              *)
(*                                                                          *)
(* The demand lane, on which the source answers a request for a page it has *)
(* not sent yet, is reduced to its effect; SbSched models who may claim a   *)
(* page on the source, Lifecycle what installing one does.                  *)
(***************************************************************************)
EXTENDS Naturals, Sequences, FiniteSets, SequencesExt

CONSTANTS Pages,        \* the pages of the source
          Faulting,     \* the pages the restored process touches
          Workers,      \* the background workers
          Demand,       \* the demand thread, which reads the faults
          SB_BG_SLOTS,  \* slots of the ring
          MaxBatch,     \* pages of a batch
          AssistSlots,  \* SB_BG_ASSIST_SLOTS
          None

ASSUME BgAssumption ==
  /\ SB_BG_SLOTS \in Nat /\ SB_BG_SLOTS >= 2
  /\ MaxBatch \in Nat \ {0} /\ AssistSlots \in Nat
  /\ Faulting \subseteq Pages /\ Demand \notin Workers

Takers == Workers \cup {Demand}
Slots == 0 .. SB_BG_SLOTS - 1
Indices == 1 .. MaxBatch
After(s) == (s + 1) % SB_BG_SLOTS

VARIABLES
  \* the source
  unsent,      \* pages no lane has claimed
  fast,        \* pages claimed by the demand lane and not installed yet
  acknowledged, sent, committed,
  source_done, \* the final frame has been sent
  \* the ring in the destination's memory
  head, tail, frames,
  \* the coordinator
  cpc, receive, retire, active, generation, item,
  \* shared between coordinator, workers and demand thread
  position, count, remaining, token, directory, cell, assists, overflow,
  \* workers and demand thread
  tpc,
  hand,        \* the handle being taken
  look,        \* a worker's loaded position; the page a fault looks for
  stop,        \* bg_workers_stop
  \* the restored process
  faulted, asked, requests,
  installed,   \* how often each page has been installed
  died         \* some check of the program failed

source == <<unsent, fast, acknowledged, sent, committed, source_done>>
ring   == <<head, tail, frames>>
coord  == <<cpc, receive, retire, active, generation, item>>
shared == <<position, count, remaining, token, directory, cell, assists, overflow>>
taker  == <<tpc, hand, look, stop>>
app    == <<faulted, asked, requests, installed, died>>
vars   == <<source, ring, coord, shared, taker, app>>

Final == <<>>   \* the frame with id -1

Init ==
  /\ unsent = Pages /\ fast = {} /\ acknowledged = 0 /\ committed = {}
  /\ source_done = FALSE
  /\ sent = [s \in Slots |-> {}]
  /\ head = 0 /\ tail = 0 /\ frames = [s \in Slots |-> Final]
  /\ cpc = "idle" /\ receive = 0 /\ retire = 0 /\ active = 0 /\ generation = 0
  /\ item = 1
  /\ position = [s \in Slots |-> [gen |-> 0, at |-> 1]]
  /\ count = [s \in Slots |-> 0] /\ remaining = [s \in Slots |-> 0]
  /\ token = [s \in Slots |-> [i \in Indices |-> [gen |-> 0, is |-> "DONE"]]]
  /\ directory = [s \in Slots |-> [i \in Indices |-> None]]
  /\ cell = [p \in Pages |-> [handle |-> None, wanted |-> FALSE]]
  /\ assists = <<>> /\ overflow = {}
  /\ tpc = [t \in Takers |-> "idle"]
  /\ hand = [t \in Takers |-> None]
  /\ look = [t \in Takers |-> None]
  /\ stop = FALSE
  /\ faulted = {} /\ asked = {} /\ requests = {}
  /\ installed = [p \in Pages |-> 0]
  /\ died = FALSE

----------------------------------------------------------------------------
(* source_background *)

(* The acknowledged batches of the last turn are committed. *)
SourceCommit ==
  /\ acknowledged # tail
  /\ committed' = committed \cup sent[acknowledged]
  /\ sent' = [sent EXCEPT ![acknowledged] = {}]
  /\ acknowledged' = After(acknowledged)
  /\ UNCHANGED <<unsent, fast, source_done, ring, coord, shared, taker, app>>

(* Data and head are written by one ordered chain. *)
SourceSend ==
  /\ acknowledged = tail /\ After(head) # tail
  /\ \E batch \in SUBSET unsent :
       /\ Cardinality(batch) \in Indices
       /\ unsent' = unsent \ batch
       /\ sent' = [sent EXCEPT ![head] = batch]
       /\ frames' = [frames EXCEPT ![head] = SetToSeq(batch)]
  /\ head' = After(head)
  /\ UNCHANGED <<fast, acknowledged, committed, source_done, tail, coord, shared, taker, app>>

SourceFinal ==
  /\ acknowledged = tail /\ committed = Pages /\ ~source_done
  /\ source_done' = TRUE
  /\ frames' = [frames EXCEPT ![head] = Final]
  /\ head' = After(head)
  /\ UNCHANGED <<unsent, fast, acknowledged, sent, committed, tail, coord, shared, taker,
                 app>>

(* source_demand: a request is answered when no lane has claimed the page,  *)
(* and the response is installed and committed.                             *)
SourceAnswer(p) ==
  /\ p \in requests
  /\ requests' = requests \ {p}
  /\ unsent' = unsent \ {p}
  /\ fast' = fast \cup ({p} \cap unsent)
  /\ UNCHANGED <<acknowledged, sent, committed, source_done, ring, coord, shared, taker,
                 faulted, asked, installed, died>>

FastInstall(p) ==
  /\ p \in fast
  /\ fast' = fast \ {p}
  /\ committed' = committed \cup {p}
  /\ installed' = [installed EXCEPT ![p] = @ + 1]
  /\ UNCHANGED <<unsent, acknowledged, sent, source_done, ring, coord, shared, taker,
                 faulted, asked, requests, died>>


----------------------------------------------------------------------------
(* client_background, the coordinator.  Handles are <<generation, slot,     *)
(* index>>.                                                                 *)

Batch == frames[receive]
Handle == <<generation, receive, item>>

Receive ==
  /\ cpc = "idle" /\ receive # head /\ Batch # Final
  /\ generation' = generation + 1
  /\ died' = (remaining[receive] # 0)
  /\ remaining' = [remaining EXCEPT ![receive] = Len(Batch)]
  /\ item' = 1 /\ cpc' = "owner"
  /\ UNCHANGED <<source, ring, receive, retire, active, position, count, token,
                 directory, cell, assists, overflow, taker, faulted, asked, requests,
                 installed>>

(* sb_bg_publish_owner *)
PublishOwner ==
  /\ cpc = "owner" /\ item <= Len(Batch)
  /\ directory' = [directory EXCEPT ![receive][item] = Batch[item]]
  /\ token' = [token EXCEPT ![receive][item] = [gen |-> generation, is |-> "READY"]]
  /\ cpc' = "bind"
  /\ UNCHANGED <<source, ring, receive, retire, active, generation, item, position,
                 count, remaining, cell, assists, overflow, taker, app>>

NextItem == item' = item + 1 /\ cpc' = "owner"

(* Mutant: the wanted bit of a page that arrives is overlooked. *)
BindUnseen ==
  /\ cpc = "bind"
  /\ LET p == directory[receive][item]
     IN  /\ died' = (cell[p].handle # None)
         /\ cell' = [cell EXCEPT ![p] = [handle |-> Handle, wanted |-> FALSE]]
         /\ NextItem
  /\ UNCHANGED <<source, ring, receive, retire, active, generation, position, count,
                 remaining, token, directory, assists, overflow, taker, faulted, asked,
                 requests, installed>>

(* sb_bg_bind: one exchange tells whether a fault already wants the page. *)
Bind ==
  /\ cpc = "bind"
  /\ LET p == directory[receive][item]
     IN  /\ died' = (cell[p].handle # None)
         /\ cell' = [cell EXCEPT ![p] = [handle |-> Handle, wanted |-> FALSE]]
         /\ IF cell[p].wanted THEN cpc' = "push" /\ UNCHANGED item ELSE NextItem
  /\ UNCHANGED <<source, ring, receive, retire, active, generation, position, count,
                 remaining, token, directory, assists, overflow, taker, faulted, asked,
                 requests, installed>>

AssistPush ==
  /\ cpc = "push"
  /\ IF Len(assists) < AssistSlots
       THEN assists' = Append(assists, Handle) /\ UNCHANGED overflow
       ELSE overflow' = overflow \cup {Handle} /\ UNCHANGED assists
  /\ NextItem
  /\ UNCHANGED <<source, ring, receive, retire, active, generation, position, count,
                 remaining, token, directory, cell, taker, app>>

(* sb_bg_publish_cursor: the count first, then the position. *)
PublishCount ==
  /\ cpc = "owner" /\ item > Len(Batch)
  /\ count' = [count EXCEPT ![receive] = Len(Batch)]
  /\ cpc' = "position"
  /\ UNCHANGED <<source, ring, receive, retire, active, generation, item, position,
                 remaining, token, directory, cell, assists, overflow, taker, app>>
PublishPosition ==
  /\ cpc = "position"
  /\ position' = [position EXCEPT ![receive] = [gen |-> generation, at |-> 1]]
  /\ receive' = After(receive) /\ active' = active + 1
  /\ cpc' = "idle"
  /\ UNCHANGED <<source, ring, retire, generation, item, count, remaining, token,
                 directory, cell, assists, overflow, taker, app>>

ReceiveFinal ==
  /\ cpc = "idle" /\ receive # head /\ Batch = Final
  /\ died' = (active # 0 \/ retire # receive)
  /\ receive' = After(receive) /\ retire' = After(receive)
  /\ cpc' = "final"
  /\ UNCHANGED <<source, ring, active, generation, item, shared, taker, faulted, asked,
                 requests, installed>>

(* Mutant: a slot is retired when its last page has been picked up. *)
RetireExhausted ==
  /\ cpc \in {"idle", "retired"} /\ retire # receive
  /\ position[retire].at > count[retire]
  /\ retire' = After(retire) /\ active' = active - 1
  /\ cpc' = "retired"
  /\ UNCHANGED <<source, ring, receive, generation, item, shared, taker, app>>

Retire ==
  /\ cpc \in {"idle", "retired"} /\ retire # receive /\ remaining[retire] = 0
  /\ retire' = After(retire) /\ active' = active - 1
  /\ cpc' = "retired"
  /\ UNCHANGED <<source, ring, receive, generation, item, shared, taker, app>>

(* The retired slots go back to the source. *)
Acknowledge ==
  /\ cpc \in {"retired", "final"}
  /\ tail' = retire
  /\ cpc' = IF cpc = "final" THEN "end" ELSE "idle"
  /\ stop' = (cpc = "final")
  /\ UNCHANGED <<source, head, frames, receive, retire, active, generation, item,
                 shared, tpc, hand, look, app>>

Coordinator ==
  \/ Receive \/ PublishOwner \/ Bind \/ AssistPush \/ PublishCount \/ PublishPosition
  \/ ReceiveFinal \/ Retire \/ Acknowledge

----------------------------------------------------------------------------
(* bg_pipeline_worker and sb_bg_next: load the position of some slot, and   *)
(* compare and swap it to the next page while there is one.                 *)

Goto(t, to) == tpc' = [tpc EXCEPT ![t] = to]

NextLoad(t, s) ==
  /\ t \in Workers /\ tpc[t] = "idle" /\ ~stop /\ position[s].gen # 0
  /\ look' = [look EXCEPT ![t] = [slot |-> s, gen |-> position[s].gen, at |-> position[s].at]]
  /\ Goto(t, "count")
  /\ UNCHANGED <<source, ring, coord, shared, hand, stop, app>>

(* Mutant: the last page of a batch is never picked up. *)
NextCountShort(t) ==
  /\ tpc[t] = "count"
  /\ IF look[t].at < count[look[t].slot]
       THEN Goto(t, "swap") /\ UNCHANGED look
       ELSE Goto(t, "idle") /\ look' = [look EXCEPT ![t] = None]
  /\ UNCHANGED <<source, ring, coord, shared, hand, stop, app>>

NextCount(t) ==
  /\ tpc[t] = "count"
  /\ IF look[t].at <= count[look[t].slot]
       THEN Goto(t, "swap") /\ UNCHANGED look
       ELSE Goto(t, "idle") /\ look' = [look EXCEPT ![t] = None]
  /\ UNCHANGED <<source, ring, coord, shared, hand, stop, app>>

NextSwap(t) ==
  /\ tpc[t] = "swap"
  /\ LET l == look[t]
         now == position[l.slot]
     IN  \/ /\ now = [gen |-> l.gen, at |-> l.at]
            /\ position' = [position EXCEPT ![l.slot].at = @ + 1]
            /\ hand' = [hand EXCEPT ![t] = <<l.gen, l.slot, l.at>>]
            /\ look' = [look EXCEPT ![t] = None]
            /\ Goto(t, "claim")
         \/ /\ now # [gen |-> l.gen, at |-> l.at]
            /\ look' = [look EXCEPT ![t] = [slot |-> l.slot, gen |-> now.gen, at |-> now.at]]
            /\ Goto(t, "count")
            /\ UNCHANGED <<position, hand>>
  /\ UNCHANGED <<source, ring, coord, count, remaining, token, directory, cell, assists,
                 overflow, stop, app>>

----------------------------------------------------------------------------
(* bg_take *)
Gen(t) == hand[t][1]
Slot(t) == hand[t][2]
Index(t) == hand[t][3]
Token(t) == token[Slot(t)][Index(t)]
Owned(t) == Token(t) = [gen |-> Gen(t), is |-> "OWNED"]
SetToken(t, is) == token' = [token EXCEPT ![Slot(t)][Index(t)] = [gen |-> Gen(t), is |-> is]]

(* Mutant: the claim of a page is a load and a store. *)
ClaimUnchecked(t) ==
  /\ tpc[t] \in {"claim", "direct"}
  /\ SetToken(t, "OWNED") /\ Goto(t, "copy")
  /\ UNCHANGED <<source, ring, coord, position, count, remaining, directory, cell,
                 assists, overflow, hand, look, stop, app>>

(* Only the thread whose compare and swap succeeds touches the page.  The   *)
(* demand thread, refused, asks the source when it came from a fault.       *)
Claim(t) ==
  /\ tpc[t] \in {"claim", "direct"}
  /\ IF Token(t) = [gen |-> Gen(t), is |-> "READY"]
       THEN SetToken(t, "OWNED") /\ Goto(t, "copy") /\ UNCHANGED <<hand, look, requests>>
       ELSE /\ Goto(t, "idle")
            /\ hand' = [hand EXCEPT ![t] = None]
            /\ look' = [look EXCEPT ![t] = None]
            /\ requests' = IF tpc[t] = "direct" THEN requests \cup {look[t]} ELSE requests
            /\ UNCHANGED token
  /\ UNCHANGED <<source, ring, coord, position, count, remaining, directory, cell,
                 assists, overflow, stop, faulted, asked, installed, died>>

(* install of the page that the frame names *)
Copy(t) ==
  /\ tpc[t] = "copy"
  /\ died' = (Index(t) > Len(frames[Slot(t)]))
  /\ installed' = IF died' THEN installed
                  ELSE [installed EXCEPT ![frames[Slot(t)][Index(t)]] = @ + 1]
  /\ Goto(t, "unbind")
  /\ UNCHANGED <<source, ring, coord, shared, hand, look, stop, faulted, asked, requests>>

Unbind(t) ==
  /\ tpc[t] = "unbind"
  /\ LET p == directory[Slot(t)][Index(t)]
     IN  /\ died' = (cell[p].handle # hand[t])
         /\ cell' = [cell EXCEPT ![p] = [handle |-> None, wanted |-> FALSE]]
  /\ Goto(t, "finish")
  /\ UNCHANGED <<source, ring, coord, position, count, remaining, token, directory,
                 assists, overflow, hand, look, stop, faulted, asked, requests, installed>>

FinishTake(t) ==
  /\ tpc[t] = "finish"
  /\ died' = ~Owned(t)
  /\ IF Owned(t) THEN SetToken(t, "DONE") ELSE UNCHANGED token
  /\ Goto(t, "done")
  /\ UNCHANGED <<source, ring, coord, position, count, remaining, directory, cell,
                 assists, overflow, hand, look, stop, faulted, asked, requests, installed>>

Complete(t) ==
  /\ tpc[t] = "done"
  /\ died' = (remaining[Slot(t)] = 0)
  /\ remaining' = [remaining EXCEPT ![Slot(t)] = IF @ = 0 THEN 0 ELSE @ - 1]
  /\ hand' = [hand EXCEPT ![t] = None]
  /\ look' = [look EXCEPT ![t] = None]
  /\ Goto(t, "idle")
  /\ UNCHANGED <<source, ring, coord, position, count, token, directory, cell, assists,
                 overflow, stop, faulted, asked, requests, installed>>

Take(t) == Claim(t) \/ Copy(t) \/ Unbind(t) \/ FinishTake(t) \/ Complete(t)

----------------------------------------------------------------------------
(* client_demand *)

(* A fault whose event the lifecycle layer reads and translates. *)
Fault(p) ==
  /\ p \in Faulting \ faulted /\ installed[p] = 0
  /\ faulted' = faulted \cup {p}
  /\ UNCHANGED <<source, ring, coord, shared, taker, asked, requests, installed, died>>

DemandRuns == tpc[Demand] = "idle" /\ cpc # "end"

(* Mutant: a fault looks for an arrived page without leaving its mark. *)
RequestUnmarked(p) ==
  /\ DemandRuns /\ p \in faulted \ asked
  /\ asked' = asked \cup {p}
  /\ IF cell[p].handle = None
       THEN requests' = requests \cup {p} /\ UNCHANGED <<tpc, hand, look>>
       ELSE /\ hand' = [hand EXCEPT ![Demand] = cell[p].handle]
            /\ look' = [look EXCEPT ![Demand] = p]
            /\ Goto(Demand, "direct")
            /\ UNCHANGED requests
  /\ UNCHANGED <<source, ring, coord, shared, stop, faulted, installed, died>>

(* sb_bg_request: set the wanted bit and look for an arrived buffer in one  *)
(* fetch-or; without one, ask the source.                                   *)
Request(p) ==
  /\ DemandRuns /\ p \in faulted \ asked
  /\ asked' = asked \cup {p}
  /\ cell' = [cell EXCEPT ![p].wanted = TRUE]
  /\ IF cell[p].handle = None
       THEN requests' = requests \cup {p} /\ UNCHANGED <<tpc, hand, look>>
       ELSE /\ hand' = [hand EXCEPT ![Demand] = cell[p].handle]
            /\ look' = [look EXCEPT ![Demand] = p]
            /\ Goto(Demand, "direct")
            /\ UNCHANGED requests
  /\ UNCHANGED <<source, ring, coord, position, count, remaining, token, directory,
                 assists, overflow, stop, faulted, installed, died>>

AssistPop ==
  /\ DemandRuns /\ assists # <<>>
  /\ hand' = [hand EXCEPT ![Demand] = Head(assists)]
  /\ assists' = Tail(assists)
  /\ Goto(Demand, "claim")
  /\ UNCHANGED <<source, ring, coord, position, count, remaining, token, directory,
                 cell, overflow, look, stop, app>>

DemandStep == AssistPop \/ (\E p \in Pages : Request(p)) \/ Take(Demand)
WorkerStep(w) == (\E s \in Slots : NextLoad(w, s)) \/ NextCount(w) \/ NextSwap(w) \/ Take(w)

----------------------------------------------------------------------------
Next ==
  /\ ~died
  /\ \/ SourceCommit \/ SourceSend \/ SourceFinal
     \/ Coordinator \/ DemandStep
     \/ \E w \in Workers : WorkerStep(w)
     \/ \E p \in Pages : SourceAnswer(p) \/ FastInstall(p) \/ Fault(p)

Spec == Init /\ [][Next]_vars

(* Every thread keeps running, but a worker need not pick up the next page. *)
Picks(w) == \E s \in Slots : position[s].at <= count[s] /\ NextLoad(w, s)
FairSpec ==
  /\ Spec
  /\ WF_vars(SourceCommit \/ SourceSend \/ SourceFinal)
  /\ WF_vars(\E p \in Pages : SourceAnswer(p))
  /\ WF_vars(\E p \in Pages : FastInstall(p))
  /\ WF_vars(Coordinator)
  /\ WF_vars(DemandStep)
  /\ \A w \in Workers : WF_vars(NextCount(w) \/ NextSwap(w) \/ Take(w))

----------------------------------------------------------------------------
(* None of the program's own checks fails: the generation and credit of a   *)
(* slot, a duplicate binding, the identity and the ownership of a taken     *)
(* page, a duplicate completion, a completion too many, a premature final   *)
(* frame (sb-transfer.c:1120 to 1131 and 1584 to 1602).                     *)
NoDie == ~died

(* A page is installed once, by whichever lane and thread, and the source   *)
(* counts it as delivered only then: neither a popped descriptor nor an     *)
(* advanced cursor acknowledges it (sb-transfer.c:1110).                    *)
CommittedInstalled ==
  \A p \in Pages : installed[p] <= 1 /\ (p \in committed => installed[p] = 1)

(* "The owner CAS pins the payload against remote reuse" (sb-transfer.c     *)
(* :1110): while a thread works on a page its slot has not gone back to the *)
(* source and still holds that page, however old the handle it came from.   *)
Distance(a, b) == (b + SB_BG_SLOTS - a) % SB_BG_SLOTS
InFlight(s) == Distance(tail, s) < Distance(tail, head)
Pinned ==
  \A t \in Takers : tpc[t] \in {"copy", "unbind", "finish", "done"} =>
    /\ InFlight(Slot(t))
    /\ frames[Slot(t)][Index(t)] = directory[Slot(t)][Index(t)]

(* "either the request sees the handle, or publication sees the wanted bit  *)
(* and queues an assist" (sb-bg-install.h:42): a page that a fault asked    *)
(* for, that has arrived and that nobody has taken, is in the assist queue  *)
(* or in some thread's hands, unless the queue was full.                    *)
NoLostAssist ==
  \A p \in asked :
    LET h == cell[p].handle
    IN  h # None /\ token[h[2]][h[3]] = [gen |-> h[1], is |-> "READY"] =>
          \/ h \in ToSet(assists) \cup overflow
          \/ cpc = "push" /\ h = Handle
          \/ \E t \in Takers : hand[t] = h

(* A fault is served without any worker picking up the page: by the demand  *)
(* lane of the source or by the demand thread out of the arrived batch,     *)
(* unless the assist queue overflows (sb-transfer.c:1309 to 1318).          *)
WantedServed ==
  \A p \in Faulting : p \in faulted ~> installed[p] > 0 \/ overflow # {}

(* When the workers, which visit every slot in turn, do pick up pages, the  *)
(* transfer ends: every page is installed and acknowledged and the final    *)
(* frame is retired (sb-transfer.c:870 and 1583).                           *)
Finishes ==
  (\A w \in Workers : SF_vars(Picks(w))) =>
    <>(cpc = "end" /\ \A p \in Pages : installed[p] = 1)
============================================================================
