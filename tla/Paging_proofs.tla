---------------------------- MODULE Paging_proofs ----------------------------
(* The paging unit for every set of pages, frames, address spaces and workloads   *)
(* and every order of demands, fetches, answers and software's moves: the FSM,    *)
(* the walker and the two request ports stay in step (Struct), the translations   *)
(* held are current (SinceInv), and with them every access, fetch, fault and      *)
(* outcome is what the page tables and the demand call for.                       *)
EXTENDS Paging, TLAPS

Walks == {"WALKING", "CROSS_WALK2", "PF_WALKING"}
Issues == {"READ_PDE", "READ_PTE", "WRITE_PDE", "WRITE_PTE"}
Waits == {"WAIT_PDE", "WAIT_PTE", "WAIT_WR_PDE", "WAIT_WR_PTE"}

\* The inductive invariant: only a walking state of the FSM owns the walker; a walk is
\* asked for while the walker is idle, and an answer is due only while it waits for one.
WalkInv ==
    /\ state \notin Walks => w_state = "IDLE" /\ ~walk_request /\ ~walk_biu_pending
    /\ walk_request => w_state = "IDLE"
    /\ walk_biu_pending => w_state \in Waits

\* What one clock of the walker does, seen from outside.
LEMMA WalkerMoves ==
    ASSUME NEW request, NEW ready, NEW data, Walk(request, ready, data)
    PROVE  /\ w_state = "IDLE" /\ request = None => w_state' = "IDLE"
           /\ w_state = "IDLE" => w_state' \in {"IDLE", "READ_PDE"}
           /\ w_state \in {"DONE", "FAULT"} => w_state' = "IDLE"
           /\ w_state \in Waits /\ ~ready => w_state' = w_state
           /\ w_state \in Issues => w_state' \in Waits
<1> USE DEF Waits, Issues
<1>1. CASE WalkIdle(request)
  BY <1>1 DEF WalkIdle, WalkStay, walker
<1>2. CASE WalkIssue \/ WalkWait(ready)
  BY <1>2 DEF WalkIssue, WalkWait, WalkTo, WalkStay, walker
<1>3. CASE WalkPde(ready, data) \/ WalkPte(ready, data)
  BY <1>3 DEF WalkPde, WalkPte
<1>4. CASE WalkCheck \/ WalkWritten(ready) \/ WalkEnd
  BY <1>4 DEF WalkCheck, WalkWritten, WalkEnd, WalkTo, walk_done
<1> QED  BY <1>1, <1>2, <1>3, <1>4 DEF Walk

\* Outside the walking states a clock either leaves the walker alone or asks for a
\* walk on its way into one.
LEMMA QuietStep ==
    ASSUME NEW i, Fsm(i), state \notin Walks, ~walk_biu_pending
    PROVE  /\ walk_request' => state' \in Walks
           /\ ~walk_biu_pending'
<1> USE DEF Walks, Silent, StartWalk, Goto, complete_mem_request, raise_fault, InFlight
<1>1. CASE Idle(i)
  <2>1. walk_biu_pending' = walk_biu_pending
    BY <1>1 DEF Idle
  <2>2. CASE IdleStay(i) \/ IdleFetchWalk(i) \/ IdleGated(i)
    BY <2>1, <2>2 DEF IdleStay, IdleFetchWalk, IdleGated
  <2>3. CASE IdleIo(i)
    BY <2>1, <2>3 DEF IdleIo
  <2>4. CASE IdlePretranslated(i) \/ IdleEarlyWrite(i) \/ IdleLookup(i)
    BY <2>1, <2>4 DEF IdlePretranslated, IdleEarlyWrite, IdleLookup, CaptureMem
  <2> QED  BY <1>1, <2>2, <2>3, <2>4 DEF Idle
<1>2. CASE MemTlb(i)
  BY <1>2 DEF MemTlb, LookupFault, LookupChecked, LookupAccess, LookupWait, LookupMiss
<1>3. CASE CrossWait1(i) \/ CrossPrep2(i) \/ CrossWait2(i) \/ PfBiuWait(i)
  BY <1>3 DEF CrossWait1, CrossPrep2, CrossWait2, PfBiuWait
<1>4. CASE CrossTlb2(i)
  BY <1>4 DEF CrossTlb2, EmitSecondHalf
<1>5. ~Walking(i) /\ ~CrossWalk2(i) /\ ~PfWalking(i)
  BY DEF Walking, CrossWalk2, PfWalking
<1> QED  BY <1>1, <1>2, <1>3, <1>4, <1>5 DEF Fsm

\* In a walking state no walk is asked for; the FSM leaves only when the walker is
\* done, and an answer becomes due only by issuing an access.
LEMMA WalkingStep ==
    ASSUME NEW i, Fsm(i), state \in Walks
    PROVE  /\ ~walk_request'
           /\ ~walk_done => state' \in Walks
           /\ walk_biu_pending' => \/ ~walk_done /\ walker_issue_ready
                                   \/ walk_biu_pending /\ ~completes(i)
<1> USE DEF Walks
<1>1. CASE Walking(i) \/ CrossWalk2(i) \/ PfWalking(i)
  <2> USE DEF Silent, WalkDone, Goto, complete_mem_request, raise_fault
  <2>1. CASE ~walk_done
    <3>1. state' = state /\ WalkerPort(i) /\ ~walk_request'
      BY <1>1, <2>1 DEF Walking, CrossWalk2, PfWalking, WalkRuns, WalkFaults, control
    <3> QED  BY <2>1, <3>1 DEF WalkerPort
  <2>2. CASE walk_done
    BY <1>1, <2>2 DEF Walking, CrossWalk2, PfWalking, WalkRuns, WalkFaults
  <2> QED  BY <2>1, <2>2
<1>2. ~Idle(i) /\ ~MemTlb(i) /\ ~CrossWait1(i) /\ ~CrossPrep2(i) /\ ~CrossTlb2(i)
      /\ ~CrossWait2(i) /\ ~PfBiuWait(i)
  BY DEF Idle, IdleStay, IdleFetchWalk, IdleGated, IdleIo, IdlePretranslated, IdleEarlyWrite,
         IdleLookup, CaptureMem, MemTlb, CrossWait1, CrossPrep2, CrossTlb2, CrossWait2, PfBiuWait
<1> QED  BY <1>1, <1>2 DEF Fsm

LEMMA WalkInvStep ==
    ASSUME WalkInv, NEW i, Clock(i)
    PROVE  WalkInv'
<1>1. Fsm(i) /\ WalkerStep(i)
  BY DEF Clock
<1>2. PICK request, data :
        /\ Walk(request, walker_feed_ready(i), data)
        /\ ~walk_request => request = None
  BY <1>1 DEF WalkerStep
<1> HIDE DEF Walk
<1>3. /\ w_state = "IDLE" /\ request = None => w_state' = "IDLE"
      /\ w_state = "IDLE" => w_state' \in {"IDLE", "READ_PDE"}
      /\ w_state \in {"DONE", "FAULT"} => w_state' = "IDLE"
      /\ w_state \in Waits /\ ~walker_feed_ready(i) => w_state' = w_state
      /\ w_state \in Issues => w_state' \in Waits
  BY <1>2, WalkerMoves
<1>4. CASE state \notin Walks
  <2>1. w_state' = "IDLE"
    BY <1>2, <1>3, <1>4 DEF WalkInv
  <2>2. /\ walk_request' => state' \in Walks
        /\ ~walk_biu_pending'
    BY <1>1, <1>4, QuietStep DEF WalkInv
  <2> QED  BY <2>1, <2>2 DEF WalkInv
<1>5. CASE state \in Walks
  <2>1. /\ ~walk_request'
        /\ ~walk_done => state' \in Walks
        /\ walk_biu_pending' => \/ ~walk_done /\ walker_issue_ready
                                \/ walk_biu_pending /\ ~completes(i)
    BY <1>1, <1>5, WalkingStep
  <2>2. ASSUME walk_biu_pending'  PROVE w_state' \in Waits
    <3>1. CASE walker_issue_ready
      <4>1. w_state \in Issues \cup Waits /\ ~walk_biu_pending
        BY <3>1 DEF walker_issue_ready, mem_rd, mem_wr, Issues, Waits
      <4> QED  BY <4>1, <1>3 DEF walker_feed_ready
    <3>2. CASE walk_biu_pending /\ ~completes(i)
      BY <3>2, <1>3 DEF walker_feed_ready, WalkInv
    <3> QED  BY <2>1, <2>2, <3>1, <3>2
  <2>3. ASSUME state' \notin Walks  PROVE w_state' = "IDLE" /\ ~walk_biu_pending'
    <3>1. w_state \in {"DONE", "FAULT"}
      BY <2>1, <2>3 DEF walk_done
    <3>2. w_state' = "IDLE"
      BY <3>1, <1>3
    <3>3. ~walk_biu_pending'
      BY <3>2, <2>2 DEF Waits
    <3> QED  BY <3>2, <3>3
  <2> QED  BY <2>1, <2>2, <2>3 DEF WalkInv
<1> QED  BY <1>4, <1>5

\* While the FSM is idle the walker is idle and owes the tables nothing: what makes the
\* acknowledge of INVLPG (invlpg_ack) safe.
THEOREM WalkerRestsWithFsm == Spec => []IdleMeansNoWalk
<1>1. Init => WalkInv
  BY DEF Init, WalkInv, WalkerInit, Walks
<1>2. WalkInv /\ [Next]_vars => WalkInv'
  <2>1. CASE Next
    BY <2>1, WalkInvStep DEF Next
  <2>2. CASE UNCHANGED vars
    BY <2>2 DEF vars, mmu, control, walker, WalkInv
  <2> QED  BY <2>1, <2>2
<1>3. WalkInv => IdleMeansNoWalk
  BY DEF WalkInv, IdleMeansNoWalk, s_idle, Walks
<1> QED  BY <1>1, <1>2, <1>3, PTL DEF Spec

-----------------------------------------------------------------------------
\* What one clock may see.

\* The inputs of a clock, as facts about them one by one.
Allowed(i) ==
    /\ i.demand # None => demand_idle /\ i.demand \in Demand /\ i.demand \in workload.demands
    /\ i.pretrans # None => i.demand # None /\ i.pretrans \in Translated(i.demand)
    /\ i.user \in BOOLEAN /\ i.present \in BOOLEAN /\ i.spec \in BOOLEAN
    /\ i.acc => dcache = None /\ Offered(i) # None
    /\ i.comp => dcache # None \/ (i.acc /\ Offered(i).kind = "io" /\ ~Offered(i).write)
    /\ i.iacc => icache = None /\ (icache_req # None \/ fast_pf_candidate(i))
    /\ i.icomp => icache # None
    /\ i.cr3 # None => /\ i.cr3 \in Roots /\ i.demand = None
                       /\ state \in {"IDLE", "CROSS_WAIT2", "PF_WALKING", "PF_BIU_WAIT"}
                       /\ Cr3Writes = "any time" \/ state # "PF_WALKING"
    /\ i.invlpg # None => i.invlpg \in Pages /\ invlpg_ack
    /\ i.edit # None => i.edit \in Edits /\ ~mem_servicing /\ state # "PF_WALKING"
    /\ i.flush # None => i.flush \in Pages
    /\ i.fetch # None => i.fetch \in Pages /\ ~pf_inflight(i) /\ i.flush \in {None, i.fetch}
    /\ i.adopt => pf_spec /\ ~pf_drop /\ ~pf_ack_edge(i) /\ i.flush = pf_page
    /\ i.spec => ~pf_redirect_queued /\ ~pf_drop

\* The three requests that are presented without a register exclude one another.
LEMMA OfferedIs ==
    ASSUME NEW i
    PROVE  /\ pretrans_present(i) =>
                Offered(i) = MemAccess(FALSE, i.demand.page, i.pretrans, i.demand.user)
           /\ early_wr_present(i) =>
                Offered(i) = MemAccess(TRUE, i.demand.page, i.demand.page, i.demand.user)
           /\ req_mem_dcache_candidate =>
                Offered(i) = MemAccess(req.op = "write", req.page, TlbFrame(req.page), req.user)
           /\ ~pretrans_present(i) /\ ~early_wr_present(i) /\ ~req_mem_dcache_candidate =>
                Offered(i) = dcache_req
<1>1. /\ ~(pretrans_present(i) /\ early_wr_present(i))
      /\ ~(pretrans_present(i) /\ req_mem_dcache_candidate)
      /\ ~(early_wr_present(i) /\ req_mem_dcache_candidate)
  BY DEF pretrans_present, early_wr_present, req_mem_dcache_candidate, idle_mem_req, idle_mem_precheck,
         demand_idle, s_idle
<1> DEFINE A == MemAccess(FALSE, i.demand.page, i.pretrans, i.demand.user)
           B == MemAccess(TRUE, i.demand.page, i.demand.page, i.demand.user)
           C == MemAccess(req.op = "write", req.page, TlbFrame(req.page), req.user)
<1>2. Offered(i) = CASE pretrans_present(i) -> A [] early_wr_present(i) -> B
                     [] req_mem_dcache_candidate -> C [] OTHER -> dcache_req
  BY Zenon DEF Offered
<1> HIDE DEF A, B, C
<1>3. /\ pretrans_present(i) => Offered(i) = A
      /\ early_wr_present(i) => Offered(i) = B
      /\ req_mem_dcache_candidate => Offered(i) = C
      /\ ~pretrans_present(i) /\ ~early_wr_present(i) /\ ~req_mem_dcache_candidate => Offered(i) = dcache_req
  BY <1>1, <1>2
<1> QED  BY <1>3, Zenon DEF A, B, C

\* What is offered to the caches depends on the core's part of the inputs only.
LEMMA SameCore ==
    ASSUME NEW i, NEW j, i.demand = j.demand, i.present = j.present,
           i.pretrans = j.pretrans, i.user = j.user
    PROVE  Offered(i) = Offered(j) /\ (fast_pf_candidate(i) <=> fast_pf_candidate(j))
<1>1. /\ pretrans_present(i) <=> pretrans_present(j)
      /\ early_wr_present(i) <=> early_wr_present(j)
  BY DEF pretrans_present, early_wr_present, idle_mem_req, idle_mem_precheck
<1>2. /\ MemAccess(FALSE, i.demand.page, i.pretrans, i.demand.user)
           = MemAccess(FALSE, j.demand.page, j.pretrans, j.demand.user)
      /\ MemAccess(TRUE, i.demand.page, i.demand.page, i.demand.user)
           = MemAccess(TRUE, j.demand.page, j.demand.page, j.demand.user)
  OBVIOUS
<1>3. Offered(i) = Offered(j)
  <2>1. CASE pretrans_present(i)
    BY <1>1, <1>2, <2>1, OfferedIs, Zenon
  <2>2. CASE early_wr_present(i)
    BY <1>1, <1>2, <2>2, OfferedIs, Zenon
  <2>3. CASE req_mem_dcache_candidate
    BY <2>3, OfferedIs, Zenon
  <2>4. CASE ~pretrans_present(i) /\ ~early_wr_present(i) /\ ~req_mem_dcache_candidate
    BY <1>1, <2>4, OfferedIs, Zenon
  <2> QED  BY <2>1, <2>2, <2>3, <2>4
<1>4. pf_xlat_hit(i) <=> pf_xlat_hit(j)
  BY DEF pf_xlat_hit
<1> QED  BY <1>3, <1>4 DEF fast_pf_candidate

LEMMA Inputs ==
    ASSUME TypeOK, workload \in Workloads, Next
    PROVE  \E i : Clock(i) /\ Allowed(i)
<1>1. PICK k \in CoreInput, user \in FetchUsers : \E c \in CacheInput(k, user) :
        \E w \in SoftwareInput(k, c), f \in FetchInput(c) :
          Clock([demand |-> k.demand, present |-> k.present, pretrans |-> k.pretrans, user |-> user,
                 acc |-> c.acc, comp |-> c.comp, iacc |-> c.iacc, icomp |-> c.icomp,
                 cr3 |-> w.cr3, invlpg |-> w.invlpg, edit |-> w.edit,
                 flush |-> f.flush, adopt |-> f.adopt, fetch |-> f.fetch, spec |-> f.spec])
  BY DEF Next
<1>2. PICK c \in CacheInput(k, user) : \E w \in SoftwareInput(k, c), f \in FetchInput(c) :
          Clock([demand |-> k.demand, present |-> k.present, pretrans |-> k.pretrans, user |-> user,
                 acc |-> c.acc, comp |-> c.comp, iacc |-> c.iacc, icomp |-> c.icomp,
                 cr3 |-> w.cr3, invlpg |-> w.invlpg, edit |-> w.edit,
                 flush |-> f.flush, adopt |-> f.adopt, fetch |-> f.fetch, spec |-> f.spec])
  BY <1>1
<1>3. PICK w \in SoftwareInput(k, c), f \in FetchInput(c) :
          Clock([demand |-> k.demand, present |-> k.present, pretrans |-> k.pretrans, user |-> user,
                 acc |-> c.acc, comp |-> c.comp, iacc |-> c.iacc, icomp |-> c.icomp,
                 cr3 |-> w.cr3, invlpg |-> w.invlpg, edit |-> w.edit,
                 flush |-> f.flush, adopt |-> f.adopt, fetch |-> f.fetch, spec |-> f.spec])
  BY <1>2
<1> DEFINE j == [demand |-> k.demand, present |-> k.present, pretrans |-> k.pretrans, user |-> user]
           i == [demand |-> k.demand, present |-> k.present, pretrans |-> k.pretrans, user |-> user,
                 acc |-> c.acc, comp |-> c.comp, iacc |-> c.iacc, icomp |-> c.icomp,
                 cr3 |-> w.cr3, invlpg |-> w.invlpg, edit |-> w.edit,
                 flush |-> f.flush, adopt |-> f.adopt, fetch |-> f.fetch, spec |-> f.spec]
<1>4. /\ i.demand = k.demand /\ i.present = k.present /\ i.pretrans = k.pretrans /\ i.user = user
      /\ i.cr3 = w.cr3 /\ i.invlpg = w.invlpg /\ i.edit = w.edit
      /\ i.flush = f.flush /\ i.adopt = f.adopt /\ i.fetch = f.fetch /\ i.spec = f.spec
      /\ i.acc = c.acc /\ i.comp = c.comp /\ i.iacc = c.iacc /\ i.icomp = c.icomp
      /\ j.demand = k.demand /\ j.present = k.present /\ j.pretrans = k.pretrans /\ j.user = user
  OBVIOUS
<1>5. Clock(i)
  BY <1>3
<1>6. c.acc \in BOOLEAN /\ c.comp \in BOOLEAN /\ c.iacc \in BOOLEAN /\ c.icomp \in BOOLEAN
      /\ (c.acc => dcache = None /\ Offered(j) # None)
      /\ (c.comp => dcache # None \/ (c.acc /\ Offered(j).kind = "io" /\ ~Offered(j).write))
      /\ (c.iacc => icache = None /\ (icache_req # None \/ fast_pf_candidate(j)))
      /\ (c.icomp => icache # None)
  BY DEF CacheInput
<1> HIDE DEF i, j
<1>7. Offered(i) = Offered(j) /\ (fast_pf_candidate(i) <=> fast_pf_candidate(j))
  BY <1>4, SameCore
<1>8. /\ i.demand # None => demand_idle /\ i.demand \in Demand /\ i.demand \in workload.demands
      /\ i.pretrans # None => i.demand # None /\ i.pretrans \in Translated(i.demand)
      /\ i.present \in BOOLEAN
  <2>1. workload.demands \subseteq Demand
    BY PagingAssumption
  <2>2. /\ k.demand # None => demand_idle /\ k.demand \in Demand /\ k.demand \in workload.demands
        /\ k.pretrans # None => k.demand # None /\ k.pretrans \in Translated(k.demand)
        /\ k.present \in BOOLEAN
    <3>1. CASE k = [demand |-> None, present |-> FALSE, pretrans |-> None]
      BY <3>1
    <3>2. CASE demand_idle /\ \E r \in workload.demands :
                 k \in [demand : {r}, present : {TRUE}, pretrans : {None} \cup Translated(r)]
      <4>1. PICK r \in workload.demands :
              k \in [demand : {r}, present : {TRUE}, pretrans : {None} \cup Translated(r)]
        BY <3>2
      <4>2. k.demand = r /\ k.present = TRUE /\ k.pretrans \in {None} \cup Translated(r) /\ r \in Demand
        BY <4>1, <2>1
      <4> QED  BY <3>2, <4>2, NoneAssumption
    <3>3. CASE demand_idle /\ k \in [demand : {r \in workload.demands : r.kind = "mem"}, present : {FALSE}, pretrans : {None}]
      <4>1. k.demand \in workload.demands /\ k.present = FALSE /\ k.pretrans = None
        BY <3>3
      <4> QED  BY <3>3, <4>1, <2>1
    <3>4. k \in CoreInput => \/ k = [demand |-> None, present |-> FALSE, pretrans |-> None]
                             \/ demand_idle /\ \E r \in workload.demands :
                                  k \in [demand : {r}, present : {TRUE}, pretrans : {None} \cup Translated(r)]
                             \/ demand_idle /\ k \in [demand : {r \in workload.demands : r.kind = "mem"},
                                                      present : {FALSE}, pretrans : {None}]
      <4> DEFINE H(r) == [demand : {r}, present : {TRUE}, pretrans : {None} \cup Translated(r)]
                 G == [demand : {r \in workload.demands : r.kind = "mem"}, present : {FALSE}, pretrans : {None}]
                 N == [demand |-> None, present |-> FALSE, pretrans |-> None]
      <4>1. CoreInput = {N} \cup IF demand_idle THEN (UNION {H(r) : r \in workload.demands}) \cup G ELSE {}
        BY Zenon DEF CoreInput
      <4>2. \A x \in UNION {H(r) : r \in workload.demands} : \E r \in workload.demands : x \in H(r)
        BY Zenon
      <4> HIDE DEF H, G, N
      <4>3. k = N \/ (demand_idle /\ \E r \in workload.demands : k \in H(r)) \/ (demand_idle /\ k \in G)
        <5>1. k \in {N} \cup IF demand_idle THEN (UNION {H(r) : r \in workload.demands}) \cup G ELSE {}
          BY <4>1, <1>1
        <5>2. CASE demand_idle
          BY <5>1, <5>2, <4>2
        <5>3. CASE ~demand_idle
          BY <5>1, <5>3
        <5> QED  BY <5>2, <5>3
      <4> QED  BY <4>3, Zenon DEF H, G, N
    <3> QED  BY <3>1, <3>2, <3>3, <3>4
  <2> QED  BY <1>4, <2>2
<1>9. /\ i.cr3 # None => /\ i.cr3 \in Roots /\ i.demand = None
                         /\ state \in {"IDLE", "CROSS_WAIT2", "PF_WALKING", "PF_BIU_WAIT"}
                         /\ Cr3Writes = "any time" \/ state # "PF_WALKING"
      /\ i.invlpg # None => i.invlpg \in Pages /\ invlpg_ack
      /\ i.edit # None => i.edit \in Edits /\ ~mem_servicing /\ state # "PF_WALKING"
  BY <1>4 DEF SoftwareInput, NoFetchWalk
<1>10. (pf_inflight(c) <=> pf_inflight(i)) /\ (pf_ack_edge(c) <=> pf_ack_edge(i))
  BY <1>4 DEF pf_inflight, pf_ack_edge, pf_ack_toggle, pf_ack_bypass
<1>11. /\ i.flush # None => i.flush \in Pages
       /\ i.fetch # None => i.fetch \in Pages /\ ~pf_inflight(i) /\ i.flush \in {None, i.fetch}
       /\ i.adopt => pf_spec /\ ~pf_drop /\ ~pf_ack_edge(i) /\ i.flush = pf_page
       /\ i.spec => ~pf_redirect_queued /\ ~pf_drop
       /\ i.spec \in BOOLEAN
  <2>1. workload.fetches \subseteq Pages /\ None \notin Pages
    BY PagingAssumption
  <2>2. pf_redirect_queued \in BOOLEAN /\ pf_drop \in BOOLEAN
    BY DEF TypeOK
  <2> QED  BY <1>4, <1>10, <2>1, <2>2 DEF FetchInput
<1>12. i.user \in BOOLEAN
  BY <1>4, PagingAssumption
<1> QED  BY <1>4, <1>5, <1>6, <1>7, <1>8, <1>9, <1>11, <1>12 DEF Allowed

-----------------------------------------------------------------------------
\* The rest of the inductive invariant.

Demands == {"MEM_TLB", "WALKING", "CROSS_WAIT1", "CROSS_PREP2", "CROSS_TLB2", "CROSS_WALK2", "CROSS_WAIT2"}
Seconds == {"CROSS_WAIT1", "CROSS_PREP2", "CROSS_TLB2", "CROSS_WALK2", "CROSS_WAIT2"}
Crossings == {"CROSS_WAIT1", "CROSS_WAIT2"}

\* What each state says of the demand and of the lookup register.  A second half is
\* looked up at its own page, but for a check that hit: it stays with the first page,
\* and passes again.
FsmInv ==
    /\ mem_servicing <=> fast_path_pending \/ state \in Demands
    /\ fast_path_pending => state = "IDLE"
    /\ state \in Seconds => Crosses(req)
    /\ state \in {"MEM_TLB", "WALKING", "CROSS_WALK2"} => req.kind = "mem"
    /\ state = "PF_WALKING" => req.op = "read"
    /\ state \in {"CROSS_WAIT1", "CROSS_PREP2", "CROSS_WAIT2"} => req.op # "check"
    /\ state \in Walks => pg_enable
    /\ state \in {"MEM_TLB", "WALKING"} => lookup = req.page
    /\ state = "CROSS_WALK2" => lookup = req.second
    /\ state = "CROSS_TLB2" /\ req.kind = "mem" =>
          lookup = req.second \/ (req.op = "check" /\ req_can_translate)

\* One access at a time stands at the D-cache or in it, and one line at the I-cache;
\* each is awaited by the walker, a demand or the prefetcher, and the walker's is the
\* access it names.
PortInv ==
    /\ dcache_req = None \/ dcache = None
    /\ dcache # None => ~dcache.write
    /\ icache_req = None \/ icache = None
    /\ walk_biu_pending <=> Demanded # None /\ Demanded.kind = "walk"
    /\ fast_path_pending \/ state \in Crossings <=> Demanded # None /\ Demanded.kind # "walk"
    /\ pf_fast_pending \/ state = "PF_BIU_WAIT" <=> icache_req # None \/ icache # None
    /\ ~(pf_fast_pending /\ state \in {"PF_WALKING", "PF_BIU_WAIT"})
    /\ walk_biu_pending => Demanded = WalkAccess

\* The walker works on the request it latched, and what it latched of the tables is
\* what they hold, its own marks included.
AskInv == w_state # "IDLE" =>
    /\ saved \in WalkRequest /\ saved.page = lookup /\ saved.user = req.user /\ saved.wp = wp_enable
    /\ saved.write <=> IsWrite(req)
MarkedPde(e)    == [e EXCEPT !.a = TRUE]
MarkedPte(e, w) == [e EXCEPT !.a = TRUE, !.d = @ \/ w]
PdeRead   == {"READ_PTE", "WAIT_PTE", "CHECK_PERM", "WRITE_PDE", "WAIT_WR_PDE"}
PdeMarked == {"WRITE_PTE", "WAIT_WR_PTE", "DONE"}
PteRead   == {"CHECK_PERM", "WRITE_PDE", "WAIT_WR_PDE", "WRITE_PTE", "WAIT_WR_PTE"}
Granted   == {"WRITE_PDE", "WAIT_WR_PDE", "WRITE_PTE", "WAIT_WR_PTE", "DONE"}
GrantedNow == Permitted(Combined(pde, pte), saved.write, saved.user, saved.wp)
LatchInv ==
    /\ w_state \in PdeRead => pde \in Pde /\ pde.p /\ pdes[saved.cr3] = pde
    /\ w_state \in PdeMarked => pde \in Pde /\ pde.p /\ pdes[saved.cr3] = MarkedPde(pde)
    /\ w_state \in PteRead => pte \in Pte /\ pte.p /\ ptes[pde.base][saved.page] = pte
    /\ w_state = "DONE" => pte \in Pte /\ pte.p /\ ptes[pde.base][saved.page] = MarkedPte(pte, saved.write)
    /\ w_state \in Granted => GrantedNow
    /\ w_state = "FAULT" =>
          /\ pde \in Pde /\ pdes[saved.cr3] = pde
          /\ pde.p => pte \in Pte /\ ptes[pde.base][saved.page] = pte /\ (pte.p => ~GrantedNow)

-----------------------------------------------------------------------------
\* The D-cache port in one clock.

Presents(i) == pretrans_present(i) \/ early_wr_present(i) \/ req_mem_dcache_candidate

LEMMA PresentsWhen ==
    ASSUME NEW i
    PROVE  /\ pretrans_present(i) \/ early_wr_present(i) => demand_idle /\ i.demand # None /\ i.demand.kind = "mem"
           /\ Presents(i) => demand_idle \/ state = "MEM_TLB"
BY DEF Presents, pretrans_present, early_wr_present, req_mem_dcache_candidate, idle_mem_req, idle_mem_precheck

LEMMA MemAccessType ==
    ASSUME NEW write \in BOOLEAN, NEW page \in Pages, NEW frame \in Frames, NEW user
    PROVE  /\ MemAccess(write, page, frame, user) \in Access
           /\ MemAccess(write, page, frame, user) # None
<1>1. Current(page, frame, write, user) \in BOOLEAN
  BY Zenon DEF Current
<1>2. MemAccess(write, page, frame, user) \in Access
  BY <1>1, Zenon DEF Access, MemAccess
<1> QED  BY <1>2, NoneAssumption

\* What is presented, field by field.
LEMMA PresentedIs ==
    ASSUME NEW i
    PROVE  /\ pretrans_present(i) =>
                /\ Offered(i).kind = "mem" /\ Offered(i).write = FALSE
                /\ Offered(i).page = i.demand.page /\ Offered(i).at = i.pretrans
                /\ Offered(i).current = Current(i.demand.page, i.pretrans, FALSE, i.demand.user)
           /\ early_wr_present(i) =>
                /\ Offered(i).kind = "mem" /\ Offered(i).write = TRUE
                /\ Offered(i).page = i.demand.page /\ Offered(i).at = i.demand.page
                /\ Offered(i).current = Current(i.demand.page, i.demand.page, TRUE, i.demand.user)
           /\ req_mem_dcache_candidate =>
                /\ Offered(i).kind = "mem" /\ Offered(i).write = (req.op = "write")
                /\ Offered(i).page = req.page /\ Offered(i).at = TlbFrame(req.page)
                /\ Offered(i).current = Current(req.page, TlbFrame(req.page), req.op = "write", req.user)
<1>1. ASSUME pretrans_present(i)
      PROVE  Offered(i) = MemAccess(FALSE, i.demand.page, i.pretrans, i.demand.user)
  BY <1>1, OfferedIs
<1>2. ASSUME early_wr_present(i)
      PROVE  Offered(i) = MemAccess(TRUE, i.demand.page, i.demand.page, i.demand.user)
  BY <1>2, OfferedIs
<1>3. ASSUME req_mem_dcache_candidate
      PROVE  Offered(i) = MemAccess(req.op = "write", req.page, TlbFrame(req.page), req.user)
  BY <1>3, OfferedIs
<1>4. /\ MemAccess(FALSE, i.demand.page, i.pretrans, i.demand.user).kind = "mem"
      /\ MemAccess(FALSE, i.demand.page, i.pretrans, i.demand.user).write = FALSE
      /\ MemAccess(FALSE, i.demand.page, i.pretrans, i.demand.user).page = i.demand.page
      /\ MemAccess(FALSE, i.demand.page, i.pretrans, i.demand.user).at = i.pretrans
      /\ MemAccess(FALSE, i.demand.page, i.pretrans, i.demand.user).current
            = Current(i.demand.page, i.pretrans, FALSE, i.demand.user)
  BY Zenon DEF MemAccess
<1>5. /\ MemAccess(TRUE, i.demand.page, i.demand.page, i.demand.user).kind = "mem"
      /\ MemAccess(TRUE, i.demand.page, i.demand.page, i.demand.user).write = TRUE
      /\ MemAccess(TRUE, i.demand.page, i.demand.page, i.demand.user).page = i.demand.page
      /\ MemAccess(TRUE, i.demand.page, i.demand.page, i.demand.user).at = i.demand.page
      /\ MemAccess(TRUE, i.demand.page, i.demand.page, i.demand.user).current
            = Current(i.demand.page, i.demand.page, TRUE, i.demand.user)
  BY Zenon DEF MemAccess
<1>6. /\ MemAccess(req.op = "write", req.page, TlbFrame(req.page), req.user).kind = "mem"
      /\ MemAccess(req.op = "write", req.page, TlbFrame(req.page), req.user).write = (req.op = "write")
      /\ MemAccess(req.op = "write", req.page, TlbFrame(req.page), req.user).page = req.page
      /\ MemAccess(req.op = "write", req.page, TlbFrame(req.page), req.user).at = TlbFrame(req.page)
      /\ MemAccess(req.op = "write", req.page, TlbFrame(req.page), req.user).current
            = Current(req.page, TlbFrame(req.page), req.op = "write", req.user)
  BY Zenon DEF MemAccess
<1> QED  BY <1>1, <1>2, <1>3, <1>4, <1>5, <1>6, Zenon

\* While nothing is presented past the register, a request held moves on: to the
\* cache when it is accepted, and away when it completes.
LEMMA HeldMoves ==
    ASSUME NEW i, Allowed(i), dcache_req = None \/ dcache = None,
           ~Presents(i), Hold(i), DcacheNext(i)
    PROVE  /\ dcache_req' = None \/ dcache' = None
           /\ Demanded' = IF completes(i) THEN None ELSE Demanded
           /\ accepted(i) \/ completes(i) => Demanded # None
           /\ accepted(i) => Offered(i) = Demanded /\ dcache_req = Demanded
           /\ completes(i) => Answering(i) = Demanded
<1>1. Offered(i) = dcache_req
  BY OfferedIs DEF Presents
<1>2. accepted(i) => dcache = None /\ dcache_req # None
  BY <1>1 DEF Allowed, accepted
<1>3. /\ completes(i) => dcache # None \/ accepted(i)
  BY DEF completes
<1>4. CASE accepted(i)
  BY <1>1, <1>2, <1>4 DEF Hold, DcacheNext, Demanded, Answering
<1>5. CASE ~accepted(i)
  BY <1>1, <1>3, <1>5 DEF Hold, DcacheNext, Demanded, Answering
<1> QED  BY <1>4, <1>5

\* A request is put in the register only when nothing stands there or in the cache.
LEMMA OfferPuts ==
    ASSUME NEW i, Allowed(i), Demanded = None, ~Presents(i), NEW r, r # None, Offer(r), DcacheNext(i)
    PROVE  /\ dcache' = None /\ Demanded' = r /\ ~accepted(i) /\ ~completes(i)
<1>1. dcache_req = None /\ dcache = None
  BY DEF Demanded
<1>2. Offered(i) = None
  BY <1>1, OfferedIs DEF Presents
<1>3. ~accepted(i) /\ ~completes(i)
  BY <1>1, <1>2 DEF Allowed, accepted, completes
<1> QED  BY <1>1, <1>3 DEF Offer, DcacheNext, Demanded

\* A request presented past the register is answered at once or by the cache.
LEMMA PresentMoves ==
    ASSUME NEW i, Allowed(i), Demanded = None, Presents(i), Hold(i), DcacheNext(i)
    PROVE  /\ dcache_req' = None
           /\ Offered(i).kind = "mem"
           /\ completes(i) <=> accepted(i) /\ Offered(i).write
           /\ completes(i) => Answering(i) = Offered(i)
           /\ Demanded' = IF accepted(i) /\ ~Offered(i).write THEN Offered(i) ELSE None
<1>1. dcache_req = None /\ dcache = None
  BY DEF Demanded
<1>2. Offered(i).kind = "mem"
  BY PresentedIs DEF Presents
<1>3. completes(i) <=> accepted(i) /\ Offered(i).write
  BY <1>1, <1>2 DEF completes, Allowed
<1>4. completes(i) => Answering(i) = Offered(i)
  BY <1>1 DEF Answering
<1>5. dcache_req' = None
  BY <1>1 DEF Hold
<1>6. Demanded' = dcache'
  BY <1>5 DEF Demanded
<1>7. dcache' = IF accepted(i) /\ ~Offered(i).write THEN Offered(i) ELSE None
  BY <1>1, <1>3 DEF DcacheNext
<1> QED  BY <1>2, <1>3, <1>4, <1>5, <1>6, <1>7

-----------------------------------------------------------------------------
\* The FSM, its demand and the D-cache port, arm by arm.

LEMMA LookupMoves ==
    ASSUME NEW i, LookupAddress(i)
    PROVE  /\ state = "IDLE" /\ idle_mem_precheck_capture(i) => lookup' = i.demand.page
           /\ state = "IDLE" /\ ~idle_mem_precheck_capture(i) /\ idle_pf_lookup_capture => lookup' = pf_page
           /\ state = "IDLE" /\ ~idle_mem_precheck_capture(i) /\ ~idle_pf_lookup_capture => lookup' = lookup
           /\ state # "IDLE" /\ second_lookup_load => lookup' = req.second
           /\ state # "IDLE" /\ ~second_lookup_load => lookup' = lookup
<1>1. idle_mem_precheck_capture(i) \/ idle_pf_lookup_capture => state = "IDLE"
  BY DEF idle_mem_precheck_capture, idle_mem_precheck, demand_idle, idle_pf_lookup_capture, idle_pf_req, s_idle
<1>2. second_lookup_load => state # "IDLE"
  BY DEF second_lookup_load
<1> QED  BY <1>1, <1>2 DEF LookupAddress

\* What the D-cache side of the invariant says without the walker.
Awaited ==
    /\ dcache_req = None \/ dcache = None
    /\ walk_biu_pending <=> Demanded # None /\ Demanded.kind = "walk"
    /\ fast_path_pending \/ state \in Crossings <=> Demanded # None /\ Demanded.kind # "walk"

LEMMA IdleKeeps ==
    ASSUME TypeOK, WalkInv, FsmInv, PortInv, NEW i, Allowed(i), Idle(i), LookupAddress(i), DcacheNext(i),
           UNCHANGED <<pg_enable, wp_enable>>
    PROVE  FsmInv' /\ Awaited'
<1> USE DEF Demands, Seconds, Crossings, Walks
<1>1. /\ state = "IDLE" /\ ~walk_biu_pending /\ walk_biu_pending' = walk_biu_pending
      /\ mem_servicing <=> fast_path_pending
      /\ fast_path_pending <=> Demanded # None
      /\ Demanded # None => Demanded.kind # "walk"
      /\ dcache_req = None \/ dcache = None
  BY DEF Idle, IdleStay, IdleFetchWalk, IdleGated, IdleIo, IdlePretranslated, IdleEarlyWrite, IdleLookup,
         CaptureMem, WalkInv, FsmInv, PortInv
<1>2. ~req_mem_dcache_candidate
  BY <1>1 DEF req_mem_dcache_candidate
<1>3. CASE IdleStay(i) \/ IdleFetchWalk(i)
  <2>1. ~Presents(i) /\ Hold(i)
    BY <1>2, <1>3 DEF Presents, pretrans_present, early_wr_present, idle_mem_req, IdleStay, IdleFetchWalk
  <2>2. /\ dcache_req' = None \/ dcache' = None
        /\ Demanded' = IF completes(i) THEN None ELSE Demanded
        /\ completes(i) => Demanded # None
    BY <1>1, <2>1, HeldMoves
  <2>3. CASE IdleStay(i)
    <3>1. /\ state' = "IDLE" /\ fast_path_pending' = (fast_path_pending /\ ~completes(i))
          /\ mem_servicing' = (mem_servicing /\ ~(fast_path_pending /\ completes(i)))
      BY <1>1, <2>3 DEF IdleStay, InFlight
    <3> QED  BY <1>1, <2>2, <3>1 DEF FsmInv, Awaited
  <2>4. CASE IdleFetchWalk(i)
    <3>1. /\ state' = "PF_WALKING" /\ UNCHANGED <<mem_servicing, fast_path_pending>>
          /\ req'.op = "read" /\ ~fast_path_pending /\ pg_enable
      BY <2>4 DEF IdleFetchWalk, Goto, idle_pf_req, fast_pf_candidate
    <3> QED  BY <1>1, <2>2, <3>1 DEF FsmInv, Awaited
  <2> QED  BY <1>3, <2>3, <2>4
<1>4. CASE IdleGated(i)
  <2>1. ~Presents(i) /\ Hold(i) /\ demand_idle
    BY <1>2, <1>4 DEF Presents, pretrans_present, early_wr_present, idle_mem_req, IdleGated, idle_mem_precheck
  <2>2. Demanded = None
    BY <1>1, <2>1 DEF demand_idle
  <2>3. Demanded' = None /\ (dcache_req' = None \/ dcache' = None)
    BY <1>1, <2>1, <2>2, HeldMoves
  <2>4. state' = "IDLE" /\ UNCHANGED <<mem_servicing, fast_path_pending>>
    BY <1>4 DEF IdleGated, Goto
  <2> QED  BY <1>1, <2>2, <2>3, <2>4 DEF FsmInv, Awaited
<1>5. CASE IdleIo(i)
  <2>1. ~Presents(i) /\ demand_idle /\ i.demand # None /\ i.demand.kind # "mem"
    BY <1>2, <1>5 DEF Presents, pretrans_present, early_wr_present, idle_mem_req, IdleIo, idle_mem_precheck
  <2>2. Demanded = None
    BY <1>1, <2>1 DEF demand_idle
  <2> DEFINE r == IoAccess(i.demand.op = "write", 1)
  <2>3. r.kind = "io" /\ r \in Access
    BY Zenon DEF IoAccess, Access
  <2>4. r # None
    BY <2>3, NoneAssumption
  <2>5. Offer(r)
    BY <1>5 DEF IdleIo
  <2> HIDE DEF r
  <2>6. dcache' = None /\ Demanded' = r
    BY <2>1, <2>2, <2>4, <2>5, OfferPuts
  <2>7. mem_servicing' = TRUE
        /\ \/ state' = "IDLE" /\ fast_path_pending'
           \/ /\ state' = "CROSS_WAIT1" /\ fast_path_pending' = fast_path_pending
              /\ req' = i.demand /\ Crosses(i.demand)
    BY <1>5 DEF IdleIo
  <2>8. i.demand.op # "check"
    BY <2>1 DEF Allowed, Demand
  <2> QED  BY <1>1, <2>1, <2>2, <2>3, <2>4, <2>6, <2>7, <2>8 DEF FsmInv, Awaited, Crosses
<1>6. CASE IdlePretranslated(i) \/ IdleEarlyWrite(i) \/ IdleLookup(i)
  <2>1. demand_idle /\ i.demand # None /\ i.demand.kind = "mem" /\ Hold(i) /\ req' = i.demand
    BY <1>6 DEF IdlePretranslated, IdleEarlyWrite, IdleLookup, CaptureMem, idle_mem_req, idle_mem_precheck
  <2>2. Demanded = None /\ ~mem_servicing /\ ~fast_path_pending
    BY <1>1, <2>1 DEF demand_idle
  <2>3. CASE IdlePretranslated(i)
    <3>1. pretrans_present(i) /\ accepted(i) /\ Presents(i)
      BY <2>3 DEF IdlePretranslated, Presents
    <3>2. Offered(i).write = FALSE /\ Offered(i) # None /\ Offered(i).kind = "mem"
      BY <3>1, PresentedIs DEF Allowed, accepted
    <3>3. dcache_req' = None /\ Demanded' = Offered(i)
      BY <2>1, <2>2, <3>1, <3>2, PresentMoves
    <3>4. state' = "IDLE" /\ mem_servicing' = TRUE /\ fast_path_pending' = TRUE
      BY <2>3 DEF IdlePretranslated
    <3> QED  BY <1>1, <3>2, <3>3, <3>4 DEF FsmInv, Awaited
  <2>4. CASE IdleEarlyWrite(i)
    <3>1. early_wr_present(i) /\ accepted(i) /\ Presents(i)
      BY <2>4 DEF IdleEarlyWrite, Presents
    <3>2. Offered(i).write = TRUE
      BY <3>1, PresentedIs
    <3>3. dcache_req' = None /\ Demanded' = None
      BY <2>1, <2>2, <3>1, <3>2, PresentMoves
    <3>4. state' = "IDLE" /\ UNCHANGED <<mem_servicing, fast_path_pending>>
      BY <2>4 DEF IdleEarlyWrite, Goto
    <3> QED  BY <1>1, <2>2, <3>3, <3>4 DEF FsmInv, Awaited
  <2>5. CASE IdleLookup(i)
    <3>1. ~accepted(i)
      BY <2>5 DEF IdleLookup
    <3>2. Demanded' = None /\ (dcache_req' = None \/ dcache' = None)
      <4>1. CASE Presents(i)
        BY <2>1, <2>2, <3>1, <4>1, PresentMoves
      <4>2. CASE ~Presents(i)
        BY <1>1, <2>1, <2>2, <4>2, HeldMoves
      <4> QED  BY <4>1, <4>2
    <3>3. state' = "MEM_TLB" /\ mem_servicing' = TRUE /\ UNCHANGED fast_path_pending
      BY <2>5 DEF IdleLookup
    <3>4. lookup' = i.demand.page
      BY <1>1, <2>1, LookupMoves DEF idle_mem_precheck_capture, idle_mem_precheck
    <3> QED  BY <1>1, <2>1, <2>2, <3>2, <3>3, <3>4 DEF FsmInv, Awaited
  <2> QED  BY <1>6, <2>3, <2>4, <2>5
<1> QED  BY <1>3, <1>4, <1>5, <1>6 DEF Idle

LEMMA MemTlbKeeps ==
    ASSUME TypeOK, WalkInv, FsmInv, PortInv, NEW i, Allowed(i), MemTlb(i), LookupAddress(i), DcacheNext(i),
           TlbNext(i), UNCHANGED <<pg_enable, wp_enable>>
    PROVE  FsmInv' /\ Awaited'
<1> USE DEF Demands, Seconds, Crossings, Walks
<1>1. /\ state = "MEM_TLB" /\ ~walk_biu_pending /\ walk_biu_pending' = walk_biu_pending
      /\ w_state = "IDLE" /\ req' = req /\ mem_servicing /\ ~fast_path_pending
      /\ req.kind = "mem" /\ lookup = req.page /\ Demanded = None
  BY DEF MemTlb, WalkInv, FsmInv, PortInv
<1>2. lookup' = lookup
  BY <1>1, LookupMoves DEF second_lookup_load
<1>3. pretrans_present(i) \/ early_wr_present(i) => FALSE
  BY <1>1, PresentsWhen DEF demand_idle
<1>4. CASE LookupFault(i) \/ LookupChecked(i) \/ LookupMiss(i)
  <2>1. ~Presents(i) /\ Hold(i)
    BY <1>3, <1>4 DEF Presents, req_mem_dcache_candidate, LookupFault, LookupChecked, LookupMiss
  <2>2. Demanded' = None /\ (dcache_req' = None \/ dcache' = None)
    BY <1>1, <2>1, HeldMoves DEF PortInv
  <2>3. CASE LookupFault(i)
    <3>1. state' = "IDLE" /\ mem_servicing' = FALSE /\ UNCHANGED fast_path_pending
      BY <2>3 DEF LookupFault, raise_fault, complete_mem_request
    <3> QED  BY <1>1, <2>2, <3>1 DEF FsmInv, Awaited
  <2>4. CASE LookupMiss(i)
    <3>1. /\ state' = "WALKING" /\ UNCHANGED <<mem_servicing, fast_path_pending>>
          /\ pg_enable
      BY <2>4 DEF LookupMiss, Goto, req_can_translate
    <3> QED  BY <1>1, <1>2, <2>2, <3>1 DEF FsmInv, Awaited
  <2>5. CASE LookupChecked(i) /\ ~Crosses(req)
    <3>1. state' = "IDLE" /\ mem_servicing' = FALSE /\ UNCHANGED fast_path_pending
      BY <2>5 DEF LookupChecked, complete_mem_request
    <3> QED  BY <1>1, <2>2, <3>1 DEF FsmInv, Awaited
  <2>6. CASE LookupChecked(i) /\ Crosses(req)
    <3>1. /\ state' = "CROSS_TLB2" /\ UNCHANGED <<mem_servicing, fast_path_pending>>
          /\ req.op = "check" /\ req_can_translate
      BY <2>6 DEF LookupChecked, Goto
    <3>2. tlb' = tlb
      <4>1. i.cr3 = None
        BY <1>1 DEF Allowed
      <4>2. ~invlpg_fire(i)
        BY <1>1 DEF Allowed, invlpg_fire, invlpg_ack, s_idle
      <4>3. ~tlb_update_valid
        BY <1>1 DEF tlb_update_valid, walk_done
      <4> QED  BY <4>1, <4>2, <4>3 DEF TlbNext
    <3>3. req_can_translate'
      BY <1>1, <1>2, <3>1, <3>2 DEF req_can_translate, tlb_hit, req_perm_ok, IsWrite
    <3> QED  BY <1>1, <2>2, <2>6, <3>1, <3>3 DEF FsmInv, Awaited, Crosses
  <2> QED  BY <1>4, <2>3, <2>4, <2>5, <2>6
<1>5. CASE LookupAccess(i) \/ LookupWait(i)
  <2>1. Presents(i) /\ Hold(i) /\ req_mem_dcache_candidate
    BY <1>5 DEF Presents, LookupAccess, LookupWait
  <2>2. /\ Offered(i).kind = "mem" /\ (Offered(i).write <=> req.op = "write")
        /\ req.op # "check"
    BY <2>1, PresentedIs DEF req_mem_dcache_candidate
  <2>3. /\ dcache_req' = None
        /\ Demanded' = IF accepted(i) /\ ~Offered(i).write THEN Offered(i) ELSE None
    BY <1>1, <2>1, PresentMoves
  <2>4. accepted(i) => Offered(i) # None
    BY DEF accepted, Allowed
  <2>5. CASE LookupWait(i)
    <3>1. state' = state /\ UNCHANGED <<mem_servicing, fast_path_pending>> /\ ~accepted(i)
      BY <1>1, <2>5 DEF LookupWait, Goto
    <3> QED  BY <1>1, <1>2, <2>3, <3>1 DEF FsmInv, Awaited
  <2>6. CASE LookupAccess(i) /\ Crosses(req)
    <3>1. /\ state' = IF req.op = "write" THEN "CROSS_PREP2" ELSE "CROSS_WAIT1"
          /\ UNCHANGED <<mem_servicing, fast_path_pending>> /\ accepted(i)
      BY <2>6 DEF LookupAccess, Goto
    <3>2. CASE req.op = "write"
      BY <1>1, <2>2, <2>3, <2>6, <3>1, <3>2 DEF FsmInv, Awaited, Crosses
    <3>3. CASE req.op # "write"
      BY <1>1, <2>2, <2>3, <2>4, <2>6, <3>1, <3>3 DEF FsmInv, Awaited, Crosses
    <3> QED  BY <3>2, <3>3
  <2>7. CASE LookupAccess(i) /\ ~Crosses(req)
    <3>1. /\ state' = "IDLE" /\ accepted(i)
          /\ mem_servicing' = (req.op # "write") /\ fast_path_pending' = (req.op # "write")
      BY <2>7 DEF LookupAccess
    <3> QED  BY <1>1, <2>2, <2>3, <2>4, <3>1 DEF FsmInv, Awaited
  <2> QED  BY <1>5, <2>5, <2>6, <2>7
<1> QED  BY <1>4, <1>5 DEF MemTlb

\* The states after the first half, but for the walk of the second.
LEMMA SecondKeeps ==
    ASSUME TypeOK, WalkInv, FsmInv, PortInv, NEW i, Allowed(i), LookupAddress(i), DcacheNext(i),
           UNCHANGED <<pg_enable, wp_enable>>,
           CrossWait1(i) \/ CrossPrep2(i) \/ CrossTlb2(i) \/ CrossWait2(i)
    PROVE  FsmInv' /\ Awaited'
<1> USE DEF Demands, Seconds, Crossings, Walks
<1>1. /\ state \in {"CROSS_WAIT1", "CROSS_PREP2", "CROSS_TLB2", "CROSS_WAIT2"}
      /\ ~walk_biu_pending /\ walk_biu_pending' = walk_biu_pending
      /\ w_state = "IDLE" /\ req' = req /\ mem_servicing /\ ~fast_path_pending /\ Crosses(req)
  BY DEF CrossWait1, CrossPrep2, CrossTlb2, CrossWait2, WalkInv, FsmInv
<1>2. ~Presents(i)
  BY <1>1, PresentsWhen DEF demand_idle
<1>3. Crosses(req)' = Crosses(req)
  BY <1>1 DEF Crosses
<1>4. ASSUME Hold(i)
      PROVE  /\ dcache_req' = None \/ dcache' = None
             /\ Demanded' = IF completes(i) THEN None ELSE Demanded
             /\ completes(i) => Demanded # None
  BY <1>2, <1>4, HeldMoves DEF PortInv
<1>5. CASE CrossWait1(i)
  <2>1. /\ state = "CROSS_WAIT1" /\ state' = (IF completes(i) THEN "CROSS_PREP2" ELSE state) /\ Hold(i)
        /\ UNCHANGED <<mem_servicing, fast_path_pending>>
    BY <1>5 DEF CrossWait1, Goto
  <2> QED  BY <1>1, <1>3, <1>4, <2>1 DEF FsmInv, Awaited, PortInv
<1>6. CASE CrossPrep2(i)
  <2>1. /\ state = "CROSS_PREP2" /\ state' = "CROSS_TLB2" /\ Hold(i)
        /\ UNCHANGED <<mem_servicing, fast_path_pending>>
    BY <1>6 DEF CrossPrep2, Goto
  <2>2. lookup' = req.second
    BY <2>1, LookupMoves DEF second_lookup_load
  <2> QED  BY <1>1, <1>3, <1>4, <2>1, <2>2 DEF FsmInv, Awaited, PortInv
<1>7. CASE CrossTlb2(i)
  <2>1. state = "CROSS_TLB2" /\ Demanded = None
    BY <1>1, <1>7 DEF CrossTlb2, PortInv
  <2>2. lookup' = lookup
    BY <2>1, LookupMoves DEF second_lookup_load
  <2>3. CASE \E r : EmitSecondHalf(r) /\ r # None /\ r.kind # "walk" /\ req.op # "check"
    <3>1. PICK r : EmitSecondHalf(r) /\ r # None /\ r.kind # "walk" /\ req.op # "check"
      BY <2>3
    <3>2. Demanded' = r /\ dcache' = None
      BY <1>2, <2>1, <3>1, OfferPuts DEF EmitSecondHalf
    <3>3. state' = "CROSS_WAIT2" /\ UNCHANGED <<mem_servicing, fast_path_pending>>
      BY <3>1 DEF EmitSecondHalf, Goto
    <3> QED  BY <1>1, <1>3, <3>1, <3>2, <3>3 DEF FsmInv, Awaited
  <2>4. CASE Hold(i) /\ state' = "IDLE" /\ mem_servicing' = FALSE /\ UNCHANGED fast_path_pending
    BY <1>1, <1>4, <2>1, <2>4 DEF FsmInv, Awaited
  <2>5. CASE /\ Hold(i) /\ state' = "CROSS_WALK2" /\ UNCHANGED <<mem_servicing, fast_path_pending>>
             /\ req.kind = "mem" /\ ~req_can_translate
    <3>1. pg_enable /\ lookup = req.second
      BY <2>1, <2>5 DEF req_can_translate, FsmInv
    <3> QED  BY <1>1, <1>3, <1>4, <2>1, <2>2, <2>5, <3>1 DEF FsmInv, Awaited
  <2>6. CASE req.kind # "mem" /\ EmitSecondHalf(IoAccess(req.op = "write", 2))
    <3> DEFINE r == IoAccess(req.op = "write", 2)
    <3>1. r.kind = "io" /\ r \in Access
      BY Zenon DEF IoAccess, Access
    <3>2. req.op # "check"
      BY <2>6 DEF TypeOK, Demand
    <3> HIDE DEF r
    <3> QED  BY <2>3, <2>6, <3>1, <3>2, NoneAssumption DEF r
  <2>7. CASE /\ req.kind = "mem" /\ req_can_translate /\ req.op # "check"
             /\ EmitSecondHalf(MemAccess(req.op = "write", req.second, TlbFrame(req.second), req.user))
    <3> DEFINE r == MemAccess(req.op = "write", req.second, TlbFrame(req.second), req.user)
    <3>1. r.kind = "mem"
      BY Zenon DEF MemAccess
    <3>2. req.second \in Pages /\ TlbFrame(req.second) \in Frames
      BY <1>1, <2>7, PagingAssumption DEF TypeOK, Demand, Crosses, TlbFrame, req_can_translate, tlb_hit, Translation
    <3>3. r # None
      BY <3>2, MemAccessType, Zenon
    <3> HIDE DEF r
    <3> QED  BY <2>3, <2>7, <3>1, <3>3 DEF r
  <2>8. \/ req.kind # "mem" /\ EmitSecondHalf(IoAccess(req.op = "write", 2))
        \/ /\ req.kind = "mem" /\ req_can_translate /\ req.op # "check"
           /\ EmitSecondHalf(MemAccess(req.op = "write", req.second, TlbFrame(req.second), req.user))
        \/ Hold(i) /\ state' = "IDLE" /\ mem_servicing' = FALSE /\ UNCHANGED fast_path_pending
        \/ /\ Hold(i) /\ state' = "CROSS_WALK2" /\ UNCHANGED <<mem_servicing, fast_path_pending>>
           /\ req.kind = "mem" /\ ~req_can_translate
    BY <1>7, Zenon DEF CrossTlb2, complete_mem_request, raise_fault, Goto
  <2> QED  BY <2>4, <2>5, <2>6, <2>7, <2>8
<1>8. CASE CrossWait2(i)
  <2>1. /\ state = "CROSS_WAIT2" /\ Hold(i)
        /\ \/ completes(i) /\ state' = "IDLE" /\ mem_servicing' = FALSE /\ UNCHANGED fast_path_pending
           \/ ~completes(i) /\ UNCHANGED <<state, mem_servicing, fast_path_pending>>
    <3>1. CASE completes(i)
      BY <1>8, <3>1 DEF CrossWait2, complete_mem_request
    <3>2. CASE ~completes(i)
      BY <1>8, <3>2 DEF CrossWait2, control
    <3> QED  BY <3>1, <3>2
  <2>2. CASE completes(i)
    BY <1>1, <1>4, <2>1, <2>2 DEF FsmInv, Awaited, PortInv
  <2>3. CASE ~completes(i)
    <3>1. UNCHANGED <<state, mem_servicing, fast_path_pending>>
      BY <2>1, <2>3
    <3>2. Demanded' = Demanded /\ (dcache_req' = None \/ dcache' = None)
      BY <1>4, <2>1, <2>3
    <3>3. FsmInv'
      BY <1>1, <1>3, <2>1, <3>1 DEF FsmInv
    <3>4. Awaited'
      BY <1>1, <2>1, <3>1, <3>2 DEF PortInv, Awaited
    <3> QED  BY <3>3, <3>4
  <2> QED  BY <2>2, <2>3
<1> QED  BY <1>5, <1>6, <1>7, <1>8

-----------------------------------------------------------------------------
\* The walker's own access.

LEMMA Marks ==
    /\ \A e \in Pde : /\ MarkedPde(e) \in Pde /\ MarkedPde(e).p = e.p /\ MarkedPde(e).w = e.w
                      /\ MarkedPde(e).u = e.u /\ MarkedPde(e).base = e.base
    /\ \A e \in Pte : \A w \in BOOLEAN :
          /\ MarkedPte(e, w) \in Pte /\ MarkedPte(e, w).p = e.p /\ MarkedPte(e, w).w = e.w
          /\ MarkedPte(e, w).u = e.u /\ MarkedPte(e, w).frame = e.frame
          /\ MarkedPte(e, w).d = (e.d \/ w)
<1>1. ASSUME NEW e \in Pde
      PROVE  /\ MarkedPde(e) \in Pde /\ MarkedPde(e).p = e.p /\ MarkedPde(e).w = e.w
             /\ MarkedPde(e).u = e.u /\ MarkedPde(e).base = e.base
  BY DEF MarkedPde, Pde
<1>2. ASSUME NEW e \in Pte, NEW w \in BOOLEAN
      PROVE  /\ MarkedPte(e, w) \in Pte /\ MarkedPte(e, w).p = e.p /\ MarkedPte(e, w).w = e.w
             /\ MarkedPte(e, w).u = e.u /\ MarkedPte(e, w).frame = e.frame
             /\ MarkedPte(e, w).d = (e.d \/ w)
  BY DEF MarkedPte, Pte
<1> QED  BY <1>1, <1>2

LEMMA WalkAccessType ==
    ASSUME TypeOK, AskInv, LatchInv, mem_rd \/ mem_wr
    PROVE  WalkAccess \in Access /\ WalkAccess # None /\ WalkAccess.kind = "walk"
<1>1. w_state # "IDLE" /\ saved \in WalkRequest
  BY DEF mem_rd, mem_wr, AskInv
<1>2. mem_addr \in EntryAddress
  <2>1. CASE AtPde
    BY <1>1, <2>1 DEF mem_addr, EntryAddress, WalkRequest
  <2>2. CASE ~AtPde
    <3>1. w_state \in PdeRead \cup PdeMarked
      BY <2>2 DEF AtPde, PdeRead, PdeMarked, mem_rd, mem_wr
    <3>2. pde.base \in Tables
      BY <3>1 DEF LatchInv, Pde
    <3> QED  BY <1>1, <2>2, <3>2 DEF mem_addr, EntryAddress, WalkRequest
  <2> QED  BY <2>1, <2>2
<1>3. mem_wr => mem_wdata \in Pde \cup Pte
  <2>1. CASE mem_wr /\ AtPde
    <3>1. pde \in Pde
      BY <2>1 DEF mem_wr, AtPde, LatchInv, PdeRead
    <3> QED  BY <2>1, <3>1, Marks DEF mem_wdata, MarkedPde
  <2>2. CASE mem_wr /\ ~AtPde
    <3>1. pte \in Pte /\ saved.write \in BOOLEAN
      BY <1>1, <2>2 DEF mem_wr, AtPde, LatchInv, PteRead, WalkRequest
    <3>2. mem_wdata = MarkedPte(pte, saved.write)
      BY <2>2 DEF mem_wdata, MarkedPte
    <3> QED  BY <3>1, <3>2, Marks
  <2> QED  BY <2>1, <2>2
<1>4. mem_wr \in BOOLEAN
  BY DEF mem_wr
<1>5. WalkAccess \in Access
  <2> DEFINE d == IF mem_wr THEN mem_wdata ELSE None
  <2>1. d \in Pde \cup Pte \cup {None}
    BY <1>3
  <2>2. WalkAccess = [kind |-> "walk", write |-> mem_wr, at |-> mem_addr, data |-> d]
    BY Zenon DEF WalkAccess
  <2> HIDE DEF d
  <2> QED  BY <1>2, <1>4, <2>1, <2>2, Zenon DEF Access
<1> QED  BY <1>5, NoneAssumption, Zenon DEF WalkAccess

\* What a finished walk returns.
LEMMA ResultIs ==
    ASSUME TypeOK, AskInv, LatchInv, w_state = "DONE"
    PROVE  /\ result \in Translation /\ result.frame = pte.frame
           /\ result.w = (pde.w /\ pte.w) /\ result.u = (pde.u /\ pte.u)
           /\ result.d = (pte.d \/ saved.write)
<1>1. pde \in Pde /\ pte \in Pte /\ saved.write \in BOOLEAN
  BY DEF AskInv, LatchInv, PdeMarked, WalkRequest
<1> DEFINE c == Combined(pde, pte)
<1>2. c \in Translation /\ c.frame = pte.frame /\ c.w = (pde.w /\ pte.w) /\ c.u = (pde.u /\ pte.u) /\ c.d = pte.d
  <2>1. c.frame = pte.frame /\ c.w = (pde.w /\ pte.w) /\ c.u = (pde.u /\ pte.u) /\ c.d = pte.d
    BY Zenon DEF Combined
  <2>2. pte.frame \in Frames /\ (pde.w /\ pte.w) \in BOOLEAN /\ (pde.u /\ pte.u) \in BOOLEAN /\ pte.d \in BOOLEAN
    BY <1>1 DEF Pde, Pte
  <2>3. c \in Translation
    BY <2>2, Zenon DEF Combined, Translation
  <2> QED  BY <2>1, <2>3
<1>3. result = [c EXCEPT !.d = @ \/ saved.write]
  BY Zenon DEF result
<1> HIDE DEF c
<1>4. result \in Translation /\ result.frame = c.frame /\ result.w = c.w /\ result.u = c.u
      /\ result.d = (c.d \/ saved.write)
  BY <1>1, <1>2, <1>3 DEF Translation
<1> QED  BY <1>2, <1>4

LEMMA WalkingKeeps ==
    ASSUME TypeOK, WalkInv, FsmInv, PortInv, AskInv, LatchInv, NEW i, Allowed(i),
           LookupAddress(i), DcacheNext(i), UNCHANGED <<pg_enable, wp_enable>>,
           Walking(i) \/ CrossWalk2(i) \/ PfWalking(i)
    PROVE  /\ FsmInv' /\ Awaited'
           /\ walk_biu_pending' => \/ walker_issue_ready /\ Demanded' = WalkAccess
                                   \/ walk_biu_pending /\ Demanded' = Demanded /\ ~completes(i)
<1> USE DEF Demands, Seconds, Crossings, Walks
<1>1. /\ state \in Walks /\ req' = req /\ ~fast_path_pending
      /\ dcache_req = None \/ dcache = None
      /\ walk_biu_pending <=> Demanded # None
      /\ Demanded # None => Demanded.kind = "walk"
      /\ pg_enable' = pg_enable /\ pg_enable
  BY DEF Walking, CrossWalk2, PfWalking, FsmInv, PortInv
<1>2. ~Presents(i)
  BY <1>1, PresentsWhen DEF demand_idle, s_idle
<1>3. ASSUME Hold(i)
      PROVE  /\ dcache_req' = None \/ dcache' = None
             /\ Demanded' = IF completes(i) THEN None ELSE Demanded
  BY <1>1, <1>2, <1>3, HeldMoves
<1>4. walk_done => ~walk_biu_pending /\ Demanded = None
  BY <1>1 DEF WalkInv, walk_done, Waits
<1>5. lookup' = IF walk_done /\ ~walk_fault /\ state = "WALKING" /\ req.op = "check" /\ Crosses(req)
                THEN req.second ELSE lookup
  BY <1>1, LookupMoves DEF second_lookup_load
<1>6. (Crosses(req))' = Crosses(req)
  BY <1>1 DEF Crosses
<1>7. CASE ~walk_done
  <2>1. UNCHANGED control /\ WalkerPort(i)
    BY <1>7, Zenon DEF Walking, CrossWalk2, PfWalking, WalkRuns, WalkFaults
  <2>2. UNCHANGED <<state, mem_servicing, fast_path_pending>> /\ lookup' = lookup
    BY <1>5, <1>7, <2>1 DEF control
  <2>3. FsmInv'
    BY <1>1, <1>6, <2>2 DEF FsmInv
  <2>4. CASE walker_issue_ready
    <3>1. Demanded = None /\ Offer(WalkAccess) /\ walk_biu_pending' = TRUE
      BY <1>1, <2>1, <2>4 DEF WalkerPort, walker_issue_ready
    <3>2. WalkAccess # None /\ WalkAccess.kind = "walk"
      BY <2>4, WalkAccessType DEF walker_issue_ready
    <3>3. dcache' = None /\ Demanded' = WalkAccess
      BY <1>2, <3>1, <3>2, OfferPuts
    <3> QED  BY <1>1, <2>2, <2>3, <2>4, <3>1, <3>2, <3>3 DEF Awaited
  <2>5. CASE ~walker_issue_ready
    <3>1. Hold(i) /\ walk_biu_pending' = (walk_biu_pending /\ ~completes(i))
      BY <2>1, <2>5 DEF WalkerPort, WalkDone
    <3> QED  BY <1>1, <1>3, <2>2, <2>3, <3>1 DEF Awaited
  <2> QED  BY <2>4, <2>5
<1>8. CASE walk_done
  <2>1. ASSUME Hold(i), walk_biu_pending' = (walk_biu_pending /\ ~completes(i)),
               state' \notin Crossings, ~fast_path_pending'
        PROVE  Awaited' /\ ~walk_biu_pending'
    BY <1>3, <1>4, <1>8, <2>1 DEF Awaited
  <2>2. ASSUME NEW page \in Pages, NEW half, WalkEmits(page, half), walk_biu_pending' = (walk_biu_pending /\ ~completes(i)),
               ~walk_fault, fast_path_pending' <=> state' \notin Crossings
        PROVE  Awaited' /\ ~walk_biu_pending'
    <3> DEFINE r == MemAccess(req.op = "write", page, result.frame, req.user)
    <3>1. w_state = "DONE"
      BY <1>8, <2>2 DEF walk_done, walk_fault
    <3>2. result.frame \in Frames
      BY <3>1, ResultIs DEF Translation
    <3>3. r.kind = "mem"
      BY Zenon DEF MemAccess
    <3>4. r # None
      BY <3>2, MemAccessType, Zenon
    <3>5. Offer(r)
      BY <2>2 DEF WalkEmits
    <3> HIDE DEF r
    <3>6. Demanded' = r /\ dcache' = None
      BY <1>2, <1>4, <1>8, <3>4, <3>5, OfferPuts
    <3> QED  BY <1>4, <1>8, <2>2, <3>3, <3>4, <3>6 DEF Awaited
  <2>3. ASSUME NEW page, WalkFaults(i, page)
        PROVE  FsmInv' /\ Awaited' /\ ~walk_biu_pending'
    <3>1. /\ Hold(i) /\ walk_biu_pending' = (walk_biu_pending /\ ~completes(i))
          /\ state' = "IDLE" /\ mem_servicing' = FALSE /\ UNCHANGED fast_path_pending
      BY <2>3 DEF WalkFaults, raise_fault, complete_mem_request, WalkDone
    <3> QED  BY <1>1, <2>1, <3>1 DEF FsmInv
  <2>4. CASE Walking(i) /\ ~walk_fault
    <3>1. /\ state = "WALKING" /\ walk_biu_pending' = (walk_biu_pending /\ ~completes(i))
          /\ mem_servicing /\ req.kind = "mem" /\ req.page \in Pages
          /\ \/ /\ req.op = "check" /\ Hold(i)
                /\ \/ Crosses(req) /\ state' = "CROSS_TLB2" /\ UNCHANGED <<mem_servicing, fast_path_pending>>
                   \/ ~Crosses(req) /\ state' = "IDLE" /\ mem_servicing' = FALSE /\ UNCHANGED fast_path_pending
             \/ /\ req.op # "check" /\ WalkEmits(req.page, 1)
                /\ \/ Crosses(req) /\ state' = "CROSS_WAIT1" /\ UNCHANGED <<mem_servicing, fast_path_pending>>
                   \/ ~Crosses(req) /\ state' = "IDLE" /\ fast_path_pending' = TRUE /\ UNCHANGED mem_servicing
      BY <1>8, <2>4 DEF Walking, WalkRuns, WalkFaults, WalkDone, Goto, complete_mem_request, FsmInv, TypeOK, Demand
    <3>2. CASE req.op = "check" /\ Crosses(req)
      BY <1>1, <1>5, <1>6, <1>8, <2>1, <2>4, <3>1, <3>2 DEF FsmInv
    <3>3. CASE req.op = "check" /\ ~Crosses(req)
      <4>1. Hold(i) /\ state' = "IDLE" /\ mem_servicing' = FALSE /\ UNCHANGED fast_path_pending
        BY <3>1, <3>3
      <4> QED  BY <1>1, <2>1, <3>1, <4>1 DEF FsmInv
    <3>4. CASE req.op # "check" /\ Crosses(req)
      <4>1. /\ state' = "CROSS_WAIT1" /\ UNCHANGED <<mem_servicing, fast_path_pending>>
            /\ req.page \in Pages /\ WalkEmits(req.page, 1)
        BY <3>1, <3>4
      <4>2. Awaited' /\ ~walk_biu_pending'
        BY <1>1, <2>2, <2>4, <3>1, <4>1
      <4>3. FsmInv'
        BY <1>1, <1>6, <3>1, <3>4, <4>1 DEF FsmInv
      <4> QED  BY <4>2, <4>3
    <3>5. CASE req.op # "check" /\ ~Crosses(req)
      BY <1>1, <2>2, <2>4, <3>1, <3>5 DEF FsmInv
    <3> QED  BY <3>2, <3>3, <3>4, <3>5
  <2>5. CASE CrossWalk2(i) /\ ~walk_fault
    <3>1. /\ state = "CROSS_WALK2" /\ walk_biu_pending' = (walk_biu_pending /\ ~completes(i))
          /\ mem_servicing /\ req.kind = "mem" /\ Crosses(req) /\ req.second \in Pages
          /\ \/ /\ req.op = "check" /\ Hold(i) /\ state' = "IDLE" /\ mem_servicing' = FALSE
                /\ UNCHANGED fast_path_pending
             \/ /\ req.op # "check" /\ WalkEmits(req.second, 2)
                /\ state' = "CROSS_WAIT2" /\ UNCHANGED <<mem_servicing, fast_path_pending>>
      BY <1>8, <2>5 DEF CrossWalk2, WalkRuns, WalkFaults, WalkDone, Goto, complete_mem_request, FsmInv, TypeOK, Demand,
                        Crosses
    <3>2. CASE req.op = "check"
      BY <1>1, <2>1, <3>1, <3>2 DEF FsmInv
    <3>3. CASE req.op # "check"
      <4>1. /\ state' = "CROSS_WAIT2" /\ UNCHANGED <<mem_servicing, fast_path_pending>>
            /\ WalkEmits(req.second, 2)
        BY <3>1, <3>3
      <4>2. Awaited' /\ ~walk_biu_pending'
        BY <1>1, <2>2, <2>5, <3>1, <4>1
      <4>3. FsmInv'
        BY <1>1, <1>6, <3>1, <3>3, <4>1 DEF FsmInv
      <4> QED  BY <4>2, <4>3
    <3> QED  BY <3>2, <3>3
  <2>6. CASE PfWalking(i)
    <3>1. /\ state = "PF_WALKING" /\ Hold(i) /\ walk_biu_pending' = (walk_biu_pending /\ ~completes(i))
          /\ state' \in {"IDLE", "PF_BIU_WAIT"} /\ UNCHANGED <<mem_servicing, fast_path_pending>>
      BY <1>8, <2>6 DEF PfWalking, WalkDone, Goto
    <3> QED  BY <1>1, <2>1, <3>1 DEF FsmInv
  <2>7. CASE (Walking(i) \/ CrossWalk2(i)) /\ walk_fault
    <3>1. \E page : WalkFaults(i, page)
      BY <1>8, <2>7, Zenon DEF Walking, CrossWalk2, WalkRuns
    <3> QED  BY <2>3, <3>1
  <2> QED  BY <2>4, <2>5, <2>6, <2>7
<1> QED  BY <1>7, <1>8

-----------------------------------------------------------------------------
\* The walker, its request and what it latched.

\* The walker keeps asking for the same access until it is answered.
LEMMA AccessKept ==
    ASSUME NEW request, NEW ready, NEW data, Walk(request, ready, data),
           w_state \in Issues \/ (w_state \in Waits /\ ~ready)
    PROVE  WalkAccess' = WalkAccess
<1> USE DEF Issues, Waits
<1>1. /\ UNCHANGED <<saved, pde, pte>>
      /\ \/ w_state' = w_state
         \/ w_state = "READ_PDE" /\ w_state' = "WAIT_PDE"
         \/ w_state = "READ_PTE" /\ w_state' = "WAIT_PTE"
         \/ w_state = "WRITE_PDE" /\ w_state' = "WAIT_WR_PDE"
         \/ w_state = "WRITE_PTE" /\ w_state' = "WAIT_WR_PTE"
  <2>1. CASE WalkIssue
    BY <2>1 DEF WalkIssue, WalkTo
  <2>2. CASE WalkWait(ready)
    BY <2>2 DEF WalkWait, WalkStay, walker
  <2>3. ~WalkIdle(request) /\ ~WalkPde(ready, data) /\ ~WalkPte(ready, data) /\ ~WalkCheck
        /\ ~WalkWritten(ready) /\ ~WalkEnd
    BY DEF WalkIdle, WalkPde, WalkPte, WalkCheck, WalkWritten, WalkEnd, walk_done
  <2> QED  BY <2>1, <2>2, <2>3 DEF Walk
<1>2. (mem_wr' <=> mem_wr) /\ (AtPde' <=> AtPde)
  BY <1>1 DEF mem_wr, AtPde
<1>3. mem_wr' = mem_wr
  BY <1>2 DEF mem_wr
<1>4. mem_addr' = mem_addr /\ mem_wdata' = mem_wdata
  BY <1>1, <1>2, Zenon DEF mem_addr, mem_wdata
<1> QED  BY <1>3, <1>4, Zenon DEF WalkAccess

LEMMA AskStep ==
    ASSUME TypeOK, WalkInv, AskInv, NEW i, Fsm(i), WalkerStep(i), LookupAddress(i), UNCHANGED wp_enable
    PROVE  AskInv'
<1> DEFINE asked == [page |-> lookup, write |-> IsWrite(req), user |-> req.user, cr3 |-> cr3, wp |-> wp_enable]
<1>1. PICK request, data :
        /\ Walk(request, walker_feed_ready(i), data)
        /\ request = IF walk_request THEN asked ELSE None
  BY DEF WalkerStep
<1>2. /\ asked \in WalkRequest /\ asked.page = lookup /\ asked.user = req.user /\ asked.wp = wp_enable
      /\ asked.write <=> IsWrite(req)
  <2>1. IsWrite(req) \in BOOLEAN
    BY DEF IsWrite
  <2>2. req.user \in BOOLEAN /\ lookup \in Pages /\ cr3 \in Roots /\ wp_enable \in BOOLEAN
    BY DEF TypeOK, Demand
  <2> QED  BY <2>1, <2>2, Zenon DEF WalkRequest
<1> HIDE DEF asked
<1>3. SUFFICES ASSUME w_state' # "IDLE"  PROVE AskInv'
  BY DEF AskInv
<1>4. w_state \notin {"DONE", "FAULT"} /\ (w_state = "IDLE" => walk_request)
  BY <1>1, <1>3, WalkerMoves
<1>5. state \in Walks /\ ~walk_done
  BY <1>4 DEF WalkInv, walk_done
<1>6. lookup' = lookup
  BY <1>5, LookupMoves DEF second_lookup_load, Walks
<1>7. req' = req
  BY <1>5 DEF Fsm, Walks, Walking, CrossWalk2, PfWalking, Idle, IdleStay, IdleFetchWalk, IdleGated, IdleIo,
              IdlePretranslated, IdleEarlyWrite, IdleLookup, CaptureMem, MemTlb, CrossWait1, CrossPrep2, CrossTlb2,
              CrossWait2, PfBiuWait
<1>8. CASE w_state = "IDLE"
  <2>1. saved' = asked
    <3>1. WalkIdle(request)
      BY <1>1, <1>8 DEF Walk, WalkIdle, WalkIssue, WalkWait, WalkPde, WalkPte, WalkCheck, WalkWritten, WalkEnd, walk_done
    <3> QED  BY <1>1, <1>3, <1>4, <1>8, <3>1 DEF WalkIdle, WalkStay, walker
  <2> QED  BY <1>2, <1>6, <1>7, <2>1 DEF AskInv, IsWrite
<1>9. CASE w_state # "IDLE"
  <2>1. saved' = saved
    BY <1>1, <1>9 DEF Walk, WalkIdle, WalkIssue, WalkWait, WalkPde, WalkPte, WalkCheck, WalkWritten, WalkEnd,
                      WalkTo, WalkStay, walker
  <2> QED  BY <1>6, <1>7, <1>9, <2>1 DEF AskInv, IsWrite
<1> QED  BY <1>8, <1>9

\* While the walker is at work nothing but its own marks changes the tables, and a
\* mark is made on the clock the walker is answered.
LEMMA TablesStep ==
    ASSUME TypeOK, WalkInv, FsmInv, PortInv, AskInv, NEW i, Allowed(i), Memory(i), w_state # "IDLE"
    PROVE  /\ ~(accepted(i) /\ mem_wr) => pdes' = pdes /\ ptes' = ptes
           /\ accepted(i) => walk_biu_pending /\ w_state \in Waits
           /\ accepted(i) /\ mem_wr =>
                /\ walker_feed_ready(i)
                /\ AtPde => pdes' = [pdes EXCEPT ![saved.cr3] = MarkedPde(pde)] /\ ptes' = ptes
                /\ ~AtPde => /\ pdes' = pdes
                             /\ ptes' = [ptes EXCEPT ![pde.base][saved.page] = MarkedPte(pte, saved.write)]
           /\ walker_feed_ready(i) => /\ Answering(i) = WalkAccess
                                      /\ mem_wr => accepted(i)
<1>1. state \in Walks /\ ~fast_path_pending /\ i.edit = None /\ ~Presents(i)
  <2>1. state \in Walks
    BY DEF WalkInv
  <2> QED  BY <2>1, PresentsWhen DEF FsmInv, Walks, Demands, Allowed, demand_idle, s_idle
<1>2. Offered(i) = dcache_req
  BY <1>1, OfferedIs DEF Presents
<1>3. /\ walk_biu_pending <=> Demanded # None
      /\ walk_biu_pending => Demanded = WalkAccess
  BY <1>1 DEF PortInv, Walks, Crossings
<1>4. accepted(i) => walk_biu_pending /\ Offered(i) = WalkAccess /\ dcache = None
  BY <1>2, <1>3 DEF accepted, Allowed, Demanded
<1>5. accepted(i) => w_state \in Waits
  BY <1>4 DEF WalkInv
<1>6. /\ WalkAccess.kind = "walk" /\ (WalkAccess.write <=> mem_wr) /\ WalkAccess.at = mem_addr
      /\ mem_wr => WalkAccess.data = mem_wdata
  <2> DEFINE d == IF mem_wr THEN mem_wdata ELSE None
  <2>1. WalkAccess.kind = "walk" /\ (WalkAccess.write <=> mem_wr) /\ WalkAccess.at = mem_addr /\ WalkAccess.data = d
    BY Zenon DEF WalkAccess
  <2> QED  BY <2>1
<1>7. \A level : WalkerWrites(i, level) <=> accepted(i) /\ mem_wr /\ mem_addr.level = level
  BY <1>4, <1>6 DEF WalkerWrites
<1>8. /\ AtPde => mem_addr.level = "pde" /\ mem_addr.root = saved.cr3 /\ mem_wdata = MarkedPde(pde)
      /\ ~AtPde => /\ mem_addr.level = "pte" /\ mem_addr.table = pde.base /\ mem_addr.page = saved.page
                   /\ mem_wdata = MarkedPte(pte, saved.write)
  BY DEF mem_addr, mem_wdata, MarkedPde, MarkedPte
<1>9. /\ pdes' = IF WalkerWrites(i, "pde") THEN [pdes EXCEPT ![Offered(i).at.root] = Offered(i).data] ELSE pdes
      /\ ptes' = IF WalkerWrites(i, "pte")
                 THEN [ptes EXCEPT ![Offered(i).at.table][Offered(i).at.page] = Offered(i).data] ELSE ptes
  BY <1>1 DEF Memory
<1>10. ~(accepted(i) /\ mem_wr) => pdes' = pdes /\ ptes' = ptes
  BY <1>7, <1>9
<1>11. ASSUME accepted(i), mem_wr
       PROVE  /\ walker_feed_ready(i)
              /\ AtPde => pdes' = [pdes EXCEPT ![saved.cr3] = MarkedPde(pde)] /\ ptes' = ptes
              /\ ~AtPde => /\ pdes' = pdes
                           /\ ptes' = [ptes EXCEPT ![pde.base][saved.page] = MarkedPte(pte, saved.write)]
  <2>1. walker_feed_ready(i)
    BY <1>4, <1>6, <1>11 DEF walker_feed_ready, completes
  <2>2. CASE AtPde
    <3>1. Offered(i).at.root = saved.cr3 /\ Offered(i).data = MarkedPde(pde)
      BY <1>4, <1>6, <1>8, <1>11, <2>2
    <3>2. WalkerWrites(i, "pde") /\ ~WalkerWrites(i, "pte")
      BY <1>7, <1>8, <1>11, <2>2
    <3> QED  BY <1>9, <2>1, <2>2, <3>1, <3>2
  <2>3. CASE ~AtPde
    <3>1. Offered(i).at.table = pde.base /\ Offered(i).at.page = saved.page
          /\ Offered(i).data = MarkedPte(pte, saved.write)
      BY <1>4, <1>6, <1>8, <1>11, <2>3
    <3>2. ~WalkerWrites(i, "pde") /\ WalkerWrites(i, "pte")
      BY <1>7, <1>8, <1>11, <2>3
    <3> QED  BY <1>9, <2>1, <2>3, <3>1, <3>2
  <2> QED  BY <2>2, <2>3
<1>12. ASSUME walker_feed_ready(i)
       PROVE  Answering(i) = WalkAccess /\ (mem_wr => accepted(i))
  <2>1. walk_biu_pending /\ completes(i) /\ Demanded = WalkAccess
    BY <1>3, <1>12 DEF walker_feed_ready
  <2>2. CASE dcache # None
    BY <1>6, <2>1, <2>2 DEF PortInv, Demanded, Answering
  <2>3. CASE dcache = None
    BY <1>2, <2>1, <2>3 DEF Demanded, Answering, completes, accepted
  <2> QED  BY <2>2, <2>3
<1> QED  BY <1>4, <1>5, <1>10, <1>11, <1>12

\* What the walker is told is what the tables hold.
LEMMA FeedIs ==
    ASSUME TypeOK, WalkInv, FsmInv, PortInv, AskInv, NEW i, Allowed(i), Memory(i),
           w_state \in {"WAIT_PDE", "WAIT_PTE"}, walker_feed_ready(i)
    PROVE  /\ read_complete(i) /\ pdes' = pdes /\ ptes' = ptes
           /\ w_state = "WAIT_PDE" => rdata(i) = pdes[saved.cr3]
           /\ w_state = "WAIT_PTE" => rdata(i) = ptes[pde.base][saved.page]
<1>1. ~mem_wr /\ w_state # "IDLE" /\ (AtPde <=> w_state = "WAIT_PDE")
  BY DEF mem_wr, AtPde
<1>2. Answering(i) = WalkAccess /\ pdes' = pdes /\ ptes' = ptes
  BY <1>1, TablesStep
<1>3. WalkAccess.kind = "walk" /\ (WalkAccess.write <=> mem_wr) /\ WalkAccess.at = mem_addr
  BY Zenon DEF WalkAccess
<1>4. read_complete(i)
  BY <1>1, <1>2, <1>3 DEF read_complete, walker_feed_ready
<1>5. CASE w_state = "WAIT_PDE"
  <2>1. mem_addr.level = "pde" /\ mem_addr.root = saved.cr3
    BY <1>1, <1>5 DEF mem_addr
  <2>2. rdata(i) = pdes[saved.cr3]
    BY <1>2, <1>3, <2>1 DEF rdata
  <2> QED  BY <1>2, <1>4, <1>5, <2>2
<1>6. CASE w_state = "WAIT_PTE"
  <2>1. mem_addr.level = "pte" /\ mem_addr.table = pde.base /\ mem_addr.page = saved.page
    BY <1>1, <1>6 DEF mem_addr
  <2>2. rdata(i) = ptes[pde.base][saved.page]
    BY <1>2, <1>3, <2>1 DEF rdata
  <2> QED  BY <1>2, <1>4, <1>6, <2>2
<1> QED  BY <1>5, <1>6

LEMMA LatchStep ==
    ASSUME TypeOK, WalkInv, FsmInv, PortInv, AskInv, LatchInv, NEW i, Allowed(i), Memory(i), WalkerStep(i)
    PROVE  LatchInv'
<1> USE DEF PdeRead, PdeMarked, PteRead, Granted
<1> DEFINE ready == walker_feed_ready(i)
<1>1. PICK request, data :
        /\ Walk(request, ready, data)
        /\ data = IF ready /\ read_complete(i) THEN rdata(i) ELSE None
  BY DEF WalkerStep
<1>2. w_state # "IDLE" => /\ saved.cr3 \in Roots /\ saved.page \in Pages /\ saved.write \in BOOLEAN
                          /\ pdes \in [Roots -> Pde] /\ ptes \in [Tables -> [Pages -> Pte]]
  BY DEF AskInv, TypeOK, WalkRequest
<1>3. /\ w_state # "IDLE" /\ w_state \notin Waits => pdes' = pdes /\ ptes' = ptes
      /\ w_state # "IDLE" /\ ~ready => pdes' = pdes /\ ptes' = ptes
  BY TablesStep
<1> HIDE DEF ready
<1>4. CASE WalkIdle(request)
  BY <1>4 DEF WalkIdle, WalkStay, walker, LatchInv
<1>5. CASE WalkIssue
  <2>1. /\ UNCHANGED <<saved, pde, pte>> /\ pdes' = pdes /\ ptes' = ptes
        /\ \/ w_state = "READ_PDE" /\ w_state' = "WAIT_PDE"
           \/ w_state = "READ_PTE" /\ w_state' = "WAIT_PTE"
           \/ w_state = "WRITE_PDE" /\ w_state' = "WAIT_WR_PDE"
           \/ w_state = "WRITE_PTE" /\ w_state' = "WAIT_WR_PTE"
    BY <1>3, <1>5 DEF WalkIssue, WalkTo, Waits
  <2> QED  BY <2>1 DEF LatchInv, GrantedNow
<1>6. CASE WalkWait(ready)
  <2>1. UNCHANGED <<w_state, saved, pde, pte, pdes, ptes>>
    BY <1>3, <1>6 DEF WalkWait, WalkStay, walker
  <2> QED  BY <2>1 DEF LatchInv, GrantedNow
<1>7. CASE WalkPde(ready, data)
  <2>1. w_state = "WAIT_PDE" /\ ready
    BY <1>7 DEF WalkPde
  <2>2. pdes' = pdes /\ ptes' = ptes /\ data = pdes[saved.cr3]
    BY <1>1, <2>1, FeedIs DEF ready
  <2>3. data \in Pde
    BY <1>2, <2>1, <2>2
  <2> QED  BY <1>7, <2>2, <2>3 DEF WalkPde, LatchInv
<1>8. CASE WalkPte(ready, data)
  <2>1. w_state = "WAIT_PTE" /\ ready
    BY <1>8 DEF WalkPte
  <2>2. pdes' = pdes /\ ptes' = ptes /\ data = ptes[pde.base][saved.page]
    BY <1>1, <2>1, FeedIs DEF ready
  <2>3. pde \in Pde /\ pde.p /\ pdes[saved.cr3] = pde
    BY <2>1 DEF LatchInv
  <2>4. data \in Pte
    BY <1>2, <2>1, <2>2, <2>3 DEF Pde
  <2> QED  BY <1>8, <2>2, <2>3, <2>4 DEF WalkPte, LatchInv
<1>9. CASE WalkCheck
  <2>1. w_state = "CHECK_PERM" /\ UNCHANGED <<saved, pde, pte>>
        /\ w_state' = (IF GrantedNow THEN "WRITE_PDE" ELSE "FAULT")
    BY <1>9 DEF WalkCheck, WalkTo, GrantedNow
  <2>2. pdes' = pdes /\ ptes' = ptes
    BY <1>3, <2>1 DEF Waits
  <2>3. GrantedNow' <=> GrantedNow
    BY <2>1 DEF GrantedNow
  <2> HIDE DEF GrantedNow
  <2> QED  BY <2>1, <2>2, <2>3 DEF LatchInv
<1>10. CASE WalkWritten(ready)
  <2>1. ready /\ UNCHANGED <<saved, pde, pte>>
        /\ \/ w_state = "WAIT_WR_PDE" /\ w_state' = "WRITE_PTE"
           \/ w_state = "WAIT_WR_PTE" /\ w_state' = "DONE"
    BY <1>10 DEF WalkWritten, WalkTo
  <2>2. mem_wr /\ (AtPde <=> w_state = "WAIT_WR_PDE") /\ w_state # "IDLE"
    BY <2>1 DEF mem_wr, AtPde
  <2>3. accepted(i)
    BY <2>1, <2>2, TablesStep DEF ready
  <2>4. GrantedNow' <=> GrantedNow
    BY <2>1 DEF GrantedNow
  <2>5. CASE w_state = "WAIT_WR_PDE"
    <3>1. pdes' = [pdes EXCEPT ![saved.cr3] = MarkedPde(pde)] /\ ptes' = ptes
      BY <2>2, <2>3, <2>5, TablesStep
    <3>2. pdes'[saved.cr3] = MarkedPde(pde)
      BY <1>2, <2>2, <3>1
    <3>3. MarkedPde(pde)' = MarkedPde(pde)
      BY <2>1 DEF MarkedPde
    <3> QED  BY <2>1, <2>4, <2>5, <3>1, <3>2, <3>3 DEF LatchInv
  <2>6. CASE w_state = "WAIT_WR_PTE"
    <3>1. /\ pdes' = pdes
          /\ ptes' = [ptes EXCEPT ![pde.base][saved.page] = MarkedPte(pte, saved.write)]
      BY <2>2, <2>3, <2>6, TablesStep
    <3>2. pde \in Pde /\ pde.base \in Tables
      BY <2>6 DEF LatchInv, Pde
    <3>3. ptes'[pde.base][saved.page] = MarkedPte(pte, saved.write)
      BY <1>2, <2>2, <3>1, <3>2
    <3>4. MarkedPte(pte, saved.write)' = MarkedPte(pte, saved.write) /\ MarkedPde(pde)' = MarkedPde(pde)
      BY <2>1 DEF MarkedPte, MarkedPde
    <3> QED  BY <2>1, <2>4, <2>6, <3>1, <3>2, <3>3, <3>4 DEF LatchInv
  <2> QED  BY <2>1, <2>5, <2>6
<1>11. CASE WalkEnd
  BY <1>11 DEF WalkEnd, WalkTo, LatchInv
<1> QED  BY <1>1, <1>4, <1>5, <1>6, <1>7, <1>8, <1>9, <1>10, <1>11 DEF Walk

-----------------------------------------------------------------------------
\* The I-cache port in one clock.

\* Each arm is for its own state.
LEMMA FsmIs ==
    ASSUME NEW i, Fsm(i)
    PROVE  /\ state = "IDLE" <=> Idle(i)
           /\ state = "MEM_TLB" <=> MemTlb(i)
           /\ state = "WALKING" <=> Walking(i)
           /\ state = "CROSS_WALK2" <=> CrossWalk2(i)
           /\ state = "PF_WALKING" <=> PfWalking(i)
           /\ state = "PF_BIU_WAIT" <=> PfBiuWait(i)
           /\ state = "CROSS_WAIT1" <=> CrossWait1(i)
           /\ state = "CROSS_PREP2" <=> CrossPrep2(i)
           /\ state = "CROSS_TLB2" <=> CrossTlb2(i)
           /\ state = "CROSS_WAIT2" <=> CrossWait2(i)
<1>1. Idle(i) => state = "IDLE"
  BY DEF Idle, IdleStay, IdleFetchWalk, IdleGated, IdleIo, IdlePretranslated, IdleEarlyWrite, IdleLookup, CaptureMem
<1>2. /\ MemTlb(i) => state = "MEM_TLB"
      /\ Walking(i) => state = "WALKING"
      /\ CrossWalk2(i) => state = "CROSS_WALK2"
      /\ PfWalking(i) => state = "PF_WALKING"
      /\ PfBiuWait(i) => state = "PF_BIU_WAIT"
  BY DEF MemTlb, Walking, CrossWalk2, PfWalking, PfBiuWait
<1>3. /\ CrossWait1(i) => state = "CROSS_WAIT1"
      /\ CrossPrep2(i) => state = "CROSS_PREP2"
      /\ CrossTlb2(i) => state = "CROSS_TLB2"
      /\ CrossWait2(i) => state = "CROSS_WAIT2"
  BY DEF CrossWait1, CrossPrep2, CrossTlb2, CrossWait2
<1> QED  BY <1>1, <1>2, <1>3 DEF Fsm

\* When the FSM works for the prefetcher.
LEMMA FetchArms ==
    ASSUME NEW i, Fsm(i)
    PROVE  /\ state' = "PF_WALKING" <=> \/ IdleFetchWalk(i)
                                        \/ state = "PF_WALKING" /\ ~walk_done
           /\ state' = "PF_BIU_WAIT" <=> \/ FetchWalkEnds /\ ~pf_redirect_queued /\ ~walk_fault
                                         \/ state = "PF_BIU_WAIT" /\ ~i.icomp
           /\ IdleFetchWalk(i) => /\ state = "IDLE" /\ idle_pf_req /\ ~fast_pf_candidate(i) /\ pf_tlb_match /\ ~tlb_hit
                                  /\ ~idle_mem_precheck(i) /\ state' = "PF_WALKING"
           /\ state = "PF_WALKING" /\ walk_done /\ (pf_redirect_queued \/ walk_fault) => state' = "IDLE"
<1>1. IdleFetchWalk(i) => /\ state = "IDLE" /\ idle_pf_req /\ ~fast_pf_candidate(i) /\ pf_tlb_match /\ ~tlb_hit
                          /\ ~idle_mem_precheck(i) /\ state' = "PF_WALKING"
  BY DEF IdleFetchWalk, Goto
<1>2. CASE state = "IDLE"
  <2>1. Idle(i)
    BY <1>2, FsmIs
  <2>2. ASSUME ~IdleFetchWalk(i)  PROVE state' \notin {"PF_WALKING", "PF_BIU_WAIT"}
    BY <2>1, <2>2 DEF Idle, IdleStay, IdleGated, IdleIo, IdlePretranslated, IdleEarlyWrite, IdleLookup, Goto
  <2> QED  BY <1>1, <1>2, <2>2 DEF FetchWalkEnds
<1>3. CASE state = "PF_WALKING"
  <2>1. PfWalking(i)
    BY <1>3, FsmIs
  <2> QED  BY <1>1, <1>3, <2>1 DEF PfWalking, Goto, control, FetchWalkEnds
<1>4. CASE state = "PF_BIU_WAIT"
  <2>1. PfBiuWait(i)
    BY <1>4, FsmIs
  <2> QED  BY <1>1, <1>4, <2>1 DEF PfBiuWait, Goto, FetchWalkEnds
<1>5. CASE state \notin {"IDLE", "PF_WALKING", "PF_BIU_WAIT"}
  <2>1. state' \notin {"PF_WALKING", "PF_BIU_WAIT"}
    <3>1. CASE MemTlb(i)
      BY <3>1 DEF MemTlb, LookupFault, LookupChecked, LookupAccess, LookupWait, LookupMiss, Goto, raise_fault,
                  complete_mem_request
    <3>2. CASE Walking(i) \/ CrossWalk2(i)
      BY <1>5, <3>2 DEF Walking, CrossWalk2, WalkRuns, WalkFaults, control, Goto, raise_fault, complete_mem_request
    <3>3. CASE CrossWait1(i) \/ CrossPrep2(i) \/ CrossTlb2(i)
      BY <1>5, <3>3 DEF CrossWait1, CrossPrep2, CrossTlb2, EmitSecondHalf, Goto, raise_fault, complete_mem_request
    <3>4. CASE CrossWait2(i)
      BY <1>5, <3>4 DEF CrossWait2, control, complete_mem_request
    <3> QED  BY <1>5, <3>1, <3>2, <3>3, <3>4, FsmIs DEF Fsm
  <2> QED  BY <1>1, <1>5, <2>1 DEF FetchWalkEnds
<1> QED  BY <1>2, <1>3, <1>4, <1>5

LEMMA LineType ==
    ASSUME pf_page \in Pages, NEW page \in Pages, NEW frame \in Frames, NEW user
    PROVE  LineRequest(page, frame, user) \in Line /\ LineRequest(page, frame, user) # None
<1>1. Current(page, frame, FALSE, user) \in BOOLEAN
  BY Zenon DEF Current
<1>2. LineRequest(page, frame, user) \in Line
  BY <1>1, Zenon DEF LineRequest, Line
<1> QED  BY <1>2, NoneAssumption

\* A line request is made for a real frame.
LEMMA FastFrame ==
    ASSUME TypeOK, NEW i, fast_pf_candidate(i)
    PROVE  fast_pf_frame(i) \in Frames
<1>1. CASE ~pg_enable
  BY <1>1, PagingAssumption DEF fast_pf_frame, TypeOK
<1>2. CASE pg_enable /\ pf_xlat_hit(i)
  BY <1>2 DEF fast_pf_frame, pf_xlat_hit, TypeOK
<1>3. CASE pg_enable /\ ~pf_xlat_hit(i)
  <2>1. fast_pf_frame(i) = tlb[lookup].frame /\ tlb_hit
    BY <1>3 DEF fast_pf_frame, fast_pf_candidate
  <2>2. tlb[lookup] \in Translation
    BY <2>1 DEF tlb_hit, TypeOK
  <2> QED  BY <2>1, <2>2 DEF Translation
<1> QED  BY <1>1, <1>2, <1>3

LEMMA LineStep ==
    ASSUME TypeOK, WalkInv, FsmInv, PortInv, AskInv, LatchInv, NEW i, Allowed(i), Fsm(i), PrefetchPort(i)
    PROVE  /\ icache_req' \in Line \cup {None} /\ icache' \in Line \cup {None}
           /\ icache_req' = None \/ icache' = None
           /\ pf_fast_pending' \/ state' = "PF_BIU_WAIT" <=> icache_req' # None \/ icache' # None
           /\ ~(pf_fast_pending' /\ state' \in {"PF_WALKING", "PF_BIU_WAIT"})
<1>1. /\ icache_req = None \/ icache = None
      /\ pf_fast_pending \/ state = "PF_BIU_WAIT" <=> icache_req # None \/ icache # None
      /\ ~(pf_fast_pending /\ state \in {"PF_WALKING", "PF_BIU_WAIT"})
      /\ icache_req \in Line \cup {None} /\ icache \in Line \cup {None} /\ pf_page \in Pages
      /\ pf_fast_pending \in BOOLEAN
  BY DEF PortInv, TypeOK
<1>2. /\ i.iacc => icache = None /\ (icache_req # None \/ fast_pf_candidate(i))
      /\ i.icomp => icache # None
  BY DEF Allowed
<1>3. fast_pf_candidate(i) => state = "IDLE" /\ ~pf_fast_pending
  BY DEF fast_pf_candidate, idle_pf_req, s_idle
<1>4. FetchWalkEnds => state = "PF_WALKING" /\ walk_done
  BY DEF FetchWalkEnds
<1>5. icache' = IF i.iacc THEN FetchOffered(i) ELSE IF i.icomp THEN None ELSE icache
  BY <1>2 DEF PrefetchPort
<1>6. pf_fast_pending' = IF pf_fast_pending /\ i.icomp THEN FALSE
                         ELSE IF fast_pf_candidate(i) /\ i.iacc THEN TRUE ELSE pf_fast_pending
  BY <1>3, Zenon DEF PrefetchPort
<1>7. i.iacc => FetchOffered(i) \in Line /\ FetchOffered(i) # None
  <2>1. CASE icache_req # None
    BY <1>1, <2>1 DEF FetchOffered
  <2>2. CASE icache_req = None
    <3>1. i.iacc => fast_pf_frame(i) \in Frames
      BY <1>2, <2>2, FastFrame
    <3> QED  BY <1>1, <2>2, <3>1, LineType DEF FetchOffered
  <2> QED  BY <2>1, <2>2
<1>8. CASE FetchWalkEnds /\ ~pf_redirect_queued /\ ~walk_fault
  <2>1. state' = "PF_BIU_WAIT" /\ state = "PF_WALKING" /\ w_state = "DONE"
    BY <1>4, <1>8, FetchArms DEF walk_done, walk_fault
  <2>2. icache_req = None /\ icache = None /\ ~pf_fast_pending
    BY <1>1, <2>1
  <2>3. ~i.iacc /\ ~i.icomp
    BY <1>2, <1>3, <2>1, <2>2
  <2>4. icache_req' = LineRequest(saved.page, result.frame, saved.user)
    BY <1>8 DEF PrefetchPort
  <2>5. saved.page \in Pages /\ result.frame \in Frames
    BY <2>1, ResultIs DEF AskInv, WalkRequest, Translation
  <2>6. icache_req' \in Line /\ icache_req' # None
    BY <1>1, <2>4, <2>5, LineType
  <2>7. icache' = None /\ ~pf_fast_pending'
    BY <1>5, <1>6, <2>2, <2>3
  <2> QED  BY <2>1, <2>6, <2>7
<1>9. CASE ~(FetchWalkEnds /\ ~pf_redirect_queued /\ ~walk_fault)
  <2>1. icache_req' = IF i.iacc THEN None ELSE icache_req
    BY <1>9 DEF PrefetchPort
  <2>2. state' = "PF_BIU_WAIT" <=> state = "PF_BIU_WAIT" /\ ~i.icomp
    BY <1>9, FetchArms
  <2>3. icache_req' \in Line \cup {None} /\ icache' \in Line \cup {None} /\ (icache_req' = None \/ icache' = None)
    BY <1>1, <1>2, <1>5, <1>7, <2>1
  <2>4. pf_fast_pending' \/ state' = "PF_BIU_WAIT" <=> icache_req' # None \/ icache' # None
    <3>1. CASE i.iacc
      BY <1>1, <1>2, <1>3, <1>5, <1>6, <1>7, <2>1, <2>2, <3>1
    <3>2. CASE i.icomp
      BY <1>1, <1>2, <1>5, <1>6, <2>1, <2>2, <3>2
    <3>3. CASE ~i.iacc /\ ~i.icomp
      BY <1>1, <1>5, <1>6, <2>1, <2>2, <3>3
    <3> QED  BY <3>1, <3>2, <3>3
  <2>5. ~(pf_fast_pending' /\ state' \in {"PF_WALKING", "PF_BIU_WAIT"})
    <3>1. state' = "PF_WALKING" => IdleFetchWalk(i) \/ state = "PF_WALKING"
      BY FetchArms
    <3>2. IdleFetchWalk(i) => idle_pf_req /\ ~fast_pf_candidate(i) /\ ~pf_fast_pending
      BY FetchArms DEF idle_pf_req
    <3> QED  BY <1>1, <1>3, <1>6, <2>2, <3>1, <3>2
  <2> QED  BY <2>3, <2>4, <2>5
<1> QED  BY <1>8, <1>9

-----------------------------------------------------------------------------
\* Types.

Meta == [walk : BOOLEAN, write : BOOLEAN, suppress : BOOLEAN, half : {1, 2}]

LEMMA RecordTypes ==
    /\ \A walk, write, suppress \in BOOLEAN : \A half \in {1, 2} : OprMeta(walk, write, suppress, half) \in Meta
    /\ \A m \in Meta : \A write \in BOOLEAN : [m EXCEPT !.write = write] \in Meta
    /\ \A write \in BOOLEAN : \A half \in {1, 2} :
          IoAccess(write, half) \in Access /\ IoAccess(write, half) # None
    /\ \A page \in Pages : \A code \in FaultCode : [page |-> page, code |-> code] \in Fault
<1>1. \A walk, write, suppress \in BOOLEAN : \A half \in {1, 2} : OprMeta(walk, write, suppress, half) \in Meta
  BY Zenon DEF OprMeta, Meta
<1>2. \A m \in Meta : \A write \in BOOLEAN : [m EXCEPT !.write = write] \in Meta
  BY DEF Meta
<1>3. \A write \in BOOLEAN : \A half \in {1, 2} : IoAccess(write, half) \in Access
  BY Zenon DEF IoAccess, Access
<1>4. \A page \in Pages : \A code \in FaultCode : [page |-> page, code |-> code] \in Fault
  BY Zenon DEF Fault
<1> QED  BY <1>1, <1>2, <1>3, <1>4, NoneAssumption, Zenon

\* The registers the FSM writes.
FsmTypes ==
    /\ state \in FsmState /\ mem_servicing \in BOOLEAN /\ fast_path_pending \in BOOLEAN
    /\ walk_request \in BOOLEAN /\ walk_biu_pending \in BOOLEAN
    /\ req \in Demand /\ meta \in Meta
    /\ page_fault \in Fault \cup {None} /\ dcache_req \in Access \cup {None}

LEMMA IdleTypes ==
    ASSUME TypeOK, NEW i, Allowed(i), Idle(i)
    PROVE  FsmTypes'
<1> USE DEF FsmState
<1>1. /\ state = "IDLE" /\ walk_biu_pending \in BOOLEAN /\ walk_biu_pending' = walk_biu_pending
      /\ req \in Demand /\ meta \in Meta /\ dcache_req \in Access \cup {None}
      /\ mem_servicing \in BOOLEAN /\ fast_path_pending \in BOOLEAN
  BY DEF TypeOK, Meta, Idle, IdleStay, IdleFetchWalk, IdleGated, IdleIo, IdlePretranslated, IdleEarlyWrite,
         IdleLookup, CaptureMem
<1>2. Hold(i) => dcache_req' \in Access \cup {None}
  BY <1>1 DEF Hold
<1>3. i.demand # None => i.demand \in Demand /\ (i.demand.op = "write") \in BOOLEAN
                         /\ (i.demand.kind = "inta") \in BOOLEAN
  BY DEF Allowed
<1>4. /\ i.demand # None => MemMeta(i) \in Meta /\ [meta EXCEPT !.write = i.demand.op = "write"] \in Meta
  BY <1>1, <1>3, RecordTypes, Zenon DEF MemMeta
<1>5. CASE IdleStay(i)
  <2>1. /\ Hold(i) /\ state' = state /\ req' = req /\ meta' = meta /\ walk_request' = FALSE /\ page_fault' = None
        /\ fast_path_pending' = (fast_path_pending /\ ~completes(i))
        /\ mem_servicing' = (mem_servicing /\ ~(fast_path_pending /\ completes(i)))
    BY <1>5 DEF IdleStay, InFlight, Silent
  <2> QED  BY <1>1, <1>2, <2>1 DEF FsmTypes
<1>6. CASE IdleFetchWalk(i)
  <2>1. /\ Hold(i) /\ state' = "PF_WALKING" /\ UNCHANGED <<mem_servicing, fast_path_pending>>
        /\ walk_request' = TRUE /\ page_fault' = None /\ meta' = meta
        /\ req' = [kind |-> "mem", op |-> "read", page |-> req.page, second |-> req.second, user |-> i.user]
    BY <1>6 DEF IdleFetchWalk, Goto, StartWalk
  <2>2. req' \in Demand
    <3>1. req.page \in Pages /\ req.second \in Pages \cup {None} /\ i.user \in BOOLEAN
      BY <1>1 DEF Demand, Allowed
    <3> QED  BY <2>1, <3>1, Zenon DEF Demand
  <2> QED  BY <1>1, <1>2, <2>1, <2>2 DEF FsmTypes
<1>7. CASE IdleGated(i)
  <2>1. /\ Hold(i) /\ state' = "IDLE" /\ UNCHANGED <<mem_servicing, fast_path_pending>>
        /\ walk_request' = FALSE /\ page_fault' = None /\ i.demand # None
        /\ req' = i.demand /\ meta' = [meta EXCEPT !.write = i.demand.op = "write"]
    BY <1>7 DEF IdleGated, Goto, Silent, idle_mem_precheck
  <2> QED  BY <1>1, <1>2, <1>3, <1>4, <2>1 DEF FsmTypes
<1>8. CASE IdleIo(i)
  <2>1. /\ i.demand # None /\ mem_servicing' = TRUE /\ Offer(IoAccess(i.demand.op = "write", 1))
        /\ meta' = OprMeta(FALSE, i.demand.op = "write", i.demand.kind = "inta", 1)
        /\ walk_request' = FALSE /\ page_fault' = None
        /\ \/ state' = "IDLE" /\ fast_path_pending' = TRUE /\ req' = req
           \/ state' = "CROSS_WAIT1" /\ fast_path_pending' = fast_path_pending /\ req' = i.demand
    BY <1>8 DEF IdleIo, Silent, idle_mem_req, idle_mem_precheck
  <2>2. dcache_req' \in Access
    BY <1>3, <2>1, RecordTypes, Zenon DEF Offer
  <2>3. meta' \in Meta
    BY <1>3, <2>1, RecordTypes, Zenon
  <2> QED  BY <1>1, <1>3, <2>1, <2>2, <2>3 DEF FsmTypes
<1>9. CASE IdlePretranslated(i) \/ IdleEarlyWrite(i) \/ IdleLookup(i)
  <2>1. /\ Hold(i) /\ i.demand # None /\ req' = i.demand /\ walk_request' = FALSE /\ page_fault' = None
        /\ meta' \in {MemMeta(i), [meta EXCEPT !.write = i.demand.op = "write"]}
    BY <1>9 DEF IdlePretranslated, IdleEarlyWrite, IdleLookup, CaptureMem, Silent, idle_mem_req, idle_mem_precheck
  <2>2. /\ state' \in {"IDLE", "MEM_TLB"} /\ mem_servicing' \in {TRUE, mem_servicing}
        /\ fast_path_pending' \in {TRUE, fast_path_pending}
    BY <1>9 DEF IdlePretranslated, IdleEarlyWrite, IdleLookup, Goto
  <2> QED  BY <1>1, <1>2, <1>3, <1>4, <2>1, <2>2 DEF FsmTypes
<1> QED  BY <1>5, <1>6, <1>7, <1>8, <1>9 DEF Idle

\* Both fault codes are codes, and a fault raised is seen.
LEMMA FaultCodes ==
    ASSUME req \in Demand, AskInv
    PROVE  /\ perm_fault_code \in FaultCode
           /\ walk_done => walk_fault_code \in FaultCode
<1>1. IsWrite(req) \in BOOLEAN /\ req.user \in BOOLEAN
  BY DEF IsWrite, Demand
<1>2. perm_fault_code \in FaultCode
  BY <1>1, Zenon DEF perm_fault_code, FaultCode
<1>3. walk_done => saved.write \in BOOLEAN /\ saved.user \in BOOLEAN
  BY DEF walk_done, AskInv, WalkRequest
<1>4. (pde.p /\ pte.p) \in BOOLEAN
  BY Zenon
<1>5. walk_done => walk_fault_code \in FaultCode
  BY <1>3, <1>4, Zenon DEF walk_fault_code, FaultCode
<1> QED  BY <1>2, <1>5

LEMMA FaultRaised ==
    ASSUME NEW page \in Pages, NEW code \in FaultCode, raise_fault(page, code)
    PROVE  /\ page_fault' # None /\ page_fault' \in Fault
           /\ state' = "IDLE" /\ mem_servicing' = FALSE /\ fast_path_pending' = fast_path_pending
<1>1. page_fault' = [page |-> page, code |-> code]
  BY DEF raise_fault
<1>2. page_fault' \in Fault
  BY <1>1, RecordTypes, Zenon
<1> QED  BY <1>2, NoneAssumption DEF raise_fault, complete_mem_request

LEMMA ArmTypes ==
    ASSUME TypeOK, AskInv, LatchInv, WalkInv, FsmInv, NEW i, Fsm(i)
    PROVE  state # "IDLE" => FsmTypes'
<1> USE DEF FsmState
<1>1. /\ walk_biu_pending \in BOOLEAN /\ meta.write \in BOOLEAN
      /\ req \in Demand /\ meta \in Meta /\ dcache_req \in Access \cup {None}
      /\ mem_servicing \in BOOLEAN /\ fast_path_pending \in BOOLEAN /\ state \in FsmState
      /\ req.user \in BOOLEAN
  BY DEF TypeOK, Meta, Demand
<1>2. Hold(i) => dcache_req' \in Access \cup {None}
  BY <1>1 DEF Hold
<1>3. \A half \in {1, 2} : OprMeta(FALSE, meta.write, FALSE, half) \in Meta
  BY <1>1, RecordTypes, Zenon
<1>4. OprMeta(TRUE, FALSE, FALSE, 1) \in Meta
  BY RecordTypes, Zenon
<1>5. ASSUME NEW page \in Pages, NEW code \in FaultCode, raise_fault(page, code), meta' = meta, req' = req, Hold(i),
             walk_biu_pending' \in BOOLEAN
      PROVE  FsmTypes'
  <2>1. /\ state' = "IDLE" /\ mem_servicing' = FALSE /\ fast_path_pending' = fast_path_pending
        /\ page_fault' \in Fault
    BY <1>5, FaultRaised
  <2>2. walk_request' = FALSE
    BY <1>5 DEF raise_fault
  <2> QED  BY <1>1, <1>2, <1>5, <2>1, <2>2 DEF FsmTypes
<1>6. perm_fault_code \in FaultCode
  BY <1>1, FaultCodes
<1>7. CASE MemTlb(i)
  <2>1. req' = req /\ walk_biu_pending' = walk_biu_pending /\ Hold(i) /\ req.page \in Pages
    BY <1>1, <1>7 DEF MemTlb, LookupFault, LookupChecked, LookupAccess, LookupWait, LookupMiss, Demand
  <2>2. CASE LookupFault(i)
    BY <1>1, <1>5, <1>6, <2>1, <2>2 DEF LookupFault
  <2>3. CASE LookupChecked(i)
    <3>1. /\ state' \in {"CROSS_TLB2", "IDLE"} /\ mem_servicing' \in {FALSE, mem_servicing}
          /\ fast_path_pending' = fast_path_pending /\ walk_request' = FALSE /\ page_fault' = None /\ meta' = meta
      BY <2>3 DEF LookupChecked, Goto, complete_mem_request, Silent
    <3> QED  BY <1>1, <1>2, <2>1, <3>1 DEF FsmTypes
  <2>4. CASE LookupAccess(i)
    <3>1. /\ state' \in {"CROSS_PREP2", "CROSS_WAIT1", "IDLE"} /\ walk_request' = FALSE /\ page_fault' = None
          /\ meta' = OprMeta(FALSE, meta.write, FALSE, 1)
          /\ mem_servicing' \in BOOLEAN /\ fast_path_pending' \in BOOLEAN
      BY <1>1, <2>4 DEF LookupAccess, Goto, Silent
    <3> QED  BY <1>1, <1>2, <1>3, <2>1, <3>1 DEF FsmTypes
  <2>5. CASE LookupWait(i) \/ LookupMiss(i)
    <3>1. /\ state' \in {"MEM_TLB", "WALKING"} /\ UNCHANGED <<mem_servicing, fast_path_pending, meta>>
          /\ walk_request' \in BOOLEAN /\ page_fault' = None
      BY <2>5 DEF LookupWait, LookupMiss, Goto, Silent, StartWalk
    <3> QED  BY <1>1, <1>2, <2>1, <3>1 DEF FsmTypes
  <2> QED  BY <1>7, <2>2, <2>3, <2>4, <2>5 DEF MemTlb
<1>8. CASE CrossWait1(i) \/ CrossPrep2(i) \/ CrossWait2(i) \/ PfBiuWait(i)
  <2>1. /\ Hold(i) /\ req' = req /\ meta' = meta /\ walk_biu_pending' = walk_biu_pending
        /\ walk_request' = FALSE /\ page_fault' = None /\ fast_path_pending' = fast_path_pending
    BY <1>8 DEF CrossWait1, CrossPrep2, CrossWait2, PfBiuWait, Silent, Goto, complete_mem_request, control
  <2>2. state' \in FsmState /\ mem_servicing' \in {FALSE, mem_servicing}
    BY <1>1, <1>8 DEF CrossWait1, CrossPrep2, CrossWait2, PfBiuWait, Goto, complete_mem_request, control
  <2> QED  BY <1>1, <1>2, <2>1, <2>2 DEF FsmTypes
<1>9. CASE CrossTlb2(i)
  <2>1. req' = req /\ walk_biu_pending' = walk_biu_pending /\ state = "CROSS_TLB2"
    BY <1>9 DEF CrossTlb2
  <2>2. req.second \in Pages
    BY <1>1, <2>1 DEF FsmInv, Seconds, Crosses, Demand
  <2>3. ASSUME NEW r \in Access, EmitSecondHalf(r)
        PROVE  FsmTypes'
    <3>1. /\ dcache_req' = r /\ meta' = OprMeta(FALSE, meta.write, FALSE, 2)
          /\ state' = "CROSS_WAIT2" /\ UNCHANGED <<mem_servicing, fast_path_pending>>
          /\ walk_request' = FALSE /\ page_fault' = None
      BY <2>3 DEF EmitSecondHalf, Offer, Goto, Silent
    <3> QED  BY <1>1, <1>3, <2>1, <2>3, <3>1 DEF FsmTypes
  <2>4. CASE req.kind # "mem" /\ EmitSecondHalf(IoAccess(req.op = "write", 2))
    BY <2>3, <2>4, RecordTypes, Zenon
  <2>5. CASE /\ req.kind = "mem" /\ req_can_translate /\ req.op # "check"
             /\ EmitSecondHalf(MemAccess(req.op = "write", req.second, TlbFrame(req.second), req.user))
    <3>1. TlbFrame(req.second) \in Frames
      BY <2>2, <2>5, PagingAssumption DEF TypeOK, TlbFrame, req_can_translate, tlb_hit, Translation
    <3>2. MemAccess(req.op = "write", req.second, TlbFrame(req.second), req.user) \in Access
      BY <2>2, <3>1, MemAccessType, Zenon
    <3> QED  BY <2>3, <2>5, <3>2, Zenon
  <2>6. CASE raise_fault(req.second, perm_fault_code) /\ Hold(i) /\ meta' = meta
    BY <1>1, <1>5, <1>6, <2>1, <2>2, <2>6
  <2>7. CASE /\ Hold(i) /\ meta' = meta /\ page_fault' = None
             /\ state' \in FsmState /\ mem_servicing' \in {FALSE, mem_servicing}
             /\ fast_path_pending' = fast_path_pending /\ walk_request' \in BOOLEAN
    BY <1>1, <1>2, <2>1, <2>7 DEF FsmTypes
  <2>8. \/ req.kind # "mem" /\ EmitSecondHalf(IoAccess(req.op = "write", 2))
        \/ /\ req.kind = "mem" /\ req_can_translate /\ req.op # "check"
           /\ EmitSecondHalf(MemAccess(req.op = "write", req.second, TlbFrame(req.second), req.user))
        \/ raise_fault(req.second, perm_fault_code) /\ Hold(i) /\ meta' = meta
        \/ complete_mem_request /\ Hold(i) /\ Silent /\ meta' = meta
        \/ Goto("CROSS_WALK2") /\ StartWalk /\ Hold(i) /\ meta' = meta
    BY <1>9, Zenon DEF CrossTlb2
  <2>9. CASE \/ complete_mem_request /\ Hold(i) /\ Silent /\ meta' = meta
             \/ Goto("CROSS_WALK2") /\ StartWalk /\ Hold(i) /\ meta' = meta
    BY <2>7, <2>9 DEF complete_mem_request, Silent, Goto, StartWalk
  <2> QED  BY <2>4, <2>5, <2>6, <2>8, <2>9
<1>10. CASE Walking(i) \/ CrossWalk2(i) \/ PfWalking(i)
  <2>1. req' = req /\ state \in Walks
    BY <1>10 DEF Walking, CrossWalk2, PfWalking, Walks
  <2>2. req.page \in Pages /\ (state = "CROSS_WALK2" => req.second \in Pages)
    BY <1>1 DEF FsmInv, Seconds, Crosses, Demand
  <2>3. CASE WalkerPort(i) /\ Silent /\ UNCHANGED control
    <3>1. /\ dcache_req' \in Access \cup {None} /\ meta' \in Meta /\ walk_biu_pending' \in BOOLEAN
      <4>1. CASE walker_issue_ready
        <5>1. WalkAccess \in Access
          BY <4>1, WalkAccessType DEF walker_issue_ready
        <5> QED  BY <1>4, <2>3, <4>1, <5>1 DEF WalkerPort, Offer
      <4>2. CASE ~walker_issue_ready
        BY <1>1, <1>2, <2>3, <4>2 DEF WalkerPort, WalkDone
      <4> QED  BY <4>1, <4>2
    <3>2. UNCHANGED <<state, mem_servicing, fast_path_pending>> /\ walk_request' = FALSE /\ page_fault' = None
      BY <2>3 DEF control, Silent
    <3> QED  BY <1>1, <2>1, <3>1, <3>2 DEF FsmTypes
  <2>4. ASSUME NEW page \in Pages, WalkFaults(i, page)
        PROVE  FsmTypes'
    <3>1. walk_fault_code \in FaultCode
      BY <1>1, <2>4, FaultCodes DEF WalkFaults
    <3>2. raise_fault(page, walk_fault_code) /\ Hold(i) /\ meta' = meta /\ walk_biu_pending' \in BOOLEAN
      BY <2>4 DEF WalkFaults, WalkDone
    <3> QED  BY <1>5, <2>1, <3>1, <3>2
  <2>5. ASSUME NEW page \in Pages, NEW half \in {1, 2}, WalkEmits(page, half), walk_done, ~walk_fault
        PROVE  dcache_req' \in Access /\ meta' \in Meta
    <3>1. result.frame \in Frames
      BY <2>5, ResultIs DEF walk_done, walk_fault, Translation
    <3>2. MemAccess(req.op = "write", page, result.frame, req.user) \in Access
      BY <3>1, MemAccessType, Zenon
    <3> QED  BY <1>3, <2>5, <3>2 DEF WalkEmits, Offer
  <2>6. CASE Walking(i) /\ ~WalkRuns(i) /\ ~WalkFaults(i, req.page)
    <3>1. /\ walk_done /\ ~walk_fault /\ walk_biu_pending' = (walk_biu_pending /\ ~completes(i))
          /\ walk_request' = FALSE /\ page_fault' = None
          /\ \/ Hold(i) /\ meta' = meta
             \/ WalkEmits(req.page, 1)
      BY <2>6 DEF Walking, WalkDone, Silent
    <3>2. /\ state' \in FsmState /\ mem_servicing' \in {FALSE, mem_servicing}
          /\ fast_path_pending' \in {TRUE, fast_path_pending}
      BY <2>6 DEF Walking, Goto, complete_mem_request
    <3>3. dcache_req' \in Access \cup {None} /\ meta' \in Meta
      BY <1>1, <1>2, <2>2, <2>5, <3>1
    <3> QED  BY <1>1, <2>1, <3>1, <3>2, <3>3 DEF FsmTypes
  <2>7. CASE CrossWalk2(i) /\ ~WalkRuns(i) /\ ~WalkFaults(i, req.second)
    <3>1. /\ walk_done /\ ~walk_fault /\ walk_biu_pending' = (walk_biu_pending /\ ~completes(i))
          /\ walk_request' = FALSE /\ page_fault' = None /\ state = "CROSS_WALK2"
          /\ \/ Hold(i) /\ meta' = meta
             \/ WalkEmits(req.second, 2)
      BY <2>7 DEF CrossWalk2, WalkDone, Silent
    <3>2. /\ state' \in FsmState /\ mem_servicing' \in {FALSE, mem_servicing}
          /\ fast_path_pending' = fast_path_pending
      BY <2>7 DEF CrossWalk2, Goto, complete_mem_request
    <3>3. dcache_req' \in Access \cup {None} /\ meta' \in Meta
      BY <1>1, <1>2, <2>2, <2>5, <3>1
    <3> QED  BY <1>1, <2>1, <3>1, <3>2, <3>3 DEF FsmTypes
  <2>8. CASE PfWalking(i)
    <3>1. CASE ~walk_done
      BY <2>3, <2>8, <3>1 DEF PfWalking
    <3>2. CASE walk_done
      <4>1. /\ Hold(i) /\ meta' = meta /\ walk_biu_pending' = (walk_biu_pending /\ ~completes(i))
            /\ walk_request' = FALSE /\ page_fault' = None /\ UNCHANGED <<mem_servicing, fast_path_pending>>
            /\ state' \in {"IDLE", "PF_BIU_WAIT"}
        BY <2>8, <3>2 DEF PfWalking, WalkDone, Silent, Goto
      <4> QED  BY <1>1, <1>2, <2>1, <4>1 DEF FsmTypes
    <3> QED  BY <3>1, <3>2
  <2>9. CASE (Walking(i) \/ CrossWalk2(i)) /\ WalkRuns(i)
    BY <2>3, <2>9 DEF WalkRuns
  <2>10. CASE Walking(i) /\ WalkFaults(i, req.page)
    BY <2>2, <2>4, <2>10
  <2>11. CASE CrossWalk2(i) /\ WalkFaults(i, req.second)
    BY <2>2, <2>4, <2>11 DEF CrossWalk2
  <2> QED  BY <1>10, <2>6, <2>7, <2>8, <2>9, <2>10, <2>11
<1>11. CASE Idle(i)
  BY <1>11, FsmIs
<1> QED  BY <1>7, <1>8, <1>9, <1>10, <1>11 DEF Fsm

\* The registers beside the FSM.
TypeInv ==
    /\ TypeOK
    /\ workload \in Workloads
    /\ \A p \in Pages : since[p] \subseteq Translation \cup {None}

LEMMA LookupType ==
    ASSUME TypeOK, FsmInv, NEW i, Allowed(i), LookupAddress(i)
    PROVE  lookup' \in Pages
<1>1. second_lookup_load => req.second \in Pages
  <2>1. second_lookup_load => Crosses(req)
    BY DEF second_lookup_load, FsmInv, Seconds
  <2> QED  BY <2>1 DEF TypeOK, Demand, Crosses
<1>2. idle_mem_precheck_capture(i) => i.demand.page \in Pages
  BY DEF idle_mem_precheck_capture, idle_mem_precheck, Allowed, Demand
<1> QED  BY <1>1, <1>2 DEF LookupAddress, TypeOK

LEMMA TlbTypes ==
    ASSUME TypeOK, AskInv, LatchInv, NEW i, Allowed(i), TlbNext(i), XlatNext(i)
    PROVE  /\ \A p \in Pages : tlb'[p] \in Translation \cup {None}
           /\ xlat' \in [page : Pages, frame : Frames, u : BOOLEAN] \cup {None}
<1>1. tlb_update_valid => result \in Translation
  BY ResultIs DEF tlb_update_valid, walk_done, walk_fault
<1>2. \A p \in Pages : tlb'[p] \in Translation \cup {None}
  <2>1. CASE i.cr3 # None
    BY <2>1 DEF TlbNext
  <2>2. CASE i.cr3 = None /\ invlpg_fire(i)
    BY <2>2 DEF TlbNext, TypeOK
  <2>3. CASE i.cr3 = None /\ ~invlpg_fire(i) /\ tlb_update_valid
    BY <1>1, <2>3 DEF TlbNext, TypeOK
  <2>4. CASE i.cr3 = None /\ ~invlpg_fire(i) /\ ~tlb_update_valid
    BY <2>4 DEF TlbNext, TypeOK
  <2> QED  BY <2>1, <2>2, <2>3, <2>4
<1>3. xlat' \in [page : Pages, frame : Frames, u : BOOLEAN] \cup {None}
  <2>1. tlb_hit => tlb[lookup].frame \in Frames /\ tlb[lookup].u \in BOOLEAN
    BY DEF TypeOK, tlb_hit, Translation
  <2>2. tlb_hit => [page |-> pf_page, frame |-> tlb[lookup].frame, u |-> tlb[lookup].u]
                       \in [page : Pages, frame : Frames, u : BOOLEAN]
    BY <2>1, Zenon DEF TypeOK
  <2> DEFINE r == [page |-> pf_page, frame |-> tlb[lookup].frame, u |-> tlb[lookup].u]
  <2>3. xlat' = None \/ xlat' = xlat \/ (tlb_hit /\ xlat' = r)
    BY DEF XlatNext
  <2> HIDE DEF r
  <2> QED  BY <2>2, <2>3, Zenon DEF TypeOK, r
<1> QED  BY <1>2, <1>3

\* What reaches the D-cache is an access, and a store leaves it at once.
LEMMA PortTypes ==
    ASSUME TypeInv, PortInv, FsmInv, NEW i, Allowed(i), DcacheNext(i)
    PROVE  /\ accepted(i) => Offered(i) \in Access
           /\ dcache' \in Access \cup {None}
           /\ dcache' # None => ~dcache'.write
<1>1. TypeOK
  BY DEF TypeInv
<1>2. pretrans_present(i) => Offered(i) \in Access
  <2> SUFFICES ASSUME pretrans_present(i)  PROVE Offered(i) \in Access
    OBVIOUS
  <2>1. i.demand \in Demand /\ i.pretrans \in Translated(i.demand)
    BY DEF pretrans_present, Allowed
  <2>2. i.demand.page \in Pages
    BY <2>1 DEF Demand
  <2>3. i.pretrans \in Frames
    <3>1. \A e \in since[i.demand.page] \ {None} : e.frame \in Frames
      BY <2>2 DEF TypeInv, Translation
    <3>2. i.demand.page \in Frames
      BY <2>2, PagingAssumption
    <3> QED  BY <2>1, <3>1, <3>2 DEF Translated
  <2> QED  BY <2>2, <2>3, OfferedIs, MemAccessType, Zenon
<1>3. early_wr_present(i) => Offered(i) \in Access
  <2> SUFFICES ASSUME early_wr_present(i)  PROVE Offered(i) \in Access
    OBVIOUS
  <2>1. i.demand.page \in Pages /\ i.demand.page \in Frames
    BY PagingAssumption DEF early_wr_present, idle_mem_req, idle_mem_precheck, Allowed, Demand
  <2> QED  BY <2>1, OfferedIs, MemAccessType, Zenon
<1>4. req_mem_dcache_candidate => Offered(i) \in Access
  <2> SUFFICES ASSUME req_mem_dcache_candidate  PROVE Offered(i) \in Access
    OBVIOUS
  <2>1. req.page \in Pages
    BY <1>1 DEF TypeOK, Demand
  <2>2. TlbFrame(req.page) \in Frames
    BY <1>1, <2>1, PagingAssumption DEF TypeOK, TlbFrame, req_mem_dcache_candidate, req_can_translate, tlb_hit, Translation
  <2>3. MemAccess(req.op = "write", req.page, TlbFrame(req.page), req.user) \in Access
    BY <2>1, <2>2, MemAccessType, Zenon
  <2>4. Offered(i) = MemAccess(req.op = "write", req.page, TlbFrame(req.page), req.user)
    BY OfferedIs
  <2> QED  BY <2>3, <2>4
<1>5. accepted(i) => Offered(i) \in Access
  <2>1. CASE ~pretrans_present(i) /\ ~early_wr_present(i) /\ ~req_mem_dcache_candidate
    BY <1>1, <2>1, OfferedIs DEF Allowed, accepted, TypeOK
  <2> QED  BY <1>2, <1>3, <1>4, <2>1
<1>6. dcache' \in Access \cup {None}
  BY <1>1, <1>5 DEF DcacheNext, TypeOK
<1>7. dcache' # None => ~dcache'.write
  BY DEF DcacheNext, completes, PortInv
<1> QED  BY <1>5, <1>6, <1>7

\* Only the walker writes the tables through the D-cache port, and only entries.
LEMMA TableTypes ==
    ASSUME TypeOK, WalkInv, FsmInv, PortInv, AskInv, LatchInv, NEW i, Allowed(i), Memory(i)
    PROVE  pdes' \in [Roots -> Pde] /\ ptes' \in [Tables -> [Pages -> Pte]]
<1>1. pdes \in [Roots -> Pde] /\ ptes \in [Tables -> [Pages -> Pte]]
  BY DEF TypeOK
<1>2. CASE w_state = "IDLE"
  <2>1. accepted(i) => Offered(i).kind # "walk"
    <3>1. Demanded # None => Demanded.kind # "walk"
      BY <1>2 DEF PortInv, WalkInv, Waits
    <3>2. Presents(i) => Offered(i).kind # "walk"
      BY PresentedIs DEF Presents
    <3>3. ~Presents(i) => Offered(i) = dcache_req
      BY OfferedIs DEF Presents
    <3> QED  BY <3>1, <3>2, <3>3 DEF Allowed, accepted, Demanded
  <2>2. ~WalkerWrites(i, "pde") /\ ~WalkerWrites(i, "pte")
    BY <2>1 DEF WalkerWrites
  <2>3. i.edit # None => i.edit.table \in Tables /\ i.edit.page \in Pages /\ i.edit.entry \in Pte
    BY PagingAssumption DEF Allowed
  <2> HIDE DEF Pde, Pte
  <2>4. pdes' = pdes
    BY <2>2 DEF Memory
  <2>5. ptes' = IF i.edit # None THEN [ptes EXCEPT ![i.edit.table][i.edit.page] = i.edit.entry] ELSE ptes
    BY <2>2 DEF Memory
  <2> QED  BY <1>1, <2>3, <2>4, <2>5
<1>3. CASE w_state # "IDLE"
  <2>1. /\ ~(accepted(i) /\ mem_wr) => pdes' = pdes /\ ptes' = ptes
        /\ accepted(i) => w_state \in Waits
        /\ accepted(i) /\ mem_wr =>
             /\ AtPde => pdes' = [pdes EXCEPT ![saved.cr3] = MarkedPde(pde)] /\ ptes' = ptes
             /\ ~AtPde => /\ pdes' = pdes
                          /\ ptes' = [ptes EXCEPT ![pde.base][saved.page] = MarkedPte(pte, saved.write)]
    BY <1>3, TablesStep
  <2>2. saved.cr3 \in Roots /\ saved.page \in Pages /\ saved.write \in BOOLEAN
    BY <1>3 DEF AskInv, WalkRequest
  <2>3. accepted(i) /\ mem_wr /\ AtPde => MarkedPde(pde) \in Pde
    <3>1. accepted(i) /\ mem_wr /\ AtPde => pde \in Pde
      BY DEF mem_wr, AtPde, LatchInv, PdeRead
    <3> QED  BY <3>1, Marks
  <2>4. accepted(i) /\ mem_wr /\ ~AtPde => MarkedPte(pte, saved.write) \in Pte /\ pde.base \in Tables
    <3>1. accepted(i) /\ mem_wr /\ ~AtPde => pte \in Pte /\ pde \in Pde
      BY DEF mem_wr, AtPde, LatchInv, PteRead, PdeMarked
    <3>2. pde \in Pde => pde.base \in Tables
      BY DEF Pde
    <3> QED  BY <2>2, <3>1, <3>2, Marks
  <2> HIDE DEF Pde, Pte
  <2> QED  BY <1>1, <2>1, <2>2, <2>3, <2>4
<1> QED  BY <1>2, <1>3

LEMMA WalkerTypes ==
    ASSUME TypeOK, WalkInv, FsmInv, PortInv, AskInv, LatchInv, NEW i, Allowed(i), Memory(i), WalkerStep(i)
    PROVE  WalkerTypeOK'
<1> DEFINE ready == walker_feed_ready(i)
           asked == [page |-> lookup, write |-> IsWrite(req), user |-> req.user, cr3 |-> cr3, wp |-> wp_enable]
<1>1. PICK request, data :
        /\ Walk(request, ready, data)
        /\ request = IF walk_request THEN asked ELSE None
        /\ data = IF ready /\ read_complete(i) THEN rdata(i) ELSE None
  BY DEF WalkerStep
<1>2. asked \in WalkRequest
  <2>1. IsWrite(req) \in BOOLEAN
    BY DEF IsWrite
  <2>2. req.user \in BOOLEAN /\ lookup \in Pages /\ cr3 \in Roots /\ wp_enable \in BOOLEAN
    BY DEF TypeOK, Demand
  <2> QED  BY <2>1, <2>2, Zenon DEF WalkRequest
<1>3. /\ w_state \in {"WAIT_PDE", "WAIT_PTE"} /\ ready => read_complete(i)
      /\ w_state = "WAIT_PDE" /\ ready => rdata(i) = pdes[saved.cr3]
      /\ w_state = "WAIT_PTE" /\ ready => rdata(i) = ptes[pde.base][saved.page]
  BY FeedIs
<1>4. WalkerTypeOK
  BY DEF TypeOK
<1>5. w_state = "WAIT_PDE" /\ ready => data \in Pde
  <2>1. w_state = "WAIT_PDE" => saved.cr3 \in Roots
    BY DEF AskInv, WalkRequest
  <2> QED  BY <1>1, <1>3, <2>1 DEF TypeOK
<1>6. w_state = "WAIT_PTE" /\ ready => data \in Pte
  <2>1. w_state = "WAIT_PTE" => saved.page \in Pages /\ pde \in Pde
    BY DEF AskInv, WalkRequest, LatchInv, PdeRead
  <2>2. w_state = "WAIT_PTE" => pde.base \in Tables
    BY <2>1 DEF Pde
  <2> QED  BY <1>1, <1>3, <2>1, <2>2 DEF TypeOK
<1>7. request \in WalkRequest \cup {None}
  BY <1>1, <1>2
<1> HIDE DEF ready, asked, Pde, Pte, WalkRequest
<1> USE DEF WalkerTypeOK, WalkerState
<1>8. CASE WalkIdle(request)
  BY <1>4, <1>7, <1>8 DEF WalkIdle, WalkStay, walker
<1>9. CASE WalkIssue \/ WalkWait(ready) \/ WalkCheck \/ WalkWritten(ready) \/ WalkEnd
  BY <1>4, <1>9 DEF WalkIssue, WalkWait, WalkCheck, WalkWritten, WalkEnd, WalkTo, WalkStay, walker
<1>10. CASE WalkPde(ready, data)
  BY <1>4, <1>5, <1>10 DEF WalkPde
<1>11. CASE WalkPte(ready, data)
  BY <1>4, <1>6, <1>11 DEF WalkPte
<1> QED  BY <1>1, <1>8, <1>9, <1>10, <1>11 DEF Walk

LEMMA FetchTypes ==
    ASSUME TypeOK, AskInv, NEW i, Allowed(i), PrefetchPort(i), PfFault(i), Prefetcher(i)
    PROVE  /\ pf_fast_pending' \in BOOLEAN /\ pf_ack_toggle_r' \in BOOLEAN /\ pf_req_toggle' \in BOOLEAN
           /\ pf_ack_prev' \in BOOLEAN /\ pf_redirect_queued' \in BOOLEAN /\ pf_spec' \in BOOLEAN
           /\ pf_drop' \in BOOLEAN
           /\ pf_page' \in Pages /\ pf_fault' \in Fault \cup {None}
<1>1. /\ pf_fast_pending \in BOOLEAN /\ pf_req_toggle \in BOOLEAN /\ pf_redirect_queued \in BOOLEAN
      /\ pf_spec \in BOOLEAN /\ pf_drop \in BOOLEAN /\ pf_page \in Pages
  BY DEF TypeOK
<1>2. pf_fast_pending' \in {TRUE, FALSE, pf_fast_pending}
  BY DEF PrefetchPort
<1>3. pf_ack_toggle_r' \in BOOLEAN
  BY DEF PrefetchPort
<1>4. pf_ack_prev' \in BOOLEAN /\ pf_ack_toggle(i) \in BOOLEAN
  BY DEF Prefetcher, pf_ack_toggle
<1>5. /\ pf_req_toggle' \in BOOLEAN /\ pf_redirect_queued' \in BOOLEAN /\ pf_spec' \in BOOLEAN
      /\ pf_drop' \in BOOLEAN /\ pf_page' \in Pages
  <2>1. CASE Flush(i)
    BY <1>1, <1>4, <2>1 DEF Flush, Allowed
  <2>2. CASE FetchOn(i)
    BY <1>1, <2>2 DEF FetchOn, Allowed
  <2> QED  BY <2>1, <2>2 DEF Prefetcher
<1>6. pf_fault' \in Fault \cup {None}
  <2>1. [p |-> TRUE, w |-> FALSE, u |-> i.user] \in FaultCode
    BY Zenon DEF Allowed, FaultCode
  <2>2. FetchWalkEnds => walk_fault_code \in FaultCode
    BY FaultCodes DEF FetchWalkEnds, TypeOK
  <2> DEFINE a == [page |-> pf_page, code |-> [p |-> TRUE, w |-> FALSE, u |-> i.user]]
             b == [page |-> pf_page, code |-> walk_fault_code]
  <2>3. a \in Fault /\ (FetchWalkEnds => b \in Fault)
    BY <1>1, <2>1, <2>2, RecordTypes, Zenon
  <2>4. pf_fault' = None \/ pf_fault' = a \/ (FetchWalkEnds /\ pf_fault' = b)
    <3>1. ~(fetch_perm_fault(i) /\ FetchWalkEnds)
      BY DEF fetch_perm_fault, FetchWalkEnds, idle_pf_req, s_idle
    <3> QED  BY <3>1, Zenon DEF PfFault
  <2> HIDE DEF a, b
  <2> QED  BY <2>3, <2>4
<1> QED  BY <1>1, <1>2, <1>3, <1>4, <1>5, <1>6

LEMMA CombinedType == \A d \in Pde, e \in Pte :
    /\ Combined(d, e) \in Translation
    /\ Combined(d, e).frame = e.frame /\ Combined(d, e).d = e.d
    /\ Combined(d, e).w = (d.w /\ e.w) /\ Combined(d, e).u = (d.u /\ e.u)
<1> SUFFICES ASSUME NEW d \in Pde, NEW e \in Pte
             PROVE  /\ Combined(d, e) \in Translation
                    /\ Combined(d, e).frame = e.frame /\ Combined(d, e).d = e.d
                    /\ Combined(d, e).w = (d.w /\ e.w) /\ Combined(d, e).u = (d.u /\ e.u)
  OBVIOUS
<1>1. e.frame \in Frames /\ (d.w /\ e.w) \in BOOLEAN /\ (d.u /\ e.u) \in BOOLEAN /\ e.d \in BOOLEAN
  BY DEF Pde, Pte
<1>2. Combined(d, e) \in Translation
  BY <1>1, Zenon DEF Combined, Translation
<1>3. /\ Combined(d, e).frame = e.frame /\ Combined(d, e).d = e.d
      /\ Combined(d, e).w = (d.w /\ e.w) /\ Combined(d, e).u = (d.u /\ e.u)
  BY Zenon DEF Combined
<1> QED  BY <1>2, <1>3

LEMMA SinceTypes ==
    ASSUME TypeInv, NEW i, History(i), cr3' \in Roots, pdes' \in [Roots -> Pde], ptes' \in [Tables -> [Pages -> Pte]]
    PROVE  \A p \in Pages : since'[p] \subseteq Translation \cup {None}
<1> SUFFICES ASSUME NEW p \in Pages  PROVE since'[p] \subseteq Translation \cup {None}
  OBVIOUS
<1>1. since'[p] \subseteq since[p] \cup {TableEntry(cr3, p)'}
  BY DEF History
<1>2. TableEntry(cr3, p)' \in Translation \cup {None}
  <2>1. pdes'[cr3'] \in Pde
    OBVIOUS
  <2>2. pdes'[cr3'].base \in Tables
    BY <2>1 DEF Pde
  <2>3. ptes'[pdes'[cr3'].base][p] \in Pte
    BY <2>2
  <2>4. Combined(pdes'[cr3'], ptes'[pdes'[cr3'].base][p]) \in Translation
    BY <2>1, <2>3, CombinedType
  <2> QED  BY <2>4 DEF TableEntry
<1> QED  BY <1>1, <1>2 DEF TypeInv

-----------------------------------------------------------------------------
\* The inductive invariant of the unit's structure.

Struct == TypeInv /\ WalkInv /\ FsmInv /\ PortInv /\ AskInv /\ LatchInv

LEMMA StructInit == Init => Struct
<1> SUFFICES ASSUME Init  PROVE Struct
  OBVIOUS
<1>1. state = "IDLE" /\ w_state = "IDLE" /\ saved = None /\ pde = None /\ pte = None
      /\ mem_servicing = FALSE /\ fast_path_pending = FALSE /\ pf_fast_pending = FALSE
      /\ walk_request = FALSE /\ walk_biu_pending = FALSE /\ dcache_req = None /\ icache_req = None
      /\ dcache = None /\ icache = None /\ workload \in Workloads
  BY DEF Init, WalkerInit
<1>2. WalkInv /\ AskInv
  BY <1>1 DEF WalkInv, Walks, AskInv
<1>3. LatchInv
  BY <1>1 DEF LatchInv, PdeRead, PdeMarked, PteRead, Granted
<1>4. FsmInv
  BY <1>1 DEF FsmInv, Demands, Seconds, Walks
<1>5. PortInv
  BY <1>1 DEF PortInv, Demanded, Crossings
<1>6. /\ cr3 \in Roots /\ pg_enable \in BOOLEAN /\ wp_enable \in BOOLEAN /\ lookup \in Pages
      /\ pdes \in [Roots -> Pde] /\ ptes \in [Tables -> [Pages -> Pte]]
  <2>1. workload.modes \subseteq Mode /\ workload.pdes \subseteq Pde /\ PteImages \subseteq [Pages -> Pte]
    BY <1>1, PagingAssumption
  <2>2. \E mode \in Mode : pg_enable = mode.pg /\ wp_enable = mode.wp
    BY <2>1 DEF Init
  <2>3. pg_enable \in BOOLEAN /\ wp_enable \in BOOLEAN
    BY <2>2 DEF Mode
  <2>4. pdes \in [Roots -> workload.pdes] /\ ptes \in [Tables -> PteImages]
    BY DEF Init
  <2>5. pdes \in [Roots -> Pde]
    BY <2>1, <2>4
  <2>6. ptes \in [Tables -> [Pages -> Pte]]
    BY <2>1, <2>4
  <2> QED  BY <2>3, <2>5, <2>6 DEF Init
<1>7. req \in Demand
  <2>1. req = [kind |-> "mem", op |-> "read", page |-> lookup, second |-> None, user |-> FALSE]
    BY DEF Init
  <2> QED  BY <1>6, <2>1, Zenon DEF Demand
<1>8. meta \in Meta
  <2>1. meta = OprMeta(FALSE, FALSE, FALSE, 1)
    BY DEF Init
  <2> QED  BY <2>1, RecordTypes, Zenon
<1>9. TypeOK
  <2>1. /\ tlb = [p \in Pages |-> None] /\ xlat = None /\ page_fault = None /\ pf_fault = None
        /\ pf_ack_toggle_r = FALSE /\ pf_req_toggle = FALSE /\ pf_ack_prev = FALSE /\ pf_page = lookup
        /\ pf_redirect_queued = FALSE /\ pf_spec = FALSE /\ pf_drop = FALSE
    BY DEF Init
  <2> HIDE DEF Pde, Pte, Demand
  <2> QED  BY <1>1, <1>6, <1>7, <1>8, <2>1 DEF TypeOK, FsmState, Meta, WalkerTypeOK, WalkerState
<1>10. \A p \in Pages : since[p] \subseteq Translation \cup {None}
  <2> SUFFICES ASSUME NEW p \in Pages  PROVE since[p] \subseteq Translation \cup {None}
    OBVIOUS
  <2>1. since[p] = {TableEntry(cr3, p)}
    BY DEF Init
  <2>2. pdes[cr3] \in Pde
    BY <1>6
  <2>3. pdes[cr3].base \in Tables
    BY <2>2 DEF Pde
  <2>4. ptes[pdes[cr3].base][p] \in Pte
    BY <1>6, <2>3
  <2>5. Combined(pdes[cr3], ptes[pdes[cr3].base][p]) \in Translation
    BY <2>2, <2>4, CombinedType
  <2> QED  BY <2>1, <2>5 DEF TableEntry
<1> QED  BY <1>1, <1>2, <1>3, <1>4, <1>5, <1>9, <1>10 DEF Struct, TypeInv

\* The walker's access in flight stays the one it asks for.
LEMMA AskedKept ==
    ASSUME Struct, NEW i, Allowed(i), Clock(i), walk_biu_pending'
    PROVE  Demanded' = WalkAccess'
<1>1. /\ TypeOK /\ WalkInv /\ FsmInv /\ PortInv /\ AskInv /\ LatchInv
      /\ Fsm(i) /\ WalkerStep(i) /\ LookupAddress(i) /\ DcacheNext(i) /\ UNCHANGED <<pg_enable, wp_enable>>
  BY DEF Struct, TypeInv, Clock
<1>2. state \in Walks
  BY <1>1, QuietStep DEF WalkInv
<1>3. Walking(i) \/ CrossWalk2(i) \/ PfWalking(i)
  BY <1>1, <1>2, FsmIs DEF Walks
<1>4. \/ walker_issue_ready /\ Demanded' = WalkAccess
      \/ walk_biu_pending /\ Demanded' = Demanded /\ ~completes(i)
  BY <1>1, <1>3, WalkingKeeps
<1>5. PICK request, data : Walk(request, walker_feed_ready(i), data)
  BY <1>1 DEF WalkerStep
<1>6. Demanded' = WalkAccess
  BY <1>1, <1>4 DEF PortInv
<1>7. ~walker_feed_ready(i) /\ w_state \in Issues \cup Waits
  BY <1>1, <1>4 DEF walker_feed_ready, walker_issue_ready, mem_rd, mem_wr, WalkInv, Issues, Waits
<1> HIDE DEF Walk, walker_feed_ready
<1>8. WalkAccess' = WalkAccess
  BY <1>5, <1>7, AccessKept
<1> QED  BY <1>6, <1>8

LEMMA TypeStep ==
    ASSUME Struct, NEW i, Allowed(i), Clock(i)
    PROVE  TypeInv' /\ (dcache' # None => ~dcache'.write)
<1>1. /\ TypeOK /\ TypeInv /\ WalkInv /\ FsmInv /\ PortInv /\ AskInv /\ LatchInv
      /\ Fsm(i) /\ WalkerStep(i) /\ LookupAddress(i) /\ TlbNext(i) /\ XlatNext(i)
      /\ PrefetchPort(i) /\ PfFault(i) /\ Prefetcher(i)
      /\ DcacheNext(i) /\ Memory(i) /\ History(i)
      /\ UNCHANGED <<workload, pg_enable, wp_enable>>
      /\ cr3' = IF i.cr3 # None THEN i.cr3 ELSE cr3
  BY DEF Struct, TypeInv, Clock
<1>2. FsmTypes'
  <2>1. CASE state = "IDLE"
    <3>1. Idle(i)
      BY <1>1, <2>1, FsmIs
    <3> QED  BY <1>1, <3>1, IdleTypes
  <2>2. CASE state # "IDLE"
    BY <1>1, <2>2, ArmTypes
  <2> QED  BY <2>1, <2>2
<1>3. lookup' \in Pages
  BY <1>1, LookupType
<1>4. /\ \A p \in Pages : tlb'[p] \in Translation \cup {None}
      /\ xlat' \in [page : Pages, frame : Frames, u : BOOLEAN] \cup {None}
  BY <1>1, TlbTypes
<1>5. /\ dcache' \in Access \cup {None}
      /\ dcache' # None => ~dcache'.write
  BY <1>1, PortTypes
<1>6. pdes' \in [Roots -> Pde] /\ ptes' \in [Tables -> [Pages -> Pte]]
  BY <1>1, TableTypes
<1>7. WalkerTypeOK'
  BY <1>1, WalkerTypes
<1>8. /\ pf_fast_pending' \in BOOLEAN /\ pf_ack_toggle_r' \in BOOLEAN /\ pf_req_toggle' \in BOOLEAN
      /\ pf_ack_prev' \in BOOLEAN /\ pf_redirect_queued' \in BOOLEAN /\ pf_spec' \in BOOLEAN
      /\ pf_drop' \in BOOLEAN
      /\ pf_page' \in Pages /\ pf_fault' \in Fault \cup {None}
  BY <1>1, FetchTypes
<1>9. icache_req' \in Line \cup {None} /\ icache' \in Line \cup {None}
  BY <1>1, LineStep
<1>10. cr3' \in Roots /\ pg_enable' \in BOOLEAN /\ wp_enable' \in BOOLEAN
  BY <1>1 DEF Allowed, TypeOK
<1>11. TypeOK'
  <2> HIDE DEF Pde, Pte, Demand, Access, Line, Fault, Translation
  <2> QED  BY <1>2, <1>3, <1>4, <1>5, <1>6, <1>7, <1>8, <1>9, <1>10 DEF FsmTypes, TypeOK, Meta
<1>12. \A p \in Pages : since'[p] \subseteq Translation \cup {None}
  BY <1>1, <1>6, <1>10, SinceTypes
<1> QED  BY <1>1, <1>5, <1>11, <1>12 DEF TypeInv

LEMMA StructStep ==
    ASSUME Struct, NEW i, Allowed(i), Clock(i)
    PROVE  Struct'
<1>1. /\ TypeOK /\ TypeInv /\ WalkInv /\ FsmInv /\ PortInv /\ AskInv /\ LatchInv
      /\ Fsm(i) /\ WalkerStep(i) /\ LookupAddress(i) /\ TlbNext(i) /\ PrefetchPort(i)
      /\ DcacheNext(i) /\ Memory(i) /\ UNCHANGED <<pg_enable, wp_enable>>
  BY DEF Struct, TypeInv, Clock
<1>2. WalkInv'
  BY <1>1, WalkInvStep
<1>3. AskInv'
  BY <1>1, AskStep
<1>4. LatchInv'
  BY <1>1, LatchStep
<1>5. TypeInv' /\ (dcache' # None => ~dcache'.write)
  BY TypeStep
<1>6. FsmInv' /\ Awaited'
  <2>1. CASE Idle(i)
    BY <1>1, <2>1, IdleKeeps
  <2>2. CASE MemTlb(i)
    BY <1>1, <2>2, MemTlbKeeps
  <2>3. CASE CrossWait1(i) \/ CrossPrep2(i) \/ CrossTlb2(i) \/ CrossWait2(i)
    BY <1>1, <2>3, SecondKeeps
  <2>4. CASE Walking(i) \/ CrossWalk2(i) \/ PfWalking(i)
    BY <1>1, <2>4, WalkingKeeps
  <2>5. CASE PfBiuWait(i)
    <3> USE DEF Demands, Seconds, Crossings, Walks
    <3>1. /\ state = "PF_BIU_WAIT" /\ Hold(i) /\ state' \in {"IDLE", "PF_BIU_WAIT"}
          /\ UNCHANGED <<mem_servicing, fast_path_pending>> /\ walk_biu_pending' = walk_biu_pending
      BY <2>5 DEF PfBiuWait, Goto
    <3>2. Demanded = None /\ ~walk_biu_pending /\ ~mem_servicing /\ ~fast_path_pending
      BY <1>1, <3>1 DEF WalkInv, FsmInv, PortInv
    <3>3. ~Presents(i)
      BY <3>1, PresentsWhen DEF demand_idle, s_idle
    <3>4. Demanded' = None /\ (dcache_req' = None \/ dcache' = None)
      BY <1>1, <3>1, <3>2, <3>3, HeldMoves DEF PortInv
    <3>5. FsmInv'
      BY <3>1, <3>2 DEF FsmInv
    <3>6. Awaited'
      BY <3>1, <3>2, <3>4 DEF Awaited
    <3> QED  BY <3>5, <3>6
  <2> QED  BY <1>1, <2>1, <2>2, <2>3, <2>4, <2>5 DEF Fsm
<1>7. /\ icache_req' = None \/ icache' = None
      /\ pf_fast_pending' \/ state' = "PF_BIU_WAIT" <=> icache_req' # None \/ icache' # None
      /\ ~(pf_fast_pending' /\ state' \in {"PF_WALKING", "PF_BIU_WAIT"})
  BY <1>1, LineStep
<1>8. walk_biu_pending' => Demanded' = WalkAccess'
  BY AskedKept
<1>9. PortInv'
  BY <1>5, <1>6, <1>7, <1>8 DEF PortInv, Awaited
<1> QED  BY <1>2, <1>3, <1>4, <1>5, <1>6, <1>9 DEF Struct

LEMMA StructStutters == Struct /\ UNCHANGED vars => Struct'
<1> SUFFICES ASSUME Struct, UNCHANGED vars  PROVE Struct'
  OBVIOUS
<1> USE DEF vars, mmu, control, walker, fetch
<1>1. TypeInv'
  BY DEF Struct, TypeInv, TypeOK, WalkerTypeOK
<1>2. WalkInv'
  BY DEF Struct, WalkInv
<1>3. FsmInv'
  <2>1. req_can_translate' = req_can_translate
    BY DEF req_can_translate, tlb_hit, req_perm_ok, Permitted, IsWrite
  <2> QED  BY <2>1 DEF Struct, FsmInv, Crosses
<1>4. PortInv'
  BY DEF Struct, PortInv, Demanded, WalkAccess, mem_wr, mem_addr, mem_wdata, AtPde
<1>5. AskInv'
  BY DEF Struct, AskInv, IsWrite
<1>6. LatchInv'
  BY DEF Struct, LatchInv, GrantedNow
<1> QED  BY <1>1, <1>2, <1>3, <1>4, <1>5, <1>6 DEF Struct

LEMMA StructAlways == Spec => []Struct
<1>1. Struct /\ [Next]_vars => Struct'
  <2>1. ASSUME Struct, Next  PROVE Struct'
    <3>1. PICK i : Clock(i) /\ Allowed(i)
      BY <2>1, Inputs DEF Struct, TypeInv
    <3> QED  BY <2>1, <3>1, StructStep
  <2> QED  BY <2>1, StructStutters
<1> QED  BY <1>1, StructInit, PTL DEF Spec

\* Nothing waits for an answer that is not coming, and no answer comes to nobody: every
\* request at the caches has the one owner that stalls for it, and every register its type.
THEOREM AnswersAreAwaited == Spec => []AnswersAwaited
<1>1. Struct => AnswersAwaited
  <2> SUFFICES ASSUME Struct  PROVE AnswersAwaited
    OBVIOUS
  <2>1. TypeOK /\ PortInv
    BY DEF Struct, TypeInv
  <2>2. walk_biu_pending \in BOOLEAN
    BY <2>1 DEF TypeOK
  <2>3. walk_biu_pending = (Demanded # None /\ Demanded.kind = "walk")
    BY <2>1, <2>2 DEF PortInv
  <2>4. (fast_path_pending \/ state \in {"CROSS_WAIT1", "CROSS_WAIT2"}) = (Demanded # None /\ Demanded.kind # "walk")
    BY <2>1 DEF PortInv, Crossings
  <2>5. (pf_fast_pending \/ state = "PF_BIU_WAIT") = (icache_req # None \/ icache # None)
    BY <2>1 DEF PortInv
  <2> QED  BY <2>1, <2>3, <2>4, <2>5 DEF AnswersAwaited, PortInv
<1> QED  BY <1>1, StructAlways, PTL

\* The write-backs of paging_walker.sv change nothing but the accessed and dirty bits of the
\* entries the walk read, and only for an access those entries permit.
THEOREM WriteBacksMark == Spec => WriteBacksOnlyMark
<1>1. ASSUME Struct, Next, w_state # "IDLE"
      PROVE  /\ \A root \in Roots : pdes'[root] # pdes[root] =>
                   pdes'[root] = [pdes[root] EXCEPT !.a = TRUE]
             /\ \A table \in Tables, page \in Pages : ptes'[table][page] # ptes[table][page] =>
                   /\ page = saved.page /\ ptes[table][page].p
                   /\ ptes'[table][page] = [ptes[table][page] EXCEPT !.a = TRUE, !.d = @ \/ saved.write]
             /\ <<pdes', ptes'>> # <<pdes, ptes>> =>
                   Permitted(Combined(pde, pte), saved.write, saved.user, saved.wp)
  <2>1. PICK i : Clock(i) /\ Allowed(i)
    BY <1>1, Inputs DEF Struct, TypeInv
  <2>2. /\ TypeOK /\ WalkInv /\ FsmInv /\ PortInv /\ AskInv /\ LatchInv /\ Memory(i)
        /\ pdes \in [Roots -> Pde] /\ ptes \in [Tables -> [Pages -> Pte]]
    BY <1>1, <2>1 DEF Struct, TypeInv, Clock, TypeOK
  <2>3. /\ ~(accepted(i) /\ mem_wr) => pdes' = pdes /\ ptes' = ptes
        /\ accepted(i) => w_state \in Waits
        /\ accepted(i) /\ mem_wr =>
             /\ AtPde => pdes' = [pdes EXCEPT ![saved.cr3] = MarkedPde(pde)] /\ ptes' = ptes
             /\ ~AtPde => /\ pdes' = pdes
                          /\ ptes' = [ptes EXCEPT ![pde.base][saved.page] = MarkedPte(pte, saved.write)]
    BY <1>1, <2>1, <2>2, TablesStep
  <2>4. saved.cr3 \in Roots /\ saved.page \in Pages
    BY <1>1, <2>2 DEF AskInv, WalkRequest
  <2>5. CASE ~(accepted(i) /\ mem_wr)
    BY <2>3, <2>5
  <2>6. CASE accepted(i) /\ mem_wr /\ AtPde
    <3>1. w_state = "WAIT_WR_PDE"
      BY <2>3, <2>6 DEF Waits, mem_wr, AtPde
    <3>2. pdes[saved.cr3] = pde /\ GrantedNow
      BY <2>2, <3>1 DEF LatchInv, PdeRead, Granted
    <3>3. pdes' = [pdes EXCEPT ![saved.cr3] = MarkedPde(pde)] /\ ptes' = ptes
      BY <2>3, <2>6
    <3>4. \A root \in Roots : pdes'[root] # pdes[root] => pdes'[root] = MarkedPde(pdes[root])
      BY <2>2, <2>4, <3>2, <3>3
    <3> QED  BY <3>2, <3>3, <3>4 DEF MarkedPde, GrantedNow
  <2>7. CASE accepted(i) /\ mem_wr /\ ~AtPde
    <3>1. w_state = "WAIT_WR_PTE"
      BY <2>3, <2>7 DEF Waits, mem_wr, AtPde
    <3>2. ptes[pde.base][saved.page] = pte /\ pte.p /\ GrantedNow
      BY <2>2, <3>1 DEF LatchInv, PteRead, Granted
    <3>3. pdes' = pdes /\ ptes' = [ptes EXCEPT ![pde.base][saved.page] = MarkedPte(pte, saved.write)]
      BY <2>3, <2>7
    <3>4. \A table \in Tables, page \in Pages : ptes'[table][page] # ptes[table][page] =>
             /\ page = saved.page /\ ptes[table][page].p
             /\ ptes'[table][page] = MarkedPte(ptes[table][page], saved.write)
      BY <2>2, <2>4, <3>2, <3>3
    <3> QED  BY <3>2, <3>3, <3>4 DEF MarkedPte, GrantedNow
  <2> QED  BY <2>5, <2>6, <2>7
<1>2. Struct /\ [Next]_vars => [w_state # "IDLE" =>
         /\ \A root \in Roots : pdes'[root] # pdes[root] =>
               pdes'[root] = [pdes[root] EXCEPT !.a = TRUE]
         /\ \A table \in Tables, page \in Pages : ptes'[table][page] # ptes[table][page] =>
               /\ page = saved.page /\ ptes[table][page].p
               /\ ptes'[table][page] = [ptes[table][page] EXCEPT !.a = TRUE, !.d = @ \/ saved.write]
         /\ <<pdes', ptes'>> # <<pdes, ptes>> =>
               Permitted(Combined(pde, pte), saved.write, saved.user, saved.wp)]_vars
  BY <1>1, Zenon
<1> QED  BY <1>2, StructAlways, PTL DEF Spec, WriteBacksOnlyMark

-----------------------------------------------------------------------------
\* The translations held are the tables' own.

\* The address space a walk reads is the one in force when it ends, and what the tables
\* say now is always among what they have said since the last invalidation.
SinceInv ==
    /\ \A p \in Pages : TableEntry(cr3, p) \in since[p]
    /\ w_state # "IDLE" => saved.cr3 = cr3
    /\ TlbFresh

LEMMA SameTranslation == \A s, t \in Translation :
    s.frame = t.frame /\ (s.w <=> t.w) /\ (s.u <=> t.u) /\ (s.d <=> t.d) => s = t
BY DEF Translation

\* The walker keeps its request to the end of its walk.
LEMMA RequestKept ==
    ASSUME NEW request, NEW ready, NEW data, Walk(request, ready, data), w_state' # "IDLE"
    PROVE  /\ w_state = "IDLE" => request # None /\ saved' = request
           /\ w_state # "IDLE" => saved' = saved
<1>1. CASE WalkIdle(request)
  BY <1>1 DEF WalkIdle, WalkStay, walker
<1>2. CASE WalkIssue \/ WalkWait(ready) \/ WalkCheck \/ WalkWritten(ready) \/ WalkEnd
  BY <1>2 DEF WalkIssue, WalkWait, WalkCheck, WalkWritten, WalkEnd, WalkTo, WalkStay, walker, walk_done
<1>3. CASE WalkPde(ready, data) \/ WalkPte(ready, data)
  BY <1>3 DEF WalkPde, WalkPte
<1> QED  BY <1>1, <1>2, <1>3 DEF Walk

\* Without an invalidation a page forgets none of its translations.
LEMMA SinceGrows ==
    ASSUME NEW i, History(i), NEW p \in Pages
    PROVE  /\ TableEntry(cr3, p)' \in since'[p]
           /\ i.cr3 = None /\ i.invlpg # p => since[p] \subseteq since'[p]
<1>1. since' = [q \in Pages |->
                  (IF i.cr3 # None \/ i.invlpg = q THEN {} ELSE since[q]) \cup {TableEntry(cr3, q)'}]
  BY DEF History
<1>2. since'[p] = (IF i.cr3 # None \/ i.invlpg = p THEN {} ELSE since[p]) \cup {TableEntry(cr3, p)'}
  BY <1>1
<1> QED  BY <1>2

\* A finished walk returns what the tables say.
LEMMA ResultIsEntry ==
    ASSUME Struct, SinceInv, w_state = "DONE"
    PROVE  /\ result = TableEntry(cr3, lookup) /\ result # None
           /\ lookup \in Pages
<1>1. /\ saved.cr3 = cr3 /\ saved.page = lookup /\ saved.write \in BOOLEAN /\ cr3 \in Roots /\ lookup \in Pages
      /\ pde \in Pde /\ pde.p /\ pdes[cr3] = MarkedPde(pde)
      /\ pte \in Pte /\ pte.p /\ ptes[pde.base][lookup] = MarkedPte(pte, saved.write)
  BY DEF Struct, TypeInv, TypeOK, SinceInv, AskInv, LatchInv, PdeMarked, WalkRequest
<1> DEFINE d == MarkedPde(pde)
           e == MarkedPte(pte, saved.write)
<1>2. /\ d \in Pde /\ d.p /\ d.w = pde.w /\ d.u = pde.u /\ d.base = pde.base
      /\ e \in Pte /\ e.p /\ e.w = pte.w /\ e.u = pte.u /\ e.frame = pte.frame /\ e.d = (pte.d \/ saved.write)
  BY <1>1, Marks
<1> HIDE DEF d, e
<1>3. TableEntry(cr3, lookup) = Combined(d, e)
  BY <1>1, <1>2 DEF TableEntry, d, e
<1>4. /\ result \in Translation /\ result.frame = pte.frame
      /\ result.w = (pde.w /\ pte.w) /\ result.u = (pde.u /\ pte.u) /\ result.d = (pte.d \/ saved.write)
  BY ResultIs DEF Struct, TypeInv
<1>5. /\ Combined(d, e) \in Translation /\ Combined(d, e).frame = e.frame /\ Combined(d, e).d = e.d
      /\ Combined(d, e).w = (d.w /\ e.w) /\ Combined(d, e).u = (d.u /\ e.u)
  BY <1>2, CombinedType
<1>6. result = Combined(d, e)
  BY <1>2, <1>4, <1>5, SameTranslation
<1> QED  BY <1>1, <1>3, <1>4, <1>6, NoneAssumption

LEMMA SinceStep ==
    ASSUME Cr3Writes = "no walk", Struct, SinceInv, NEW i, Allowed(i), Clock(i)
    PROVE  SinceInv'
<1>1. /\ TypeOK /\ WalkInv /\ TlbNext(i) /\ XlatNext(i) /\ History(i) /\ WalkerStep(i)
      /\ cr3' = IF i.cr3 # None THEN i.cr3 ELSE cr3
  BY DEF Struct, TypeInv, Clock
<1>2. \A p \in Pages : TableEntry(cr3, p)' \in since'[p]
  BY <1>1, SinceGrows
<1>3. \A p \in Pages : i.cr3 = None /\ i.invlpg # p => since[p] \subseteq since'[p]
  BY <1>1, SinceGrows
<1>4. ASSUME w_state' # "IDLE"
      PROVE  saved'.cr3 = cr3'
  <2> DEFINE asked == [page |-> lookup, write |-> IsWrite(req), user |-> req.user, cr3 |-> cr3, wp |-> wp_enable]
  <2>1. PICK request, data :
          /\ Walk(request, walker_feed_ready(i), data)
          /\ request = IF walk_request THEN asked ELSE None
    BY <1>1 DEF WalkerStep
  <2> HIDE DEF Walk
  <2>2. /\ w_state = "IDLE" => request # None /\ saved' = request
        /\ w_state # "IDLE" => saved' = saved
    BY <1>4, <2>1, RequestKept
  <2>3. state \in Walks
    BY <1>1, <2>1, <2>2 DEF WalkInv
  <2>4. cr3' = cr3
    BY <1>1, <2>3 DEF Allowed, Walks
  <2>5. CASE w_state = "IDLE"
    <3>1. asked.cr3 = cr3
      BY Zenon
    <3> HIDE DEF asked
    <3>2. saved'.cr3 = cr3
      BY <2>1, <2>2, <2>5, <3>1
    <3> QED  BY <2>4, <3>2
  <2>6. CASE w_state # "IDLE"
    BY <2>2, <2>4, <2>6 DEF SinceInv
  <2> QED  BY <2>5, <2>6
<1>5. ASSUME NEW p \in Pages, tlb'[p] # None
      PROVE  tlb'[p] \in since'[p]
  <2>1. tlb[p] # None => tlb[p] \in since[p]
    BY DEF SinceInv, TlbFresh
  <2>2. CASE i.cr3 # None
    BY <1>1, <1>5, <2>2 DEF TlbNext
  <2>3. CASE i.cr3 = None /\ invlpg_fire(i)
    <3>1. p \notin SetOf(i.invlpg) /\ tlb'[p] = tlb[p]
      BY <1>1, <1>5, <2>3 DEF TlbNext
    <3>2. i.invlpg # p
      BY <2>3, <3>1 DEF SetOf, invlpg_fire, Allowed
    <3> QED  BY <1>3, <1>5, <2>1, <2>3, <3>1, <3>2
  <2>4. CASE i.cr3 = None /\ ~invlpg_fire(i) /\ tlb_update_valid
    <3>1. (tlb'[p] = result /\ p = lookup) \/ tlb'[p] = tlb[p]
      BY <1>1, <1>5, <2>4 DEF TlbNext
    <3>2. result = TableEntry(cr3, lookup)
      BY <2>4, ResultIsEntry DEF tlb_update_valid, walk_done, walk_fault
    <3>3. since[p] \subseteq since'[p]
      BY <1>3, <2>4, PagingAssumption DEF invlpg_fire
    <3>4. TableEntry(cr3, p) \in since[p]
      BY DEF SinceInv
    <3> QED  BY <1>5, <2>1, <3>1, <3>2, <3>3, <3>4
  <2>5. CASE i.cr3 = None /\ ~invlpg_fire(i) /\ ~tlb_update_valid
    <3>1. tlb' = tlb
      BY <1>1, <2>5 DEF TlbNext
    <3>2. since[p] \subseteq since'[p]
      BY <1>3, <2>5, PagingAssumption DEF invlpg_fire
    <3> QED  BY <1>5, <2>1, <3>1, <3>2
  <2> QED  BY <2>2, <2>3, <2>4, <2>5
<1>6. ASSUME xlat' # None
      PROVE  \E t \in since'[xlat'.page] : t # None /\ t.frame = xlat'.frame /\ t.u = xlat'.u
  <2>1. i.cr3 = None /\ ~invlpg_fire(i)
    BY <1>1, <1>6 DEF XlatNext
  <2>2. \A p \in Pages : since[p] \subseteq since'[p]
    BY <1>3, <2>1, PagingAssumption DEF invlpg_fire
  <2>3. CASE pg_enable /\ idle_pf_req /\ pf_tlb_match /\ tlb_hit
    <3>1. xlat' = [page |-> pf_page, frame |-> tlb[lookup].frame, u |-> tlb[lookup].u]
      BY <1>1, <2>1, <2>3, Zenon DEF XlatNext
    <3>2. xlat'.page = pf_page /\ xlat'.frame = tlb[lookup].frame /\ xlat'.u = tlb[lookup].u
      BY <3>1, Zenon
    <3>3. lookup = pf_page /\ lookup \in Pages /\ tlb[lookup] # None /\ tlb[lookup] \in since[lookup]
      BY <1>1, <2>3 DEF pf_tlb_match, tlb_hit, TypeOK, SinceInv, TlbFresh
    <3> QED  BY <2>2, <3>2, <3>3
  <2>4. CASE ~(pg_enable /\ idle_pf_req /\ pf_tlb_match /\ tlb_hit)
    <3>1. xlat' = xlat
      BY <1>1, <2>1, <2>4 DEF XlatNext
    <3>2. xlat.page \in Pages
      BY <1>1, <1>6, <3>1 DEF TypeOK
    <3> QED  BY <1>6, <2>2, <3>1, <3>2 DEF SinceInv, TlbFresh
  <2> QED  BY <2>3, <2>4
<1> QED  BY <1>2, <1>4, <1>5, <1>6 DEF SinceInv, TlbFresh

LEMMA SinceAlways == ASSUME Cr3Writes = "no walk" PROVE Spec => []SinceInv
<1>1. Init => SinceInv
  <2> SUFFICES ASSUME Init  PROVE SinceInv
    OBVIOUS
  <2>1. /\ w_state = "IDLE" /\ xlat = None /\ tlb = [p \in Pages |-> None]
        /\ since = [p \in Pages |-> {TableEntry(cr3, p)}]
    BY DEF Init, WalkerInit
  <2> QED  BY <2>1 DEF SinceInv, TlbFresh
<1>2. Struct /\ SinceInv /\ [Next]_vars => SinceInv'
  <2>1. ASSUME Struct, SinceInv, Next  PROVE SinceInv'
    <3>1. PICK i : Clock(i) /\ Allowed(i)
      BY <2>1, Inputs DEF Struct, TypeInv
    <3> QED  BY <2>1, <3>1, SinceStep
  <2>2. SinceInv /\ UNCHANGED vars => SinceInv'
    BY DEF SinceInv, TlbFresh, TableEntry, vars, mmu, walker
  <2> QED  BY <2>1, <2>2
<1> QED  BY <1>1, <1>2, StructAlways, PTL DEF Spec

\* The TLB and the prefetcher's copy hold only translations that the tables have held since
\* software last invalidated their page, so long as CR3 is not loaded under the walk of a
\* fetch; when it is, they do not (run PagingCr3Walk).
THEOREM TlbIsFresh == ASSUME Cr3Writes = "no walk" PROVE Spec => []TlbFresh
<1>1. SinceInv => TlbFresh
  BY DEF SinceInv
<1> QED  BY <1>1, SinceAlways, PTL

-----------------------------------------------------------------------------
\* Accesses are permitted.

AccessInv ==
    /\ dcache_req # None /\ dcache_req.kind = "mem" => dcache_req.current
    /\ served.accesses \in Seq(Access)
    /\ AccessesPermitted

\* A lookup that can translate found a translation the tables held for its page.
LEMMA LookupCurrent ==
    ASSUME Struct, SinceInv, req_can_translate, req.op # "check"
    PROVE  Current(lookup, TlbFrame(lookup), req.op = "write", req.user)
<1>1. lookup \in Pages
  BY DEF Struct, TypeInv, TypeOK
<1>2. CASE pg_enable
  <2> DEFINE t == tlb[lookup]
  <2>1. t # None /\ t \in since[lookup] /\ TlbFrame(lookup) = t.frame
    BY <1>1, <1>2 DEF SinceInv, TlbFresh, req_can_translate, tlb_hit, TlbFrame
  <2>2. IsWrite(req) <=> req.op = "write"
    BY DEF IsWrite
  <2>3. Permitted(t, req.op = "write", req.user, wp_enable) /\ (req.op = "write" => t.d)
    BY <1>2, <2>2 DEF req_can_translate, req_perm_ok, Permitted
  <2> QED  BY <1>2, <2>1, <2>3, Zenon DEF Current
<1>3. CASE ~pg_enable
  BY <1>3, Zenon DEF Current, TlbFrame
<1> QED  BY <1>2, <1>3

\* So does a walk that ends without a fault.
LEMMA WalkCurrent ==
    ASSUME Struct, SinceInv, w_state = "DONE", req.op # "check"
    PROVE  Current(lookup, result.frame, req.op = "write", req.user)
<1>1. result # None /\ result \in since[lookup]
  BY ResultIsEntry DEF SinceInv
<1>2. pg_enable
  BY DEF Struct, WalkInv, FsmInv
<1>3. /\ result.w = (pde.w /\ pte.w) /\ result.u = (pde.u /\ pte.u) /\ result.d = (pte.d \/ saved.write)
  BY ResultIs DEF Struct, TypeInv
<1>4. /\ pde \in Pde /\ pte \in Pte /\ GrantedNow
      /\ saved.user = req.user /\ saved.wp = wp_enable /\ (saved.write <=> req.op = "write")
  BY DEF Struct, AskInv, LatchInv, PdeMarked, Granted, IsWrite
<1>5. /\ Combined(pde, pte).w = (pde.w /\ pte.w) /\ Combined(pde, pte).u = (pde.u /\ pte.u)
  BY <1>4, CombinedType
<1>6. Permitted(result, req.op = "write", req.user, wp_enable)
  BY <1>3, <1>4, <1>5 DEF GrantedNow, Permitted
<1>7. req.op = "write" => result.d
  BY <1>3, <1>4
<1> QED  BY <1>1, <1>2, <1>6, <1>7, Zenon DEF Current

\* What goes past the register is permitted too.
LEMMA PresentedCurrent ==
    ASSUME Struct, SinceInv, NEW i, Allowed(i), Presents(i)
    PROVE  Offered(i).current
<1>1. CASE pretrans_present(i)
  <2>1. i.pretrans \in Translated(i.demand) /\ i.demand.kind = "mem" /\ i.demand.op = "read" /\ ~Crosses(i.demand)
    BY <1>1 DEF pretrans_present, Allowed
  <2>2. CASE pg_enable
    <3>1. PICK t \in since[i.demand.page] \ {None} : i.pretrans = t.frame /\ (i.demand.user => t.u)
      BY <2>1, <2>2 DEF Translated
    <3>2. Permitted(t, FALSE, i.demand.user, wp_enable)
      BY <3>1 DEF Permitted
    <3>3. Current(i.demand.page, i.pretrans, FALSE, i.demand.user)
      BY <2>2, <3>1, <3>2, Zenon DEF Current
    <3> QED  BY <1>1, <3>3, PresentedIs
  <2>3. CASE ~pg_enable
    <3>1. i.pretrans = i.demand.page
      BY <2>1, <2>3 DEF Translated
    <3>2. Current(i.demand.page, i.pretrans, FALSE, i.demand.user)
      BY <2>3, <3>1, Zenon DEF Current
    <3> QED  BY <1>1, <3>2, PresentedIs
  <2> QED  BY <2>2, <2>3
<1>2. CASE early_wr_present(i)
  <2>1. ~pg_enable
    BY <1>2 DEF early_wr_present
  <2>2. Current(i.demand.page, i.demand.page, TRUE, i.demand.user)
    BY <2>1, Zenon DEF Current
  <2> QED  BY <1>2, <2>2, PresentedIs
<1>3. CASE req_mem_dcache_candidate
  <2>1. req_can_translate /\ req.op # "check" /\ lookup = req.page
    BY <1>3 DEF req_mem_dcache_candidate, Struct, FsmInv
  <2>2. Current(req.page, TlbFrame(req.page), req.op = "write", req.user)
    BY <2>1, LookupCurrent
  <2> QED  BY <1>3, <2>2, PresentedIs
<1> QED  BY <1>1, <1>2, <1>3 DEF Presents

\* A request enters the register as I/O, as the walker's access, or translated.
LEMMA PutIs ==
    ASSUME Struct, NEW i, Fsm(i)
    PROVE  \/ dcache_req' \in {None, dcache_req}
           \/ \E write \in BOOLEAN, half \in {1, 2} : dcache_req' = IoAccess(write, half)
           \/ dcache_req' = WalkAccess
           \/ /\ req_can_translate /\ req.op # "check"
              /\ dcache_req' = MemAccess(req.op = "write", lookup, TlbFrame(lookup), req.user)
           \/ /\ w_state = "DONE" /\ req.op # "check"
              /\ dcache_req' = MemAccess(req.op = "write", lookup, result.frame, req.user)
<1>1. ASSUME Hold(i)  PROVE dcache_req' \in {None, dcache_req}
  BY <1>1 DEF Hold
<1>2. CASE Idle(i)
  <2>1. CASE IdleIo(i)
    <3>1. dcache_req' = IoAccess(i.demand.op = "write", 1)
      BY <2>1 DEF IdleIo, Offer
    <3> QED  BY <3>1
  <2>2. CASE ~IdleIo(i)
    <3>1. Hold(i)
      BY <1>2, <2>2 DEF Idle, IdleStay, IdleFetchWalk, IdleGated, IdlePretranslated, IdleEarlyWrite, IdleLookup,
                        CaptureMem
    <3> QED  BY <1>1, <3>1
  <2> QED  BY <2>1, <2>2
<1>3. CASE MemTlb(i) \/ CrossWait1(i) \/ CrossPrep2(i) \/ CrossWait2(i) \/ PfBiuWait(i)
  <2>1. Hold(i)
    BY <1>3 DEF MemTlb, LookupFault, LookupChecked, LookupAccess, LookupWait, LookupMiss, CrossWait1, CrossPrep2,
                CrossWait2, PfBiuWait
  <2> QED  BY <1>1, <2>1
<1>4. CASE CrossTlb2(i)
  <2>1. \/ Hold(i)
        \/ dcache_req' = IoAccess(req.op = "write", 2)
        \/ /\ req.kind = "mem" /\ req_can_translate /\ req.op # "check"
           /\ dcache_req' = MemAccess(req.op = "write", req.second, TlbFrame(req.second), req.user)
    BY <1>4, Zenon DEF CrossTlb2, EmitSecondHalf, Offer
  <2>2. req.kind = "mem" /\ req.op # "check" => lookup = req.second
    BY <1>4 DEF CrossTlb2, Struct, FsmInv
  <2>3. ASSUME dcache_req' = IoAccess(req.op = "write", 2)
        PROVE  \E write \in BOOLEAN, half \in {1, 2} : dcache_req' = IoAccess(write, half)
    BY <2>3
  <2> QED  BY <1>1, <2>1, <2>2, <2>3
<1>5. CASE Walking(i) \/ CrossWalk2(i) \/ PfWalking(i)
  <2>1. \/ Hold(i)
        \/ dcache_req' = WalkAccess
        \/ /\ state = "WALKING" /\ walk_done /\ ~walk_fault /\ req.op # "check"
           /\ dcache_req' = MemAccess(req.op = "write", req.page, result.frame, req.user)
        \/ /\ state = "CROSS_WALK2" /\ walk_done /\ ~walk_fault /\ req.op # "check"
           /\ dcache_req' = MemAccess(req.op = "write", req.second, result.frame, req.user)
    BY <1>5, Zenon DEF Walking, CrossWalk2, PfWalking, WalkRuns, WalkFaults, WalkEmits, WalkerPort, Offer
  <2>2. walk_done /\ ~walk_fault => w_state = "DONE"
    BY DEF walk_done, walk_fault
  <2>3. /\ state = "WALKING" => lookup = req.page
        /\ state = "CROSS_WALK2" => lookup = req.second
    BY DEF Struct, FsmInv
  <2> QED  BY <1>1, <2>1, <2>2, <2>3
<1> QED  BY <1>2, <1>3, <1>4, <1>5 DEF Fsm

\* The history of the demand in service.
LEMMA ServedMoves ==
    ASSUME NEW i, History(i)
    PROVE  /\ served'.demand = IF idle_mem_req(i) THEN i.demand ELSE served.demand
           /\ \E before \in {<< >>, served.accesses} :
                 /\ before = IF demand_idle THEN << >> ELSE served.accesses
                 /\ served'.accesses = IF accepted(i) /\ Offered(i).kind # "walk"
                                       THEN Append(before, Offered(i)) ELSE before
<1> DEFINE b == IF demand_idle THEN << >> ELSE served.accesses
           r == IF idle_mem_req(i) THEN i.demand ELSE served.demand
           a == IF accepted(i) /\ Offered(i).kind # "walk" THEN Append(b, Offered(i)) ELSE b
<1>1. served' = [demand |-> r, accesses |-> a]
  BY Zenon DEF History
<1>2. served'.demand = r /\ served'.accesses = a
  BY <1>1, Zenon
<1>3. b \in {<< >>, served.accesses}
  OBVIOUS
<1> QED  BY <1>2, <1>3

LEMMA EmptySeq == \A S : << >> \in Seq(S) /\ DOMAIN << >> = {}
OBVIOUS

LEMMA AccessStep ==
    ASSUME Struct, SinceInv, AccessInv, NEW i, Allowed(i), Clock(i)
    PROVE  AccessInv'
<1>1. TypeInv /\ PortInv /\ FsmInv /\ Fsm(i) /\ DcacheNext(i) /\ History(i)
  BY DEF Struct, Clock
<1>2. ASSUME dcache_req' # None, dcache_req'.kind = "mem"
      PROVE  dcache_req'.current
  <2>1. \A write, half : IoAccess(write, half).kind # "mem"
    BY Zenon DEF IoAccess
  <2>2. WalkAccess.kind # "mem"
    BY Zenon DEF WalkAccess
  <2>3. CASE dcache_req' \in {None, dcache_req}
    BY <1>2, <2>3 DEF AccessInv
  <2>4. CASE /\ req_can_translate /\ req.op # "check"
             /\ dcache_req' = MemAccess(req.op = "write", lookup, TlbFrame(lookup), req.user)
    <3>1. MemAccess(req.op = "write", lookup, TlbFrame(lookup), req.user).current
             = Current(lookup, TlbFrame(lookup), req.op = "write", req.user)
      BY Zenon DEF MemAccess
    <3> QED  BY <2>4, <3>1, LookupCurrent
  <2>5. CASE /\ w_state = "DONE" /\ req.op # "check"
             /\ dcache_req' = MemAccess(req.op = "write", lookup, result.frame, req.user)
    <3>1. MemAccess(req.op = "write", lookup, result.frame, req.user).current
             = Current(lookup, result.frame, req.op = "write", req.user)
      BY Zenon DEF MemAccess
    <3> QED  BY <2>5, <3>1, WalkCurrent
  <2>6. \/ dcache_req' \in {None, dcache_req}
        \/ \E write \in BOOLEAN, half \in {1, 2} : dcache_req' = IoAccess(write, half)
        \/ dcache_req' = WalkAccess
        \/ /\ req_can_translate /\ req.op # "check"
           /\ dcache_req' = MemAccess(req.op = "write", lookup, TlbFrame(lookup), req.user)
        \/ /\ w_state = "DONE" /\ req.op # "check"
           /\ dcache_req' = MemAccess(req.op = "write", lookup, result.frame, req.user)
    BY <1>1, PutIs
  <2> QED  BY <1>2, <2>1, <2>2, <2>3, <2>4, <2>5, <2>6
<1>3. ASSUME accepted(i), Offered(i).kind = "mem"
      PROVE  Offered(i).current
  <2>1. CASE Presents(i)
    BY <2>1, PresentedCurrent
  <2>2. CASE ~Presents(i)
    <3>1. Offered(i) = dcache_req
      BY <2>2, OfferedIs DEF Presents
    <3>2. dcache_req # None
      BY <1>3, <3>1 DEF Allowed, accepted
    <3> QED  BY <1>3, <3>1, <3>2 DEF AccessInv
  <2> QED  BY <2>1, <2>2
<1>4. accepted(i) => Offered(i) \in Access
  BY <1>1, PortTypes
<1>5. PICK before \in {<< >>, served.accesses} :
        served'.accesses = IF accepted(i) /\ Offered(i).kind # "walk" THEN Append(before, Offered(i)) ELSE before
  BY <1>1, ServedMoves
<1> HIDE DEF Access
<1>6. before \in Seq(Access) /\ \A k \in DOMAIN before : before[k].kind = "mem" => before[k].current
  <2>1. << >> \in Seq(Access) /\ DOMAIN << >> = {}
    BY EmptySeq
  <2>2. /\ served.accesses \in Seq(Access)
        /\ \A k \in DOMAIN served.accesses : served.accesses[k].kind = "mem" => served.accesses[k].current
    BY DEF AccessInv, AccessesPermitted
  <2>3. CASE before = << >>
    BY <2>1, <2>3
  <2>4. CASE before = served.accesses
    BY <2>2, <2>4
  <2> QED  BY <1>5, <2>3, <2>4
<1>7. served'.accesses \in Seq(Access)
  BY <1>4, <1>5, <1>6
<1>8. \A k \in DOMAIN served'.accesses : served'.accesses[k].kind = "mem" => served'.accesses[k].current
  <2>1. CASE accepted(i) /\ Offered(i).kind # "walk"
    <3>1. served'.accesses = Append(before, Offered(i)) /\ Offered(i) \in Access
      BY <1>4, <1>5, <2>1
    <3>2. ASSUME NEW k \in DOMAIN served'.accesses
          PROVE  served'.accesses[k] = Offered(i) \/ (k \in DOMAIN before /\ served'.accesses[k] = before[k])
      BY <1>6, <3>1
    <3> QED  BY <1>3, <1>6, <2>1, <3>2
  <2>2. CASE ~(accepted(i) /\ Offered(i).kind # "walk")
    BY <1>5, <1>6, <2>2
  <2> QED  BY <2>1, <2>2
<1> QED  BY <1>2, <1>7, <1>8 DEF AccessInv, AccessesPermitted

LEMMA AccessAlways == ASSUME Cr3Writes = "no walk" PROVE Spec => []AccessInv
<1>1. Init => AccessInv
  <2> SUFFICES ASSUME Init  PROVE AccessInv
    OBVIOUS
  <2>1. dcache_req = None /\ served = [demand |-> None, accesses |-> << >>]
    BY DEF Init
  <2>2. served.accesses = << >>
    BY <2>1
  <2> QED  BY <2>1, <2>2, EmptySeq DEF AccessInv, AccessesPermitted
<1>2. Struct /\ SinceInv /\ AccessInv /\ [Next]_vars => AccessInv'
  <2>1. ASSUME Struct, SinceInv, AccessInv, Next  PROVE AccessInv'
    <3>1. PICK i : Clock(i) /\ Allowed(i)
      BY <2>1, Inputs DEF Struct, TypeInv
    <3> QED  BY <2>1, <3>1, AccessStep
  <2>2. AccessInv /\ UNCHANGED vars => AccessInv'
    BY DEF AccessInv, AccessesPermitted, vars, mmu
  <2> QED  BY <2>1, <2>2
<1> QED  BY <1>1, <1>2, StructAlways, SinceAlways, PTL DEF Spec

\* Every data access the unit lets through, of either half of a demand, by the lookup, the
\* walk or a route past the register, was one the tables granted its page since the page's
\* last invalidation: its frame, its privilege, and for a store the writable and dirty bits.
THEOREM AccessesArePermitted == ASSUME Cr3Writes = "no walk" PROVE Spec => []AccessesPermitted
<1>1. AccessInv => AccessesPermitted
  BY DEF AccessInv
<1> QED  BY <1>1, AccessAlways, PTL

-----------------------------------------------------------------------------
\* The prefetcher's line.

\* A fetch in progress is the one the prefetcher waits for, or one it will drop: its toggle
\* stays turned until the acknowledge, but for a redirect, whose acknowledge launches the next.
Fetching == pf_fast_pending \/ state \in {"PF_WALKING", "PF_BIU_WAIT"}
GoodRequest(line) == line.page = pf_page /\ line.asked = pf_page /\ line.current
FetchInv ==
    /\ pf_redirect_queued => pf_drop /\ ~pf_spec
    /\ Fetching /\ ~pf_redirect_queued => pf_pending
    /\ pf_ack_prev # pf_ack_toggle_r => ~Fetching /\ (pf_pending => pf_drop /\ ~pf_spec)
    /\ ~pf_drop => /\ state = "PF_WALKING" => lookup = pf_page
                   /\ icache_req # None => GoodRequest(icache_req)
                   /\ icache # None => GoodRequest(icache)

\* A request stays the prefetcher's until it is answered, or its line is dropped.
LEMMA FetchSteady ==
    ASSUME Struct, FetchInv, NEW i, Allowed(i), Prefetcher(i), ~pf_ack_bypass(i), ~pf_drop'
    PROVE  /\ Fetching => ~pf_drop /\ pf_page' = pf_page
           /\ pf_pending => pf_page' = pf_page
<1>1. /\ pf_ack_toggle_r \in BOOLEAN /\ pf_req_toggle \in BOOLEAN /\ pf_ack_prev \in BOOLEAN
      /\ pf_redirect_queued \in BOOLEAN /\ pf_drop \in BOOLEAN /\ pf_spec \in BOOLEAN
  BY DEF Struct, TypeInv, TypeOK
<1>2. pf_ack_toggle(i) = pf_ack_toggle_r
  <2>1. pf_ack_bypass(i) \in BOOLEAN
    BY DEF pf_ack_bypass
  <2> QED  BY <1>1, <2>1 DEF pf_ack_toggle
<1>3. /\ pf_inflight(i) <=> pf_pending
      /\ pf_ack_edge(i) <=> pf_ack_prev # pf_ack_toggle_r
  BY <1>2 DEF pf_inflight, pf_pending, pf_ack_edge
<1>4. Fetching => ~pf_ack_edge(i) /\ (~pf_redirect_queued => pf_pending)
  BY <1>3 DEF FetchInv
<1>5. pf_ack_edge(i) /\ pf_pending => pf_drop /\ ~pf_spec
  BY <1>3 DEF FetchInv
<1>6. pf_redirect_queued => pf_drop /\ ~pf_spec
  BY DEF FetchInv
<1>7. i.fetch # None => ~pf_pending
  BY <1>3 DEF Allowed
<1>8. CASE Flush(i)
  <2>1. /\ ~pf_drop \/ pf_spec
        /\ ~(pf_inflight(i) /\ ~pf_ack_edge(i) /\ ~pf_spec)
        /\ ~(pf_spec /\ ~pf_ack_edge(i) /\ ~i.adopt)
        /\ pf_page' = i.flush
    BY <1>8 DEF Flush
  <2>2. i.adopt => ~pf_drop /\ i.flush = pf_page
    BY DEF Allowed
  <2> QED  BY <1>3, <1>4, <1>5, <1>6, <2>1, <2>2
<1>9. CASE FetchOn(i)
  <2>1. /\ ~pf_drop \/ pf_ack_edge(i)
        /\ pf_page' = IF i.fetch # None THEN i.fetch ELSE pf_page
    BY <1>9 DEF FetchOn
  <2> QED  BY <1>4, <1>6, <1>7, <2>1
<1> QED  BY <1>8, <1>9 DEF Prefetcher

\* What the acknowledge does to a fetch.
LEMMA AckMoves ==
    ASSUME Struct, NEW i, Allowed(i), Fsm(i), PrefetchPort(i)
    PROVE  /\ pf_ack_bypass(i) => Fetching /\ pf_registered_ack(i)
           /\ pf_registered_ack(i) => ~Fetching'
           /\ pf_registered_ack(i) => (pf_pending /\ ~Fetching) \/ Fetching
           /\ Fetching' => Fetching \/ pf_pending
<1>1. /\ ~(pf_fast_pending /\ state \in {"PF_WALKING", "PF_BIU_WAIT"})
      /\ pf_fast_pending \in BOOLEAN
  BY DEF Struct, PortInv, TypeInv, TypeOK
<1>2. /\ fast_pf_candidate(i) => state = "IDLE" /\ ~pf_fast_pending /\ pf_pending
      /\ fetch_perm_fault(i) => /\ state = "IDLE" /\ ~pf_fast_pending /\ pf_pending
                                /\ ~fast_pf_candidate(i) /\ tlb_hit
  BY DEF fast_pf_candidate, fetch_perm_fault, idle_pf_req, s_idle
<1>3. /\ state' = "PF_WALKING" <=> \/ IdleFetchWalk(i)
                                   \/ state = "PF_WALKING" /\ ~walk_done
      /\ state' = "PF_BIU_WAIT" <=> \/ FetchWalkEnds /\ ~pf_redirect_queued /\ ~walk_fault
                                    \/ state = "PF_BIU_WAIT" /\ ~i.icomp
      /\ IdleFetchWalk(i) => /\ state = "IDLE" /\ idle_pf_req /\ ~fast_pf_candidate(i) /\ ~tlb_hit
  BY FetchArms
<1>4. IdleFetchWalk(i) => ~pf_fast_pending /\ pf_pending
  BY <1>3 DEF idle_pf_req
<1>5. pf_fast_pending' = IF pf_fast_pending /\ i.icomp THEN FALSE
                         ELSE IF fast_pf_candidate(i) /\ i.iacc THEN TRUE ELSE pf_fast_pending
  BY <1>2, Zenon DEF PrefetchPort
<1>6. pf_ack_bypass(i) => Fetching /\ pf_registered_ack(i)
  BY DEF pf_ack_bypass, pf_registered_ack, Fetching
<1>7. FetchWalkEnds => state = "PF_WALKING" /\ walk_done
  BY DEF FetchWalkEnds
<1>8. CASE pf_registered_ack(i)
  <2>1. \/ pf_fast_pending /\ i.icomp
        \/ fetch_perm_fault(i)
        \/ FetchWalkEnds /\ (pf_redirect_queued \/ walk_fault)
        \/ state = "PF_BIU_WAIT" /\ i.icomp
    BY <1>8 DEF pf_registered_ack
  <2>2. ~Fetching'
    BY <1>1, <1>2, <1>3, <1>4, <1>5, <1>7, <2>1 DEF Fetching
  <2> QED  BY <1>2, <1>6, <1>7, <2>1, <2>2 DEF Fetching
<1>9. CASE ~pf_registered_ack(i)
  <2>1. Fetching' => Fetching \/ pf_pending
    BY <1>2, <1>3, <1>4, <1>5, <1>7 DEF Fetching
  <2> QED  BY <1>6, <1>9, <2>1
<1> QED  BY <1>8, <1>9

LEMMA FetchToggles ==
    ASSUME Struct, FetchInv, NEW i, Allowed(i), Fsm(i), PrefetchPort(i), Prefetcher(i)
    PROVE  /\ pf_redirect_queued' => pf_drop' /\ ~pf_spec'
           /\ Fetching' /\ ~pf_redirect_queued' => pf_req_toggle' # pf_ack_toggle_r'
           /\ pf_ack_prev' # pf_ack_toggle_r' =>
                 ~Fetching' /\ (pf_req_toggle' # pf_ack_toggle_r' => pf_drop' /\ ~pf_spec')
<1>1. /\ pf_ack_toggle_r \in BOOLEAN /\ pf_req_toggle \in BOOLEAN /\ pf_ack_prev \in BOOLEAN
      /\ pf_redirect_queued \in BOOLEAN /\ pf_drop \in BOOLEAN /\ pf_spec \in BOOLEAN
  BY DEF Struct, TypeInv, TypeOK
<1> DEFINE B == pf_ack_bypass(i)
           A == pf_registered_ack(i)
<1>2. /\ B => Fetching /\ A
      /\ A => ~Fetching'
      /\ A => (pf_pending /\ ~Fetching) \/ Fetching
      /\ Fetching' => Fetching \/ pf_pending
  BY AckMoves
<1>3. /\ pf_inflight(i) <=> (pf_req_toggle # (pf_ack_toggle_r # B))
      /\ pf_ack_edge(i) <=> ((pf_ack_toggle_r # B) # pf_ack_prev)
      /\ pf_ack_toggle(i) = (pf_ack_toggle_r # B)
      /\ pf_pending <=> pf_req_toggle # pf_ack_toggle_r
  BY DEF pf_inflight, pf_pending, pf_ack_edge, pf_ack_toggle
<1>4. /\ pf_ack_toggle_r' = (pf_ack_toggle_r # A)
      /\ pf_ack_prev' = (pf_ack_toggle_r # B)
  BY <1>3 DEF PrefetchPort, Prefetcher
<1>5. /\ i.fetch # None => ~pf_inflight(i)
      /\ i.spec => ~pf_redirect_queued
      /\ i.adopt => pf_spec
      /\ i.spec \in BOOLEAN
  BY DEF Allowed
<1>6. /\ pf_redirect_queued => pf_drop /\ ~pf_spec
      /\ Fetching /\ ~pf_redirect_queued => pf_pending
      /\ pf_ack_prev # pf_ack_toggle_r => ~Fetching /\ (pf_pending => pf_drop /\ ~pf_spec)
  BY DEF FetchInv
<1> DEFINE queued == pf_inflight(i) /\ ~pf_ack_edge(i) /\ ~pf_spec
           bypassed == pf_spec /\ ~pf_ack_edge(i) /\ ~i.adopt
<1>7. A \in BOOLEAN /\ B \in BOOLEAN
  BY DEF pf_ack_bypass, pf_registered_ack
<1>8. CASE Flush(i)
  <2>1. /\ pf_redirect_queued' = (pf_redirect_queued \/ queued)
        /\ pf_drop' = ((pf_drop /\ ~pf_spec) \/ queued \/ bypassed)
        /\ pf_spec' = bypassed
        /\ queued => pf_req_toggle' = pf_ack_toggle(i)
        /\ ~queued /\ i.fetch # None => pf_req_toggle' = ~pf_req_toggle
        /\ ~queued /\ i.fetch = None => pf_req_toggle' = pf_req_toggle
    BY <1>8 DEF Flush
  <2> HIDE DEF A, B, Fetching
  <2>2. pf_redirect_queued' => pf_drop' /\ ~pf_spec'
    BY <1>6, <2>1
  <2>3. Fetching' /\ ~pf_redirect_queued' => pf_req_toggle' # pf_ack_toggle_r'
    BY <1>1, <1>2, <1>3, <1>4, <1>5, <1>6, <1>7, <2>1
  <2>4. pf_ack_prev' # pf_ack_toggle_r' =>
           ~Fetching' /\ (pf_req_toggle' # pf_ack_toggle_r' => pf_drop' /\ ~pf_spec')
    BY <1>1, <1>2, <1>3, <1>4, <1>5, <1>6, <1>7, <2>1
  <2> QED  BY <2>2, <2>3, <2>4
<1>9. CASE FetchOn(i)
  <2>1. /\ pf_redirect_queued' = (pf_redirect_queued /\ ~pf_ack_edge(i))
        /\ pf_drop' = (pf_drop /\ ~pf_ack_edge(i))
        /\ pf_spec' = IF i.fetch # None THEN i.spec ELSE pf_spec /\ ~pf_ack_edge(i)
        /\ pf_req_toggle' = (pf_req_toggle # (i.fetch # None))
    BY <1>9 DEF FetchOn
  <2> HIDE DEF A, B, Fetching
  <2>2. pf_redirect_queued' => pf_drop' /\ ~pf_spec'
    BY <1>5, <1>6, <2>1
  <2>3. Fetching' /\ ~pf_redirect_queued' => pf_req_toggle' # pf_ack_toggle_r'
    BY <1>1, <1>2, <1>3, <1>4, <1>5, <1>6, <1>7, <2>1
  <2>4. pf_ack_prev' # pf_ack_toggle_r' =>
           ~Fetching' /\ (pf_req_toggle' # pf_ack_toggle_r' => pf_drop' /\ ~pf_spec')
    BY <1>1, <1>2, <1>3, <1>4, <1>5, <1>6, <1>7, <2>1
  <2> QED  BY <2>2, <2>3, <2>4
<1> QED  BY <1>8, <1>9 DEF Prefetcher

\* A line request beside the FSM is translated by what the tables held.
LEMMA FastCurrent ==
    ASSUME Struct, SinceInv, NEW i, Allowed(i), fast_pf_candidate(i)
    PROVE  Current(pf_page, fast_pf_frame(i), FALSE, i.user)
<1>1. CASE ~pg_enable
  <2>1. fast_pf_frame(i) = pf_page
    BY <1>1 DEF fast_pf_frame
  <2> QED  BY <1>1, <2>1, Zenon DEF Current
<1>2. CASE pg_enable
  <2>1. \E t \in since[pf_page] : t # None /\ t.frame = fast_pf_frame(i) /\ (i.user => t.u)
    <3>1. CASE pf_xlat_hit(i)
      <4>1. fast_pf_frame(i) = xlat.frame
        BY <1>2, <3>1 DEF fast_pf_frame
      <4> QED  BY <3>1, <4>1 DEF pf_xlat_hit, SinceInv, TlbFresh
    <3>2. CASE ~pf_xlat_hit(i)
      <4>1. fast_pf_frame(i) = tlb[lookup].frame
        BY <1>2, <3>2 DEF fast_pf_frame
      <4>2. lookup = pf_page /\ tlb[lookup] # None /\ (i.user => tlb[lookup].u) /\ lookup \in Pages
        BY <1>2, <3>2 DEF fast_pf_candidate, pf_tlb_match, tlb_hit, Struct, TypeInv, TypeOK
      <4> QED  BY <4>1, <4>2 DEF SinceInv, TlbFresh
    <3> QED  BY <3>1, <3>2
  <2>2. PICK t \in since[pf_page] : t # None /\ t.frame = fast_pf_frame(i) /\ (i.user => t.u)
    BY <2>1
  <2>3. Permitted(t, FALSE, i.user, wp_enable)
    BY <2>2 DEF Permitted
  <2> QED  BY <1>2, <2>2, <2>3, Zenon DEF Current
<1> QED  BY <1>1, <1>2

LEMMA FetchStep ==
    ASSUME Struct, SinceInv, FetchInv, NEW i, Allowed(i), Clock(i)
    PROVE  FetchInv'
<1>1. /\ FsmInv /\ PortInv /\ AskInv /\ Fsm(i) /\ LookupAddress(i) /\ PrefetchPort(i) /\ Prefetcher(i)
      /\ lookup \in Pages /\ pf_page \in Pages
  BY DEF Struct, Clock, TypeInv, TypeOK
<1>2. /\ pf_redirect_queued' => pf_drop' /\ ~pf_spec'
      /\ Fetching' /\ ~pf_redirect_queued' => pf_req_toggle' # pf_ack_toggle_r'
      /\ pf_ack_prev' # pf_ack_toggle_r' =>
            ~Fetching' /\ (pf_req_toggle' # pf_ack_toggle_r' => pf_drop' /\ ~pf_spec')
  BY <1>1, FetchToggles
<1>3. ASSUME ~pf_ack_bypass(i), ~pf_drop'
      PROVE  /\ Fetching => ~pf_drop /\ pf_page' = pf_page
             /\ pf_pending => pf_page' = pf_page
  BY <1>1, <1>3, FetchSteady
<1>4. ASSUME ~pf_drop', state' = "PF_WALKING"
      PROVE  lookup' = pf_page'
  <2>1. \/ IdleFetchWalk(i)
        \/ state = "PF_WALKING" /\ ~walk_done
    BY <1>1, <1>4, FetchArms
  <2>2. CASE IdleFetchWalk(i)
    <3>1. state = "IDLE" /\ idle_pf_req /\ ~fast_pf_candidate(i) /\ pf_tlb_match /\ ~idle_mem_precheck(i)
      BY <1>1, <2>2, FetchArms
    <3>2. pg_enable /\ pf_pending /\ ~pf_fast_pending /\ lookup = pf_page
      BY <3>1 DEF fast_pf_candidate, idle_pf_req, pf_tlb_match
    <3>3. lookup' = lookup
      BY <1>1, <3>1, LookupMoves DEF idle_mem_precheck_capture, idle_pf_lookup_capture
    <3>4. ~pf_ack_bypass(i)
      BY <3>1, <3>2 DEF pf_ack_bypass
    <3> QED  BY <1>3, <1>4, <3>2, <3>3, <3>4
  <2>3. CASE state = "PF_WALKING" /\ ~walk_done
    <3>1. Fetching /\ ~pf_ack_bypass(i)
      BY <1>1, <2>3 DEF Fetching, pf_ack_bypass, PortInv
    <3>2. ~pf_drop /\ pf_page' = pf_page
      BY <1>3, <1>4, <3>1
    <3>3. lookup' = lookup
      BY <1>1, <2>3, LookupMoves DEF second_lookup_load
    <3> QED  BY <2>3, <3>2, <3>3 DEF FetchInv
  <2> QED  BY <2>1, <2>2, <2>3
<1>5. ASSUME ~pf_drop', icache_req' # None
      PROVE  icache_req'.page = pf_page' /\ icache_req'.asked = pf_page' /\ icache_req'.current
  <2>1. CASE FetchWalkEnds /\ ~pf_redirect_queued /\ ~walk_fault
    <3>1. icache_req' = LineRequest(saved.page, result.frame, saved.user)
      BY <1>1, <2>1 DEF PrefetchPort
    <3> DEFINE r == LineRequest(saved.page, result.frame, saved.user)
    <3>2. r.page = saved.page /\ r.asked = pf_page /\ r.current = Current(saved.page, result.frame, FALSE, saved.user)
      BY Zenon DEF LineRequest
    <3> HIDE DEF r
    <3>3. state = "PF_WALKING" /\ w_state = "DONE" /\ Fetching
      BY <2>1 DEF FetchWalkEnds, walk_done, walk_fault, Fetching
    <3>4. saved.page = lookup /\ saved.user = req.user /\ req.op = "read"
      BY <1>1, <3>3 DEF AskInv, FsmInv
    <3>5. Current(lookup, result.frame, req.op = "write", req.user)
      BY <3>3, <3>4, WalkCurrent
    <3>6. (req.op = "write") = FALSE
      BY <3>4
    <3>7. Current(lookup, result.frame, FALSE, req.user)
      BY <3>5, <3>6
    <3>8. ~pf_ack_bypass(i)
      BY <1>1, <3>3 DEF pf_ack_bypass, PortInv
    <3>9. ~pf_drop /\ pf_page' = pf_page /\ lookup = pf_page
      BY <1>3, <1>5, <3>3, <3>8 DEF FetchInv
    <3>10. icache_req' = r
      BY <3>1 DEF r
    <3> QED  BY <3>2, <3>4, <3>7, <3>9, <3>10
  <2>2. CASE ~(FetchWalkEnds /\ ~pf_redirect_queued /\ ~walk_fault)
    <3>1. icache_req' = icache_req
      BY <1>1, <1>5, <2>2 DEF PrefetchPort
    <3>2. Fetching /\ icache = None
      BY <1>1, <1>5, <3>1 DEF PortInv, Fetching
    <3>3. ~pf_ack_bypass(i)
      BY <3>2 DEF pf_ack_bypass, Allowed
    <3>4. ~pf_drop /\ pf_page' = pf_page
      BY <1>3, <1>5, <3>2, <3>3
    <3> QED  BY <1>5, <3>1, <3>4 DEF FetchInv, GoodRequest
  <2> QED  BY <2>1, <2>2
<1>6. ASSUME ~pf_drop', icache' # None
      PROVE  icache'.page = pf_page' /\ icache'.asked = pf_page' /\ icache'.current
  <2>1. /\ i.iacc => icache = None /\ (icache_req # None \/ fast_pf_candidate(i))
        /\ i.icomp => icache # None
    BY DEF Allowed
  <2>2. icache' = IF i.iacc THEN FetchOffered(i) ELSE IF i.icomp THEN None ELSE icache
    BY <1>1, <2>1 DEF PrefetchPort
  <2>3. ~pf_ack_bypass(i)
    BY <1>6, <2>1, <2>2 DEF pf_ack_bypass
  <2>4. CASE i.iacc /\ icache_req # None
    <3>1. icache' = icache_req /\ Fetching
      BY <1>1, <2>2, <2>4 DEF FetchOffered, PortInv, Fetching
    <3>2. ~pf_drop /\ pf_page' = pf_page
      BY <1>3, <1>6, <2>3, <3>1
    <3> QED  BY <2>4, <3>1, <3>2 DEF FetchInv, GoodRequest
  <2>5. CASE i.iacc /\ icache_req = None
    <3>1. icache' = LineRequest(pf_page, fast_pf_frame(i), i.user) /\ fast_pf_candidate(i)
      BY <2>1, <2>2, <2>5 DEF FetchOffered
    <3> DEFINE r == LineRequest(pf_page, fast_pf_frame(i), i.user)
    <3>2. r.page = pf_page /\ r.asked = pf_page /\ r.current = Current(pf_page, fast_pf_frame(i), FALSE, i.user)
      BY Zenon DEF LineRequest
    <3> HIDE DEF r
    <3>3. Current(pf_page, fast_pf_frame(i), FALSE, i.user)
      BY <3>1, FastCurrent
    <3>4. pf_pending
      BY <3>1 DEF fast_pf_candidate, idle_pf_req
    <3>5. pf_page' = pf_page
      BY <1>3, <1>6, <2>3, <3>4
    <3>6. icache' = r
      BY <3>1 DEF r
    <3> QED  BY <3>2, <3>3, <3>5, <3>6
  <2>6. CASE ~i.iacc
    <3>1. icache' = icache /\ icache # None /\ Fetching
      BY <1>1, <1>6, <2>2, <2>6 DEF PortInv, Fetching
    <3>2. ~pf_drop /\ pf_page' = pf_page
      BY <1>3, <1>6, <2>3, <3>1
    <3> QED  BY <3>1, <3>2 DEF FetchInv, GoodRequest
  <2> QED  BY <2>4, <2>5, <2>6
<1> QED  BY <1>2, <1>4, <1>5, <1>6 DEF FetchInv, pf_pending, GoodRequest

LEMMA FetchAlways == ASSUME Cr3Writes = "no walk" PROVE Spec => []FetchInv
<1>1. Init => FetchInv
  BY DEF Init, FetchInv, Fetching
<1>2. Struct /\ SinceInv /\ FetchInv /\ [Next]_vars => FetchInv'
  <2>1. ASSUME Struct, SinceInv, FetchInv, Next  PROVE FetchInv'
    <3>1. PICK i : Clock(i) /\ Allowed(i)
      BY <2>1, Inputs DEF Struct, TypeInv
    <3> QED  BY <2>1, <3>1, FetchStep
  <2>2. ASSUME FetchInv, UNCHANGED vars  PROVE FetchInv'
    <3>1. /\ UNCHANGED <<pf_fast_pending, state, lookup, pf_ack_toggle_r, icache_req, icache, pf_page, pf_drop,
                         pf_spec, pf_redirect_queued, pf_ack_prev, pf_req_toggle>>
      BY <2>2 DEF vars, mmu, control, fetch
    <3>2. (Fetching' <=> Fetching) /\ (pf_pending' <=> pf_pending)
      BY <3>1 DEF Fetching, pf_pending
    <3> QED  BY <2>2, <3>1, <3>2 DEF FetchInv, GoodRequest
  <2> QED  BY <2>1, <2>2
<1> QED  BY <1>1, <1>2, StructAlways, SinceAlways, PTL DEF Spec

\* A line the prefetcher takes, through flushes, speculation, adopted and poisoned requests,
\* is the line it waits for, fetched where and as the tables allow.
THEOREM LinesAreGood == ASSUME Cr3Writes = "no walk" PROVE Spec => GoodLine
<1>1. FetchInv => [icache # None /\ icache' = None /\ ~pf_drop
                   => icache.page = pf_page /\ icache.asked = pf_page /\ icache.current]_vars
  BY DEF FetchInv, GoodRequest
<1> QED  BY <1>1, FetchAlways, PTL DEF GoodLine

-----------------------------------------------------------------------------
\* Faults.

DemandInv == state \in Demands => served.demand = req

LEMMA DemandStep ==
    ASSUME Struct, DemandInv, NEW i, Allowed(i), Clock(i)
    PROVE  DemandInv'
<1> USE DEF Demands
<1>1. Fsm(i) /\ History(i) /\ FsmInv
  BY DEF Struct, Clock
<1>2. served'.demand = IF idle_mem_req(i) THEN i.demand ELSE served.demand
  BY <1>1, ServedMoves
<1>3. CASE state = "IDLE"
  <2>1. Idle(i)
    BY <1>1, <1>3, FsmIs
  <2>2. CASE IdleIo(i) \/ IdlePretranslated(i) \/ IdleEarlyWrite(i) \/ IdleLookup(i)
    <3>1. idle_mem_req(i) /\ (state' \in Demands => req' = i.demand)
      BY <2>2 DEF IdleIo, IdlePretranslated, IdleEarlyWrite, IdleLookup, CaptureMem
    <3> QED  BY <1>2, <3>1 DEF DemandInv
  <2>3. CASE IdleStay(i) \/ IdleFetchWalk(i) \/ IdleGated(i)
    <3>1. state' \notin Demands
      BY <2>3 DEF IdleStay, IdleFetchWalk, IdleGated, Goto
    <3> QED  BY <3>1 DEF DemandInv
  <2> QED  BY <2>1, <2>2, <2>3 DEF Idle
<1>4. CASE state # "IDLE"
  <2>1. ~idle_mem_req(i)
    BY <1>4 DEF idle_mem_req, idle_mem_precheck, demand_idle, s_idle
  <2>2. req' = req
    BY <1>1, <1>4, FsmIs DEF Fsm, MemTlb, Walking, CrossWait1, CrossPrep2, CrossTlb2, CrossWalk2, CrossWait2,
                             PfWalking, PfBiuWait
  <2>3. state' \in Demands => state \in Demands
    <3>1. CASE PfWalking(i) \/ PfBiuWait(i)
      BY <3>1 DEF PfWalking, PfBiuWait, Goto, control
    <3>2. CASE MemTlb(i) \/ Walking(i) \/ CrossWait1(i) \/ CrossPrep2(i) \/ CrossTlb2(i) \/ CrossWalk2(i)
               \/ CrossWait2(i)
      BY <3>2 DEF MemTlb, Walking, CrossWait1, CrossPrep2, CrossTlb2, CrossWalk2, CrossWait2
    <3> QED  BY <1>1, <1>4, <3>1, <3>2, FsmIs DEF Fsm
  <2> QED  BY <1>2, <2>1, <2>2, <2>3 DEF DemandInv
<1> QED  BY <1>3, <1>4

LEMMA FaultIs ==
    ASSUME Struct, NEW i, Fsm(i), page_fault' # None
    PROVE  /\ state \in Demands
           /\ \/ page_fault' = [page |-> req.page, code |-> perm_fault_code] /\ req_perm_fault /\ lookup = req.page
              \/ page_fault' = [page |-> req.second, code |-> perm_fault_code] /\ req_perm_fault /\ lookup = req.second
              \/ page_fault' = [page |-> req.page, code |-> walk_fault_code] /\ w_state = "FAULT" /\ lookup = req.page
              \/ page_fault' = [page |-> req.second, code |-> walk_fault_code] /\ w_state = "FAULT" /\ lookup = req.second
<1> USE DEF Silent, StartWalk, raise_fault, Demands
<1>1. FsmInv
  BY DEF Struct
<1>2. ~Idle(i)
  BY DEF Idle, IdleStay, IdleFetchWalk, IdleGated, IdleIo, IdlePretranslated, IdleEarlyWrite, IdleLookup, CaptureMem
<1>3. CASE MemTlb(i)
  <2>1. LookupFault(i)
    BY <1>3 DEF MemTlb, LookupChecked, LookupAccess, LookupWait, LookupMiss
  <2> QED  BY <1>1, <1>3, <2>1 DEF MemTlb, LookupFault, FsmInv
<1>4. CASE CrossTlb2(i)
  <2>1. /\ state = "CROSS_TLB2" /\ req.kind = "mem" /\ req_perm_fault
        /\ page_fault' = [page |-> req.second, code |-> perm_fault_code]
    BY <1>4, Zenon DEF CrossTlb2, EmitSecondHalf
  <2>2. ~req_can_translate
    BY <2>1 DEF req_perm_fault, req_can_translate
  <2> QED  BY <1>1, <2>1, <2>2 DEF FsmInv
<1>5. CASE Walking(i)
  <2>1. /\ state = "WALKING" /\ w_state = "FAULT"
        /\ page_fault' = [page |-> req.page, code |-> walk_fault_code]
    BY <1>5, Zenon DEF Walking, WalkRuns, WalkFaults, walk_fault
  <2> QED  BY <1>1, <2>1 DEF FsmInv
<1>6. CASE CrossWalk2(i)
  <2>1. /\ state = "CROSS_WALK2" /\ w_state = "FAULT"
        /\ page_fault' = [page |-> req.second, code |-> walk_fault_code]
    BY <1>6, Zenon DEF CrossWalk2, WalkRuns, WalkFaults, walk_fault
  <2> QED  BY <1>1, <2>1 DEF FsmInv
<1>7. ~CrossWait1(i) /\ ~CrossPrep2(i) /\ ~CrossWait2(i) /\ ~PfWalking(i) /\ ~PfBiuWait(i)
  BY DEF CrossWait1, CrossPrep2, CrossWait2, PfWalking, PfBiuWait
<1> QED  BY <1>2, <1>3, <1>4, <1>5, <1>6, <1>7 DEF Fsm

\* A protection fault of the lookup is the tables'.
LEMMA LookupJustifies ==
    ASSUME Struct, SinceInv, tlb_hit, NEW write, NEW user, ~Permitted(tlb[lookup], write, user, wp_enable)
    PROVE  Justified(lookup, [p |-> TRUE, w |-> write, u |-> user])
<1> DEFINE c == [p |-> TRUE, w |-> write, u |-> user]
<1>1. tlb[lookup] # None /\ tlb[lookup] \in since[lookup]
  BY DEF tlb_hit, SinceInv, TlbFresh, Struct, TypeInv, TypeOK
<1>2. c.p = TRUE /\ c.w = write /\ c.u = user
  BY Zenon
<1> HIDE DEF c
<1>3. Justified(lookup, c)
  BY <1>1, <1>2 DEF Justified
<1> QED  BY <1>3 DEF c

\* So is the fault of a walk.
LEMMA WalkJustifies ==
    ASSUME Struct, SinceInv, w_state = "FAULT"
    PROVE  Justified(lookup, walk_fault_code)
<1>1. /\ saved.cr3 = cr3 /\ saved.page = lookup /\ saved.wp = wp_enable /\ lookup \in Pages
      /\ pde \in Pde /\ pdes[cr3] = pde
      /\ pde.p => pte \in Pte /\ ptes[pde.base][lookup] = pte /\ (pte.p => ~GrantedNow)
  BY DEF Struct, TypeInv, TypeOK, SinceInv, AskInv, LatchInv
<1>2. TableEntry(cr3, lookup) \in since[lookup]
  BY <1>1 DEF SinceInv
<1> DEFINE c == walk_fault_code
<1>3. c.p = (pde.p /\ pte.p) /\ c.w = saved.write /\ c.u = saved.user
  BY Zenon DEF walk_fault_code
<1> HIDE DEF c
<1>4. CASE ~(pde.p /\ pte.p)
  <2>1. TableEntry(cr3, lookup) = None
    BY <1>1, <1>4 DEF TableEntry
  <2>2. ~c.p
    BY <1>3, <1>4
  <2> QED  BY <1>2, <2>1, <2>2 DEF Justified, c
<1>5. CASE pde.p /\ pte.p
  <2>1. TableEntry(cr3, lookup) = Combined(pde, pte)
    BY <1>1, <1>5 DEF TableEntry
  <2>2. Combined(pde, pte) # None
    BY <1>1, <1>5, CombinedType, NoneAssumption
  <2>3. ~Permitted(Combined(pde, pte), c.w, c.u, wp_enable)
    BY <1>1, <1>3, <1>5 DEF GrantedNow
  <2>4. c.p
    BY <1>3, <1>5
  <2> QED  BY <1>2, <2>1, <2>2, <2>3, <2>4 DEF Justified, c
<1> QED  BY <1>4, <1>5

LEMMA FaultsStep ==
    ASSUME Struct, SinceInv, FetchInv, DemandInv, NEW i, Allowed(i), Clock(i)
    PROVE  /\ page_fault' # None => /\ page_fault'.page \in {served.demand.page, served.demand.second}
                                    /\ Justified(page_fault'.page, page_fault'.code)
           /\ pf_fault' # None /\ ~pf_drop' =>
                pf_fault'.page = pf_page' /\ Justified(pf_page', pf_fault'.code)
<1>1. /\ FsmInv /\ PortInv /\ AskInv /\ Fsm(i) /\ PfFault(i) /\ Prefetcher(i)
  BY DEF Struct, Clock
<1>3. ASSUME page_fault' # None
      PROVE  /\ page_fault'.page \in {served.demand.page, served.demand.second}
             /\ Justified(page_fault'.page, page_fault'.code)
  <2>1. /\ state \in Demands
        /\ \/ page_fault' = [page |-> req.page, code |-> perm_fault_code] /\ req_perm_fault /\ lookup = req.page
           \/ page_fault' = [page |-> req.second, code |-> perm_fault_code] /\ req_perm_fault /\ lookup = req.second
           \/ page_fault' = [page |-> req.page, code |-> walk_fault_code] /\ w_state = "FAULT" /\ lookup = req.page
           \/ page_fault' = [page |-> req.second, code |-> walk_fault_code] /\ w_state = "FAULT" /\ lookup = req.second
    BY <1>1, <1>3, FaultIs
  <2>2. req = served.demand
    BY <2>1 DEF DemandInv
  <2>3. /\ page_fault'.page = lookup /\ lookup \in {req.page, req.second}
        /\ \/ page_fault'.code = perm_fault_code /\ req_perm_fault
           \/ page_fault'.code = walk_fault_code /\ w_state = "FAULT"
    BY <2>1
  <2>4. req_perm_fault => Justified(lookup, perm_fault_code)
    <3>1. req_perm_fault => tlb_hit /\ ~Permitted(tlb[lookup], IsWrite(req), req.user, wp_enable)
      BY DEF req_perm_fault, req_perm_ok
    <3>2. req_perm_fault => Justified(lookup, [p |-> TRUE, w |-> IsWrite(req), u |-> req.user])
      BY <3>1, LookupJustifies
    <3> QED  BY <3>2 DEF perm_fault_code
  <2>5. w_state = "FAULT" => Justified(lookup, walk_fault_code)
    BY WalkJustifies
  <2>6. Justified(page_fault'.page, page_fault'.code)
    BY <2>3, <2>4, <2>5
  <2> QED  BY <2>2, <2>3, <2>6
<1>4. ASSUME pf_fault' # None, ~pf_drop'
      PROVE  pf_fault'.page = pf_page' /\ Justified(pf_page', pf_fault'.code)
  <2> DEFINE a == [p |-> TRUE, w |-> FALSE, u |-> i.user]
  <2>1. \/ fetch_perm_fault(i) /\ pf_fault' = [page |-> pf_page, code |-> a]
        \/ FetchWalkEnds /\ walk_fault /\ pf_fault' = [page |-> pf_page, code |-> walk_fault_code]
    <3>1. ~(fetch_perm_fault(i) /\ FetchWalkEnds)
      BY DEF fetch_perm_fault, FetchWalkEnds, idle_pf_req, s_idle
    <3> QED  BY <1>1, <1>4, <3>1, Zenon DEF PfFault
  <2>2. CASE fetch_perm_fault(i) /\ pf_fault' = [page |-> pf_page, code |-> a]
    <3> HIDE DEF a
    <3>1. pf_fault'.page = pf_page /\ pf_fault'.code = a
      BY <2>2
    <3>2. /\ state = "IDLE" /\ ~pf_fast_pending /\ pf_pending /\ lookup = pf_page /\ tlb_hit
          /\ ~(i.user => tlb[lookup].u)
      BY <2>2 DEF fetch_perm_fault, idle_pf_req, s_idle, fast_pf_candidate, pf_tlb_match
    <3>3. ~Permitted(tlb[lookup], FALSE, i.user, wp_enable)
      BY <3>2 DEF Permitted
    <3>4. Justified(lookup, a)
      BY <3>2, <3>3, LookupJustifies DEF a
    <3>5. ~pf_ack_bypass(i)
      BY <3>2 DEF pf_ack_bypass
    <3>6. pf_page' = pf_page
      BY <1>1, <1>4, <3>2, <3>5, FetchSteady
    <3> QED  BY <3>1, <3>2, <3>4, <3>6
  <2>3. CASE FetchWalkEnds /\ walk_fault /\ pf_fault' = [page |-> pf_page, code |-> walk_fault_code]
    <3>1. pf_fault'.page = pf_page /\ pf_fault'.code = walk_fault_code
      BY <2>3
    <3>2. state = "PF_WALKING" /\ w_state = "FAULT" /\ Fetching
      BY <2>3 DEF FetchWalkEnds, walk_fault, Fetching
    <3>3. ~pf_ack_bypass(i)
      BY <1>1, <3>2 DEF pf_ack_bypass, PortInv
    <3>4. ~pf_drop /\ pf_page' = pf_page
      BY <1>1, <1>4, <3>2, <3>3, FetchSteady
    <3>5. lookup = pf_page
      BY <3>2, <3>4 DEF FetchInv
    <3>6. Justified(lookup, walk_fault_code)
      BY <3>2, WalkJustifies
    <3> QED  BY <3>1, <3>4, <3>5, <3>6
  <2> QED  BY <2>1, <2>2, <2>3
<1> QED  BY <1>3, <1>4

LEMMA DemandAlways == Spec => []DemandInv
<1>1. Init => DemandInv
  BY DEF Init, DemandInv, Demands
<1>2. Struct /\ DemandInv /\ [Next]_vars => DemandInv'
  <2>1. ASSUME Struct, DemandInv, Next  PROVE DemandInv'
    <3>1. PICK i : Clock(i) /\ Allowed(i)
      BY <2>1, Inputs DEF Struct, TypeInv
    <3> QED  BY <2>1, <3>1, DemandStep
  <2>2. DemandInv /\ UNCHANGED vars => DemandInv'
    BY DEF DemandInv, vars, mmu, control
  <2> QED  BY <2>1, <2>2
<1> QED  BY <1>1, <1>2, StructAlways, PTL DEF Spec

\* A page fault names a page of the demand in service, or the fetch's own, and its code tells
\* what the tables said of that page since its last invalidation.
THEOREM FaultsAreJustified == ASSUME Cr3Writes = "no walk" PROVE Spec => FaultsJustified
<1> DEFINE Told ==
        /\ page_fault' # None => /\ page_fault'.page \in {served.demand.page, served.demand.second}
                                 /\ Justified(page_fault'.page, page_fault'.code)
        /\ pf_fault' # None /\ ~pf_drop' =>
             pf_fault'.page = pf_page' /\ Justified(pf_page', pf_fault'.code)
<1>1. ASSUME Struct, SinceInv, FetchInv, DemandInv, Next  PROVE Told
  <2>1. PICK i : Clock(i) /\ Allowed(i)
    BY <1>1, Inputs DEF Struct, TypeInv
  <2> QED  BY <1>1, <2>1, FaultsStep
<1>2. Struct /\ SinceInv /\ FetchInv /\ DemandInv /\ [Next]_vars => [Told]_vars
  BY <1>1, Zenon
<1> QED  BY <1>2, StructAlways, SinceAlways, FetchAlways, DemandAlways, PTL DEF Spec, FaultsJustified

-----------------------------------------------------------------------------
\* Outcomes.

\* How far the demand in service has come: the accesses taken for it so far are its first
\* half, once that is done (a), and the one the cache is answering; what stands at the port
\* or in the cache is its present half; and OPR_R has what the first half read.
Second == state \in Seconds \ {"CROSS_WAIT1"}
Half   == IF Second THEN 2 ELSE 1
Reads(r) == r.op = "read" /\ r.kind # "inta"
Past(a) == IF Second THEN <<a>> ELSE << >>
InCache == dcache # None /\ dcache.kind # "walk"
Waiting == Demanded # None /\ Demanded.kind # "walk"
HalfAccess(r, half, a) ==
    /\ a.write = (r.op = "write")
    /\ r.kind = "mem" => a.kind = "mem" /\ a.page = Halves(r)[half]
    /\ r.kind # "mem" => a.kind = "io" /\ a.at = half
Progress(a) ==
    /\ served.accesses = IF InCache THEN Append(Past(a), dcache) ELSE Past(a)
    /\ Second => HalfAccess(served.demand, 1, a) /\ (Reads(served.demand) => opr = <<a.at, None>>)
    /\ Waiting => HalfAccess(served.demand, Half, Demanded)
    /\ Reads(served.demand) =>
          ~meta.write /\ (Waiting => ~meta.walk /\ ~meta.suppress /\ meta.half = Half)
InService ==
    /\ fast_path_pending => ~Crosses(served.demand)
    /\ mem_servicing /\ served.demand.op # "check" => \E a : Progress(a)
\* The walker's answers are kept from OPR_R.
ServedInv == InService /\ (walk_biu_pending => meta.walk)

LEMMA HalvesIs ==
    ASSUME NEW r
    PROVE  /\ Halves(r)[1] = r.page
           /\ Crosses(r) => Len(Halves(r)) = 2 /\ Halves(r)[2] = r.second
           /\ ~Crosses(r) => Len(Halves(r)) = 1
BY DEF Halves

\* The accesses of a demand whose request is held until it is taken.
LEMMA HeldServed ==
    ASSUME Struct, NEW i, Allowed(i), DcacheNext(i), History(i), Hold(i), ~Presents(i), ~demand_idle,
           Demanded = None \/ Waiting, NEW past,
           served.accesses = IF InCache THEN Append(past, dcache) ELSE past
    PROVE  /\ completes(i) => served'.accesses = Append(past, Demanded) /\ Waiting
           /\ ~completes(i) => /\ served'.accesses = IF InCache' THEN Append(past, dcache') ELSE past
                               /\ Demanded' = Demanded
           /\ served'.demand = served.demand
<1>1. /\ dcache_req = None \/ dcache = None
      /\ Demanded' = IF completes(i) THEN None ELSE Demanded
      /\ accepted(i) \/ completes(i) => Demanded # None
      /\ accepted(i) => Offered(i) = Demanded /\ dcache_req = Demanded
  BY HeldMoves DEF Struct, PortInv
<1>2. /\ served'.accesses = IF accepted(i) /\ Offered(i).kind # "walk"
                            THEN Append(served.accesses, Offered(i)) ELSE served.accesses
      /\ served'.demand = served.demand
  BY ServedMoves DEF idle_mem_req, idle_mem_precheck
<1>3. CASE accepted(i)
  <2>1. dcache = None /\ Offered(i) = Demanded /\ Demanded # None /\ Waiting
    BY <1>1, <1>3 DEF Allowed, accepted
  <2>2. served'.accesses = Append(past, Demanded)
    BY <1>2, <1>3, <2>1 DEF InCache, Waiting
  <2>3. ~completes(i) => dcache' = Demanded
    BY <1>3, <2>1 DEF DcacheNext
  <2> QED  BY <1>1, <1>2, <2>1, <2>2, <2>3 DEF InCache, Waiting
<1>4. CASE ~accepted(i)
  <2>1. served'.accesses = served.accesses
    BY <1>2, <1>4
  <2>2. completes(i) => dcache # None /\ Demanded = dcache /\ Waiting
    BY <1>1, <1>4 DEF completes, Demanded
  <2>3. ~completes(i) => dcache' = dcache
    BY <1>4 DEF DcacheNext
  <2> QED  BY <1>1, <1>2, <2>1, <2>2, <2>3 DEF InCache, Waiting
<1> QED  BY <1>3, <1>4

\* A clock that leaves the demand where it is.
LEMMA ProgressKept ==
    ASSUME Struct, NEW i, Allowed(i), DcacheNext(i), History(i), OprNext(i), Hold(i), ~Presents(i), ~demand_idle,
           Demanded = None \/ Waiting, ~completes(i), meta' = meta, Second' = Second, NEW a, Progress(a)
    PROVE  Progress(a)'
<1>1. served.accesses = IF InCache THEN Append(Past(a), dcache) ELSE Past(a)
  BY DEF Progress
<1>2. /\ served'.accesses = IF InCache' THEN Append(Past(a), dcache') ELSE Past(a)
      /\ Demanded' = Demanded /\ served'.demand = served.demand
  BY <1>1, HeldServed
<1>3. opr' = opr
  BY DEF OprNext, read_complete
<1>4. Past(a)' = Past(a) /\ Half' = Half /\ Waiting' = Waiting
  BY <1>2 DEF Past, Half, Waiting
<1> QED  BY <1>2, <1>3, <1>4 DEF Progress

\* An answer to a read arrives in OPR_R.
LEMMA OprTakes ==
    ASSUME Struct, NEW i, Allowed(i), Hold(i), DcacheNext(i), ~Presents(i), OprNext(i), completes(i), Waiting,
           NEW a, Progress(a), Reads(served.demand)
    PROVE  opr' = IF Second THEN <<a.at, Demanded.at>> ELSE <<Demanded.at, None>>
<1>1. Answering(i) = Demanded /\ Demanded.kind # "walk"
  BY HeldMoves DEF Struct, PortInv, Waiting
<1>2. ~Demanded.write /\ ~meta.walk /\ ~meta.write /\ ~meta.suppress /\ meta.half = Half
  BY DEF Progress, HalfAccess, Reads
<1>3. read_complete(i) /\ rdata(i) = Demanded.at
  BY <1>1, <1>2 DEF read_complete, rdata
<1>4. opr' = IF meta.half = 1 THEN <<Demanded.at, None>> ELSE <<opr[1], Demanded.at>>
  BY <1>2, <1>3 DEF OprNext
<1>5. Second => opr[1] = a.at
  BY DEF Progress
<1> QED  BY <1>2, <1>4, <1>5 DEF Half

\* While the port carries nothing of the demand, neither its accesses nor OPR_R change.
LEMMA Quiet ==
    ASSUME Struct, ServedInv, NEW i, Allowed(i), History(i), OprNext(i), ~Presents(i), ~Waiting
    PROVE  /\ served'.accesses = IF demand_idle THEN << >> ELSE served.accesses
           /\ served'.demand = IF idle_mem_req(i) THEN i.demand ELSE served.demand
           /\ opr' = opr
           /\ ~InCache
<1>1. /\ dcache_req = None \/ dcache = None
      /\ walk_biu_pending <=> Demanded # None /\ Demanded.kind = "walk"
  BY DEF Struct, PortInv
<1>2. ~InCache
  BY <1>1 DEF InCache, Waiting, Demanded
<1>3. Offered(i) = dcache_req
  BY OfferedIs DEF Presents
<1>4. accepted(i) => Offered(i) = Demanded /\ Demanded # None
  BY <1>3 DEF Allowed, accepted, Demanded
<1>5. completes(i) => Demanded # None
  BY <1>4 DEF completes, Demanded
<1>6. accepted(i) => Offered(i).kind = "walk"
  BY <1>4 DEF Waiting
<1>7. opr' = opr
  <2>1. completes(i) => meta.walk
    BY <1>1, <1>5 DEF ServedInv, InService, Waiting
  <2> QED  BY <2>1 DEF OprNext, read_complete
<1> QED  BY <1>2, <1>6, <1>7, ServedMoves

\* The next access of the demand is put in the register.
LEMMA EmitServed ==
    ASSUME Struct, ServedInv, NEW i, Allowed(i), DcacheNext(i), History(i), OprNext(i), ~Presents(i), ~demand_idle,
           Demanded = None, NEW r, r # None, r.kind # "walk", Offer(r),
           meta' = OprMeta(FALSE, meta.write, FALSE, Half), Second' = Second,
           NEW a, Progress(a), HalfAccess(served.demand, Half, r)
    PROVE  Progress(a)'
<1>1. served'.accesses = served.accesses /\ served'.demand = served.demand /\ opr' = opr /\ ~InCache
  BY Quiet DEF Waiting, idle_mem_req, idle_mem_precheck
<1>2. dcache' = None /\ Demanded' = r
  BY OfferPuts
<1>3. ~InCache' /\ Waiting'
  BY <1>2 DEF InCache, Waiting
<1>4. /\ meta'.walk = FALSE /\ meta'.write = meta.write /\ meta'.suppress = FALSE /\ meta'.half = Half
  BY Zenon DEF OprMeta
<1>5. Past(a)' = Past(a) /\ Half' = Half
  BY DEF Past, Half
<1> QED  BY <1>1, <1>2, <1>3, <1>4, <1>5 DEF Progress

\* What the end of a demand owes: its accesses, and for a read their data.
Done == /\ Served(served.demand, served'.accesses)
        /\ Reads(served.demand) =>
              opr' = <<served'.accesses[1].at,
                       IF Crosses(served.demand) THEN served'.accesses[2].at ELSE None>>

LEMMA OneHalf ==
    ASSUME NEW x, ~Crosses(served.demand), HalfAccess(served.demand, 1, x), served'.accesses = Append(<< >>, x),
           Reads(served.demand) => opr' = <<x.at, None>>
    PROVE  Done
<1>1. served'.accesses = <<x>> /\ Len(<<x>>) = 1 /\ DOMAIN <<x>> = {1} /\ <<x>>[1] = x
  OBVIOUS
<1>2. Len(Halves(served.demand)) = 1
  BY HalvesIs
<1>3. Served(served.demand, <<x>>)
  BY <1>1, <1>2 DEF Served, HalfAccess
<1> QED  BY <1>1, <1>3 DEF Done

LEMMA TwoHalves ==
    ASSUME NEW x, NEW y, Crosses(served.demand), HalfAccess(served.demand, 1, x), HalfAccess(served.demand, 2, y),
           served'.accesses = Append(<<x>>, y), Reads(served.demand) => opr' = <<x.at, y.at>>
    PROVE  Done
<1> DEFINE t == Append(<<x>>, y)
<1>1. Len(t) = 2 /\ DOMAIN t = {1, 2} /\ t[1] = x /\ t[2] = y
  <2>1. <<x>> \in Seq({x, y}) /\ y \in {x, y} /\ Len(<<x>>) = 1 /\ <<x>>[1] = x
    OBVIOUS
  <2>2. t \in Seq({x, y}) /\ Len(t) = 2 /\ t[1] = x /\ t[2] = y
    BY <2>1
  <2>3. DOMAIN t = 1 .. 2
    BY <2>2
  <2> QED  BY <2>2, <2>3
<1> HIDE DEF t
<1>2. Len(Halves(served.demand)) = 2
  BY HalvesIs
<1>3. Served(served.demand, t)
  BY <1>1, <1>2 DEF Served, HalfAccess
<1> QED  BY <1>1, <1>3 DEF Done, t

LEMMA IdleServes ==
    ASSUME Struct, ServedInv, NEW i, Allowed(i), Idle(i), DcacheNext(i), History(i), OprNext(i)
    PROVE  InService' /\ (mem_servicing /\ ~mem_servicing' /\ served.demand.op # "check" => Done)
<1> USE DEF Seconds
<1>1. /\ state = "IDLE"
      /\ mem_servicing <=> fast_path_pending
      /\ fast_path_pending <=> Demanded # None
      /\ Demanded # None => Waiting
      /\ ~Second /\ Half = 1 /\ ~req_mem_dcache_candidate
  <2>1. state = "IDLE"
    BY DEF Idle, IdleStay, IdleFetchWalk, IdleGated, IdleIo, IdlePretranslated, IdleEarlyWrite, IdleLookup, CaptureMem
  <2>2. /\ mem_servicing <=> fast_path_pending
        /\ fast_path_pending <=> Demanded # None
        /\ Demanded # None => Waiting
    BY <2>1 DEF Struct, WalkInv, FsmInv, PortInv, Waiting, Walks, Demands, Crossings
  <2> QED  BY <2>1, <2>2 DEF Second, Half, req_mem_dcache_candidate
<1>2. CASE IdleStay(i)
  <2>1. /\ ~Presents(i) /\ Hold(i) /\ meta' = meta /\ state' = "IDLE" /\ ~idle_mem_req(i)
        /\ fast_path_pending' = (fast_path_pending /\ ~completes(i))
        /\ mem_servicing' = (mem_servicing /\ ~(fast_path_pending /\ completes(i)))
    BY <1>1, <1>2 DEF Presents, pretrans_present, early_wr_present, idle_mem_req, IdleStay, InFlight
  <2>2. CASE ~mem_servicing
    BY <1>1, <2>1, <2>2 DEF InService
  <2>3. CASE mem_servicing
    <3>1. ~demand_idle /\ fast_path_pending /\ Waiting /\ ~Crosses(served.demand)
      BY <1>1, <2>3 DEF demand_idle, ServedInv, InService
    <3>2. served'.demand = served.demand
      BY <2>1, ServedMoves
    <3>3. ASSUME served.demand.op # "check"  PROVE \E a : Progress(a)
      BY <2>3, <3>3 DEF ServedInv, InService
    <3>4. CASE ~completes(i)
      <4>1. fast_path_pending' /\ mem_servicing' /\ Second' = Second
        BY <1>1, <2>1, <2>3, <3>1, <3>4 DEF Second
      <4>2. ASSUME served.demand.op # "check"  PROVE (\E a : Progress(a))'
        <5>1. PICK a : Progress(a)
          BY <3>3, <4>2
        <5>2. Progress(a)'
          BY <1>1, <2>1, <3>1, <3>4, <4>1, <5>1, ProgressKept
        <5> QED  BY <5>2
      <4> QED  BY <3>1, <3>2, <4>1, <4>2 DEF InService, Crosses
    <3>5. CASE completes(i)
      <4>1. ~fast_path_pending' /\ ~mem_servicing'
        BY <2>1, <3>1, <3>5
      <4>2. ASSUME served.demand.op # "check"  PROVE Done
        <5>1. PICK a : Progress(a)
          BY <3>3, <4>2
        <5>2. served'.accesses = Append(<< >>, Demanded)
          BY <1>1, <2>1, <3>1, <3>5, <5>1, HeldServed DEF Progress, Past
        <5>3. HalfAccess(served.demand, 1, Demanded)
          BY <1>1, <3>1, <5>1 DEF Progress
        <5>4. Reads(served.demand) => opr' = <<Demanded.at, None>>
          BY <1>1, <2>1, <3>1, <3>5, <5>1, OprTakes
        <5> QED  BY <3>1, <5>2, <5>3, <5>4, OneHalf
      <4> QED  BY <4>1, <4>2 DEF InService
    <3> QED  BY <3>4, <3>5
  <2> QED  BY <2>2, <2>3
<1>3. CASE IdleFetchWalk(i) \/ IdleGated(i) \/ IdleEarlyWrite(i)
  <2>1. ~mem_servicing' /\ ~fast_path_pending' /\ ~mem_servicing
    <3>1. UNCHANGED <<mem_servicing, fast_path_pending>>
      BY <1>3 DEF IdleFetchWalk, IdleGated, IdleEarlyWrite, Goto
    <3>2. ~fast_path_pending
      BY <1>1, <1>3 DEF IdleFetchWalk, IdleGated, IdleEarlyWrite, CaptureMem, idle_pf_req, idle_mem_req,
                        idle_mem_precheck, demand_idle
    <3> QED  BY <1>1, <3>1, <3>2
  <2> QED  BY <2>1 DEF InService
<1>4. ASSUME idle_mem_req(i)
      PROVE  /\ demand_idle /\ ~mem_servicing /\ Demanded = None /\ ~Waiting /\ dcache = None
             /\ served'.demand = i.demand /\ i.demand # None
  BY <1>1, <1>4, ServedMoves DEF idle_mem_req, idle_mem_precheck, demand_idle, Waiting, Demanded
<1>5. CASE IdleIo(i)
  <2>1. /\ ~Presents(i) /\ demand_idle /\ i.demand # None /\ i.demand.kind # "mem" /\ idle_mem_req(i)
        /\ mem_servicing' = TRUE
    BY <1>1, <1>5 DEF Presents, pretrans_present, early_wr_present, idle_mem_req, IdleIo, idle_mem_precheck
  <2> DEFINE r == IoAccess(i.demand.op = "write", 1)
  <2>2. r.kind = "io" /\ r.write = (i.demand.op = "write") /\ r.at = 1 /\ r \in Access
    BY Zenon DEF IoAccess, Access
  <2>3. r # None /\ Offer(r)
    BY <1>5, <2>2, NoneAssumption DEF IdleIo
  <2>4. /\ meta'.walk = FALSE /\ meta'.write = (i.demand.op = "write") /\ meta'.suppress = (i.demand.kind = "inta")
        /\ meta'.half = 1
    <3>1. meta' = OprMeta(FALSE, i.demand.op = "write", i.demand.kind = "inta", 1)
      BY <1>5 DEF IdleIo
    <3> QED  BY <3>1, Zenon DEF OprMeta
  <2> HIDE DEF r
  <2>5. Demanded' = r /\ dcache' = None
    BY <1>4, <2>1, <2>3, OfferPuts
  <2>6. served'.accesses = << >> /\ served'.demand = i.demand
    BY <1>4, <2>1, Quiet
  <2>7. state' \in {"IDLE", "CROSS_WAIT1"} /\ (fast_path_pending' => ~Crosses(i.demand))
    BY <1>1, <1>4, <1>5, <2>1 DEF IdleIo
  <2>8. ~Second' /\ Half' = 1 /\ ~InCache'
    BY <2>5, <2>7 DEF Second, Half, InCache
  <2>9. ASSUME NEW a  PROVE Progress(a)'
    BY <2>1, <2>2, <2>4, <2>5, <2>6, <2>8 DEF Progress, Past, HalfAccess, Reads, Waiting
  <2> QED  BY <1>4, <2>1, <2>6, <2>7, <2>9 DEF InService, Crosses
<1>6. CASE IdlePretranslated(i)
  <2>1. /\ pretrans_present(i) /\ accepted(i) /\ Presents(i) /\ idle_mem_req(i) /\ Hold(i)
        /\ state' = "IDLE" /\ mem_servicing' = TRUE
        /\ i.demand.kind = "mem" /\ i.demand.op = "read" /\ ~Crosses(i.demand)
    BY <1>6 DEF IdlePretranslated, CaptureMem, Presents, pretrans_present
  <2>2. /\ Offered(i).kind = "mem" /\ Offered(i).write = FALSE /\ Offered(i).page = i.demand.page
        /\ Offered(i) # None
    BY <2>1, PresentedIs DEF Allowed, accepted
  <2>3. dcache_req' = None /\ Demanded' = Offered(i)
    BY <1>4, <2>1, <2>2, PresentMoves
  <2>4. dcache' = Offered(i)
    BY <2>3 DEF Demanded
  <2>5. meta'.walk = FALSE /\ meta'.write = (i.demand.op = "write") /\ meta'.suppress = FALSE /\ meta'.half = 1
    <3>1. meta' = MemMeta(i)
      BY <1>6 DEF IdlePretranslated
    <3> QED  BY <3>1, Zenon DEF MemMeta, OprMeta
  <2>6. served'.accesses = Append(<< >>, Offered(i)) /\ served'.demand = i.demand
    BY <1>4, <2>1, <2>2, ServedMoves
  <2>7. ~Second' /\ Half' = 1 /\ InCache'
    BY <2>1, <2>2, <2>4 DEF Second, Half, InCache
  <2>8. Halves(i.demand)[1] = i.demand.page
    BY HalvesIs
  <2>9. ASSUME NEW a  PROVE Progress(a)'
    BY <2>1, <2>2, <2>3, <2>4, <2>5, <2>6, <2>7, <2>8 DEF Progress, Past, HalfAccess, Reads, Waiting
  <2> QED  BY <1>4, <2>1, <2>6, <2>9 DEF InService, Crosses
<1>7. CASE IdleLookup(i)
  <2>1. /\ ~accepted(i) /\ idle_mem_req(i) /\ Hold(i) /\ state' = "MEM_TLB" /\ mem_servicing' = TRUE
        /\ fast_path_pending' = fast_path_pending
    BY <1>7 DEF IdleLookup, CaptureMem
  <2>2. Demanded' = None
    <3>1. CASE Presents(i)
      BY <1>4, <2>1, <3>1, PresentMoves
    <3>2. CASE ~Presents(i)
      BY <1>4, <2>1, <3>2, HeldMoves DEF Struct, PortInv
    <3> QED  BY <3>1, <3>2
  <2>3. meta'.write = (i.demand.op = "write")
    BY <1>7 DEF IdleLookup, Struct, TypeInv, TypeOK, Meta
  <2>4. served'.accesses = << >> /\ served'.demand = i.demand
    BY <1>4, <2>1, ServedMoves
  <2>5. ~Second' /\ ~InCache' /\ ~Waiting'
    BY <2>1, <2>2 DEF Second, InCache, Waiting, Demanded
  <2>6. ASSUME NEW a  PROVE Progress(a)'
    BY <2>3, <2>4, <2>5 DEF Progress, Past, Reads
  <2> QED  BY <1>1, <1>4, <2>1, <2>6 DEF InService
<1> QED  BY <1>2, <1>3, <1>5, <1>6, <1>7 DEF Idle

LEMMA MemTlbServes ==
    ASSUME Struct, DemandInv, ServedInv, NEW i, Allowed(i), MemTlb(i), DcacheNext(i), History(i), OprNext(i)
    PROVE  /\ InService'
           /\ mem_servicing /\ ~mem_servicing' /\ page_fault' = None /\ served.demand.op # "check" => Done
<1> USE DEF Seconds
<1>1. /\ state = "MEM_TLB" /\ mem_servicing /\ ~fast_path_pending /\ ~demand_idle
      /\ Demanded = None /\ ~Waiting /\ ~InCache /\ dcache = None
      /\ served.demand = req /\ req.kind = "mem"
      /\ ~Second /\ Half = 1
  <2>1. state = "MEM_TLB"
    BY DEF MemTlb
  <2>2. mem_servicing /\ ~fast_path_pending /\ req.kind = "mem" /\ Demanded = None /\ served.demand = req
    BY <2>1 DEF Struct, WalkInv, FsmInv, PortInv, DemandInv, Walks, Demands, Crossings
  <2> QED  BY <2>1, <2>2 DEF Second, Half, Waiting, InCache, Demanded, demand_idle
<1>2. ~pretrans_present(i) /\ ~early_wr_present(i) /\ ~idle_mem_req(i)
  BY <1>1, PresentsWhen DEF idle_mem_req, idle_mem_precheck
<1>3. served'.demand = req
  BY <1>1, <1>2, ServedMoves
<1>4. CASE LookupFault(i) \/ LookupChecked(i)
  <2>1. CASE LookupFault(i)
    <3>1. req \in Demand /\ AskInv
      BY DEF Struct, TypeInv, TypeOK
    <3>2. req.page \in Pages /\ perm_fault_code \in FaultCode
      BY <3>1, FaultCodes DEF Demand
    <3>3. ~mem_servicing' /\ fast_path_pending' = fast_path_pending /\ page_fault' # None
      BY <2>1, <3>2, FaultRaised DEF LookupFault
    <3> QED  BY <1>1, <3>3 DEF InService
  <2>2. CASE LookupChecked(i)
    <3>1. req.op = "check" /\ fast_path_pending' = fast_path_pending
      BY <2>2 DEF LookupChecked, Goto, complete_mem_request
    <3> QED  BY <1>1, <1>3, <3>1 DEF InService
  <2> QED  BY <1>4, <2>1, <2>2
<1>5. ASSUME req.op # "check"
      PROVE  served.accesses = << >> /\ (Reads(req) => ~meta.write)
  BY <1>1, <1>5 DEF ServedInv, InService, Progress, Past
<1>6. CASE LookupMiss(i) \/ LookupWait(i)
  <2>1. /\ state' \in {"MEM_TLB", "WALKING"} /\ UNCHANGED <<mem_servicing, fast_path_pending>> /\ meta' = meta
        /\ Hold(i)
    BY <1>6 DEF LookupMiss, LookupWait, Goto
  <2>2. Demanded' = None /\ ~accepted(i)
    <3>1. CASE Presents(i)
      <4>1. ~accepted(i)
        BY <1>2, <1>6, <3>1 DEF LookupMiss, LookupWait, Presents, req_mem_dcache_candidate
      <4> QED  BY <1>1, <2>1, <3>1, <4>1, PresentMoves
    <3>2. CASE ~Presents(i)
      BY <1>1, <2>1, <3>2, HeldMoves DEF Struct, PortInv
    <3> QED  BY <3>1, <3>2
  <2>3. served'.accesses = served.accesses
    BY <1>1, <2>2, ServedMoves
  <2>4. ~Second' /\ ~InCache' /\ ~Waiting'
    BY <2>1, <2>2 DEF Second, InCache, Waiting, Demanded
  <2>5. ASSUME NEW a, req.op # "check"  PROVE Progress(a)'
    BY <1>3, <1>5, <2>1, <2>3, <2>4, <2>5 DEF Progress, Past
  <2> QED  BY <1>1, <1>3, <2>1, <2>5 DEF InService
<1>7. CASE LookupAccess(i)
  <2>1. /\ req_mem_dcache_candidate /\ accepted(i) /\ Hold(i) /\ Presents(i) /\ req.op # "check"
        /\ ~Crosses(req) => /\ state' = "IDLE" /\ mem_servicing' = (req.op # "write")
                            /\ fast_path_pending' = (req.op # "write")
        /\ Crosses(req) => /\ state' = IF req.op = "write" THEN "CROSS_PREP2" ELSE "CROSS_WAIT1"
                           /\ UNCHANGED <<mem_servicing, fast_path_pending>>
    BY <1>7 DEF LookupAccess, req_mem_dcache_candidate, Presents, Goto
  <2>2. meta'.walk = FALSE /\ meta'.write = meta.write /\ meta'.suppress = FALSE /\ meta'.half = 1
    <3>1. meta' = OprMeta(FALSE, meta.write, FALSE, 1)
      BY <1>7 DEF LookupAccess
    <3> QED  BY <3>1, Zenon DEF OprMeta
  <2>3. /\ Offered(i).kind = "mem" /\ Offered(i).write = (req.op = "write") /\ Offered(i).page = req.page
        /\ Offered(i) # None
    BY <2>1, PresentedIs DEF Allowed, accepted
  <2>4. HalfAccess(req, 1, Offered(i))
    <3>1. Halves(req)[1] = req.page
      BY HalvesIs
    <3> QED  BY <1>1, <2>3, <3>1 DEF HalfAccess
  <2>5. dcache_req' = None /\ Demanded' = IF req.op = "write" THEN None ELSE Offered(i)
    BY <1>1, <2>1, <2>3, PresentMoves
  <2>6. served'.accesses = Append(<< >>, Offered(i))
    <3>1. served.accesses = << >>
      BY <1>5, <2>1
    <3>2. accepted(i) /\ Offered(i).kind # "walk"
      BY <2>1, <2>3
    <3> QED  BY <3>1, <3>2, ServedMoves
  <2>7. CASE req.op = "write" /\ ~Crosses(req)
    <3>1. ~Reads(req)
      BY <2>7 DEF Reads
    <3>2. Done
      BY <1>1, <2>4, <2>6, <2>7, <3>1, OneHalf
    <3> QED  BY <2>1, <2>7, <3>2 DEF InService
  <2>8. CASE req.op = "write" /\ Crosses(req)
    <3>1. /\ Second' /\ ~InCache' /\ ~Waiting' /\ ~Reads(req)
          /\ UNCHANGED <<mem_servicing, fast_path_pending>>
      BY <2>1, <2>5, <2>8 DEF Second, InCache, Waiting, Demanded, Reads
    <3>2. PICK a : a = Offered(i)
      OBVIOUS
    <3>3. served'.accesses = <<a>> /\ HalfAccess(req, 1, a)
      BY <2>4, <2>6, <3>2
    <3>4. Progress(a)'
      BY <1>3, <3>1, <3>3 DEF Progress, Past
    <3> QED  BY <1>1, <3>1, <3>4 DEF InService
  <2>9. CASE req.op # "write"
    <3>1. ~Second' /\ Half' = 1 /\ InCache' /\ dcache' = Offered(i) /\ Waiting'
      BY <2>1, <2>3, <2>5, <2>9 DEF Second, Half, InCache, Waiting, Demanded
    <3>2. ASSUME NEW a  PROVE Progress(a)'
      BY <1>3, <1>5, <2>1, <2>2, <2>4, <2>5, <2>6, <2>9, <3>1 DEF Progress, Past
    <3>3. mem_servicing' /\ (fast_path_pending' => ~Crosses(req))
      <4>1. CASE Crosses(req)
        <5>1. mem_servicing' = mem_servicing /\ fast_path_pending' = fast_path_pending
          BY <2>1, <4>1
        <5> QED  BY <1>1, <5>1
      <4>2. CASE ~Crosses(req)
        BY <2>1, <2>9, <4>2
      <4> QED  BY <4>1, <4>2
    <3> QED  BY <1>3, <3>2, <3>3 DEF InService, Crosses
  <2> QED  BY <2>7, <2>8, <2>9
<1> QED  BY <1>4, <1>6, <1>7 DEF MemTlb

LEMMA WalkServes ==
    ASSUME Struct, DemandInv, ServedInv, NEW i, Allowed(i), Clock(i), Walking(i) \/ CrossWalk2(i)
    PROVE  /\ InService'
           /\ mem_servicing /\ ~mem_servicing' /\ page_fault' = None /\ served.demand.op # "check" => Done
<1> USE DEF Seconds
<1>0. /\ DcacheNext(i) /\ History(i) /\ OprNext(i) /\ LookupAddress(i) /\ UNCHANGED <<pg_enable, wp_enable>>
      /\ TypeOK /\ WalkInv /\ FsmInv /\ PortInv /\ AskInv /\ LatchInv
  BY DEF Clock, Struct, TypeInv
<1>1. /\ state \in {"WALKING", "CROSS_WALK2"} /\ mem_servicing /\ ~fast_path_pending /\ ~demand_idle
      /\ ~Waiting /\ served.demand = req /\ req.kind = "mem" /\ ~Presents(i) /\ ~idle_mem_req(i)
      /\ Half = IF state = "WALKING" THEN 1 ELSE 2
      /\ state = "CROSS_WALK2" => Crosses(req)
  <2>1. state \in {"WALKING", "CROSS_WALK2"}
    BY DEF Walking, CrossWalk2
  <2>2. mem_servicing /\ ~fast_path_pending /\ req.kind = "mem" /\ ~Waiting /\ served.demand = req
        /\ (state = "CROSS_WALK2" => Crosses(req))
    BY <1>0, <2>1 DEF FsmInv, PortInv, DemandInv, Demands, Crossings, Waiting
  <2>3. ~demand_idle /\ ~idle_mem_req(i)
    BY <2>1 DEF demand_idle, s_idle, idle_mem_req, idle_mem_precheck
  <2>4. ~Presents(i)
    BY <2>1, <2>3, PresentsWhen
  <2> QED  BY <2>1, <2>2, <2>3, <2>4 DEF Second, Half
<1>2. served'.accesses = served.accesses /\ served'.demand = req /\ opr' = opr /\ ~InCache
  BY <1>0, <1>1, Quiet
<1>3. CASE ~walk_done
  <2>1. UNCHANGED control /\ WalkerPort(i)
    BY <1>3, Zenon DEF Walking, CrossWalk2, WalkRuns, WalkFaults
  <2>2. UNCHANGED <<state, mem_servicing, fast_path_pending>>
    BY <2>1 DEF control
  <2>3. Awaited'
    BY <1>0, WalkingKeeps
  <2>4. ~Waiting' /\ ~InCache'
    <3>1. ~Waiting'
      BY <1>1, <2>2, <2>3 DEF Awaited, Waiting, Crossings
    <3>2. dcache' # None => Demanded' = dcache'
      BY <2>3 DEF Awaited, Demanded
    <3> QED  BY <3>1, <3>2 DEF Waiting, InCache
  <2>5. meta'.write => meta.write
    <3>1. CASE walker_issue_ready
      <4>1. meta' = OprMeta(TRUE, FALSE, FALSE, 1)
        BY <2>1, <3>1 DEF WalkerPort
      <4> QED  BY <4>1, Zenon DEF OprMeta
    <3>2. CASE ~walker_issue_ready
      BY <2>1, <3>2 DEF WalkerPort
    <3> QED  BY <3>1, <3>2
  <2>6. Second' = Second
    BY <2>2 DEF Second
  <2>7. ASSUME NEW a, Progress(a)  PROVE Progress(a)'
    BY <1>1, <1>2, <2>4, <2>5, <2>6, <2>7 DEF Progress, Past
  <2>8. ASSUME req.op # "check"  PROVE (\E a : Progress(a))'
    <3>1. PICK a : Progress(a)
      BY <1>1, <2>8 DEF ServedInv, InService
    <3>2. Progress(a)'
      BY <2>7, <3>1
    <3> QED  BY <3>2
  <2> QED  BY <1>1, <1>2, <2>2, <2>8 DEF InService
<1>4. CASE walk_done /\ walk_fault
  <2>1. PICK page \in Pages : WalkFaults(i, page)
    <3>1. req.page \in Pages /\ (state = "CROSS_WALK2" => req.second \in Pages)
      <4>1. req \in Demand
        BY <1>0 DEF TypeOK
      <4> QED  BY <1>1, <4>1 DEF Demand, Crosses
    <3>2. CASE Walking(i)
      <4>1. WalkFaults(i, req.page)
        BY <1>4, <3>2, Zenon DEF Walking, WalkRuns
      <4> QED  BY <3>1, <4>1
    <3>3. CASE CrossWalk2(i)
      <4>1. WalkFaults(i, req.second) /\ state = "CROSS_WALK2"
        BY <1>4, <3>3, Zenon DEF CrossWalk2, WalkRuns
      <4> QED  BY <3>1, <4>1
    <3> QED  BY <3>2, <3>3
  <2>2. walk_fault_code \in FaultCode
    BY <1>0, <1>4, FaultCodes DEF TypeOK
  <2>3. ~mem_servicing' /\ fast_path_pending' = fast_path_pending /\ page_fault' # None
    BY <2>1, <2>2, FaultRaised DEF WalkFaults
  <2> QED  BY <1>1, <2>3 DEF InService
<1>5. CASE walk_done /\ ~walk_fault /\ req.op = "check"
  <2>1. fast_path_pending' = fast_path_pending
    BY <1>5, Zenon DEF Walking, CrossWalk2, WalkRuns, WalkFaults, Goto, complete_mem_request
  <2> QED  BY <1>1, <1>2, <1>5, <2>1 DEF InService
<1>6. CASE walk_done /\ ~walk_fault /\ req.op # "check"
  <2>1. Demanded = None
    <3>1. ~walk_biu_pending
      BY <1>0, <1>6 DEF WalkInv, walk_done, Waits
    <3> QED  BY <1>0, <1>1, <3>1 DEF PortInv, Waiting
  <2> DEFINE page == IF state = "WALKING" THEN req.page ELSE req.second
             r == MemAccess(req.op = "write", page, result.frame, req.user)
  <2>2. /\ WalkEmits(page, Half) /\ mem_servicing' = mem_servicing /\ Second' = Second
        /\ fast_path_pending' => ~Crosses(req)
    <3>1. CASE Walking(i)
      <4>1. /\ state = "WALKING" /\ WalkEmits(req.page, 1)
            /\ IF Crosses(req) THEN Goto("CROSS_WAIT1")
               ELSE state' = "IDLE" /\ fast_path_pending' = TRUE /\ UNCHANGED mem_servicing
        BY <1>6, <3>1, Zenon DEF Walking, WalkRuns, WalkFaults
      <4>2. state' \in {"IDLE", "CROSS_WAIT1"} /\ mem_servicing' = mem_servicing
            /\ (fast_path_pending' => ~Crosses(req))
        BY <1>1, <4>1 DEF Goto
      <4>3. Second' = Second
        BY <4>1, <4>2 DEF Second
      <4> QED  BY <1>1, <4>1, <4>2, <4>3
    <3>2. CASE CrossWalk2(i)
      <4>1. state = "CROSS_WALK2" /\ WalkEmits(req.second, 2) /\ Goto("CROSS_WAIT2")
        BY <1>6, <3>2, Zenon DEF CrossWalk2, WalkRuns, WalkFaults
      <4>2. Second' = Second
        BY <4>1 DEF Second, Goto
      <4> QED  BY <1>1, <4>1, <4>2 DEF Goto
    <3> QED  BY <3>1, <3>2
  <2>3. page \in Pages /\ page = Halves(req)[Half]
    <3>1. req \in Demand
      BY <1>0 DEF TypeOK
    <3> QED  BY <1>1, <3>1, HalvesIs DEF Demand, Crosses
  <2>4. result.frame \in Frames
    <3>1. w_state = "DONE"
      BY <1>6 DEF walk_done, walk_fault
    <3> QED  BY <1>0, <3>1, ResultIs DEF Translation
  <2>5. r.kind = "mem" /\ r.write = (req.op = "write") /\ r.page = page
    BY Zenon DEF MemAccess
  <2>6. r # None
    BY <2>3, <2>4, MemAccessType, Zenon
  <2>7. Offer(r) /\ meta' = OprMeta(FALSE, meta.write, FALSE, Half)
    BY <2>2 DEF WalkEmits
  <2> HIDE DEF page, r
  <2>8. HalfAccess(served.demand, Half, r)
    BY <1>1, <2>3, <2>5 DEF HalfAccess
  <2>9. PICK a : Progress(a)
    BY <1>1, <1>6 DEF ServedInv, InService
  <2>10. Progress(a)'
    BY <1>0, <1>1, <2>1, <2>2, <2>5, <2>6, <2>7, <2>8, <2>9, EmitServed
  <2> QED  BY <1>1, <1>2, <2>2, <2>10 DEF InService, Crosses
<1> QED  BY <1>3, <1>4, <1>5, <1>6

LEMMA SecondServes ==
    ASSUME Struct, DemandInv, ServedInv, NEW i, Allowed(i), Clock(i),
           CrossWait1(i) \/ CrossPrep2(i) \/ CrossTlb2(i) \/ CrossWait2(i)
    PROVE  /\ InService'
           /\ mem_servicing /\ ~mem_servicing' /\ page_fault' = None /\ served.demand.op # "check" => Done
<1> USE DEF Seconds
<1>0. /\ DcacheNext(i) /\ History(i) /\ OprNext(i) /\ req \in Demand
      /\ WalkInv /\ FsmInv /\ PortInv /\ AskInv
  BY DEF Clock, Struct, TypeInv, TypeOK
<1>1. /\ state \in {"CROSS_WAIT1", "CROSS_PREP2", "CROSS_TLB2", "CROSS_WAIT2"}
      /\ mem_servicing /\ ~fast_path_pending /\ ~demand_idle /\ ~Presents(i) /\ ~idle_mem_req(i)
      /\ served.demand = req /\ Crosses(req)
      /\ Demanded = None \/ Waiting
      /\ Second <=> state # "CROSS_WAIT1"
  <2>1. state \in {"CROSS_WAIT1", "CROSS_PREP2", "CROSS_TLB2", "CROSS_WAIT2"}
    BY DEF CrossWait1, CrossPrep2, CrossTlb2, CrossWait2
  <2>2. /\ mem_servicing /\ ~fast_path_pending /\ served.demand = req /\ Crosses(req)
        /\ Demanded = None \/ Waiting
    BY <1>0, <2>1 DEF WalkInv, FsmInv, PortInv, DemandInv, Demands, Crossings, Waiting, Walks
  <2>3. ~demand_idle /\ ~idle_mem_req(i)
    BY <2>1 DEF demand_idle, s_idle, idle_mem_req, idle_mem_precheck
  <2>4. ~Presents(i)
    BY <2>1, <2>3, PresentsWhen
  <2> QED  BY <2>1, <2>2, <2>3, <2>4 DEF Second
<1>2. served'.demand = req
  BY <1>0, <1>1, ServedMoves
<1>3. ASSUME req.op # "check"  PROVE \E a : Progress(a)
  BY <1>1, <1>3 DEF ServedInv, InService
\* The demand stays in service, and only its progress is left to show.
<1>4. ASSUME mem_servicing' = mem_servicing, fast_path_pending' = fast_path_pending,
             req.op # "check" => (\E a : Progress(a))'
      PROVE  InService' /\ mem_servicing'
  BY <1>1, <1>2, <1>4 DEF InService
<1>5. ASSUME mem_servicing' = mem_servicing, fast_path_pending' = fast_path_pending,
             Hold(i), ~completes(i), meta' = meta, Second' = Second
      PROVE  InService' /\ mem_servicing'
  <2>1. ASSUME req.op # "check"  PROVE (\E a : Progress(a))'
    <3>1. PICK a : Progress(a)
      BY <1>3, <2>1
    <3>2. Progress(a)'
      BY <1>0, <1>1, <1>5, <3>1, ProgressKept
    <3> QED  BY <3>2
  <2> QED  BY <1>4, <1>5, <2>1
<1>6. CASE CrossWait1(i)
  <2>1. /\ state = "CROSS_WAIT1" /\ Hold(i) /\ meta' = meta /\ req.op # "check"
        /\ state' = IF completes(i) THEN "CROSS_PREP2" ELSE state
        /\ mem_servicing' = mem_servicing /\ fast_path_pending' = fast_path_pending
    BY <1>0, <1>6 DEF CrossWait1, Goto, FsmInv
  <2>2. CASE ~completes(i)
    <3>1. Second' = Second
      BY <2>1, <2>2 DEF Second
    <3> QED  BY <1>5, <2>1, <2>2, <3>1
  <2>3. CASE completes(i)
    <3>1. PICK b : Progress(b)
      BY <1>3, <2>1
    <3>2. /\ served'.accesses = Append(<< >>, Demanded) /\ Waiting
          /\ HalfAccess(req, 1, Demanded)
      <4>1. served.accesses = IF InCache THEN Append(<< >>, dcache) ELSE << >>
        BY <1>1, <2>1, <3>1 DEF Progress, Past
      <4>2. served'.accesses = Append(<< >>, Demanded) /\ Waiting
        BY <1>0, <1>1, <2>1, <2>3, <4>1, HeldServed
      <4> QED  BY <1>1, <2>1, <3>1, <4>2 DEF Progress, Half
    <3>3. Reads(req) => opr' = <<Demanded.at, None>> /\ ~meta.write
      BY <1>0, <1>1, <2>1, <2>3, <3>1, <3>2, OprTakes DEF Progress
    <3>4. Demanded' = None
      BY <1>0, <1>1, <2>1, <2>3, HeldMoves DEF PortInv
    <3>5. Second' /\ ~Waiting' /\ ~InCache'
      BY <2>1, <2>3, <3>4 DEF Second, Waiting, InCache, Demanded
    <3>6. PICK a : a = Demanded
      OBVIOUS
    <3>7. served'.accesses = <<a>> /\ HalfAccess(req, 1, a) /\ (Reads(req) => opr' = <<a.at, None>>)
      BY <3>2, <3>3, <3>6
    <3>8. Progress(a)'
      BY <1>2, <2>1, <3>3, <3>5, <3>7 DEF Progress, Past
    <3> QED  BY <1>4, <2>1, <3>8
  <2> QED  BY <2>2, <2>3
<1>7. ASSUME state \in {"CROSS_PREP2", "CROSS_TLB2"}  PROVE Demanded = None /\ ~completes(i)
  <2>1. Demanded = None
    BY <1>0, <1>1, <1>7 DEF PortInv, WalkInv, Walks, Crossings
  <2>2. Offered(i) = None /\ dcache = None
    BY <1>1, <2>1, OfferedIs DEF Presents, Demanded
  <2> QED  BY <2>1, <2>2 DEF completes, accepted, Allowed
<1>8. CASE CrossPrep2(i)
  <2>1. /\ state = "CROSS_PREP2" /\ state' = "CROSS_TLB2" /\ Hold(i) /\ meta' = meta
        /\ mem_servicing' = mem_servicing /\ fast_path_pending' = fast_path_pending
    BY <1>8 DEF CrossPrep2, Goto
  <2>2. Second' = Second
    BY <2>1 DEF Second
  <2> QED  BY <1>5, <1>7, <2>1, <2>2
<1>9. CASE CrossTlb2(i)
  <2>1. state = "CROSS_TLB2" /\ Second /\ Half = 2 /\ Halves(req)[2] = req.second
    BY <1>1, <1>9, HalvesIs DEF CrossTlb2, Half
  <2>2. ASSUME NEW r, r # None, r.kind # "walk", EmitSecondHalf(r), HalfAccess(req, 2, r)
        PROVE  InService' /\ mem_servicing'
    <3>1. /\ Offer(r) /\ meta' = OprMeta(FALSE, meta.write, FALSE, 2) /\ state' = "CROSS_WAIT2"
          /\ mem_servicing' = mem_servicing /\ fast_path_pending' = fast_path_pending
      BY <2>2 DEF EmitSecondHalf, Goto
    <3>2. Second' = Second
      BY <2>1, <3>1 DEF Second
    <3>3. ASSUME req.op # "check"  PROVE (\E a : Progress(a))'
      <4>1. PICK a : Progress(a)
        BY <1>3, <3>3
      <4>2. Progress(a)'
        BY <1>0, <1>1, <1>7, <2>1, <2>2, <3>1, <3>2, <4>1, EmitServed
      <4> QED  BY <4>2
    <3> QED  BY <1>4, <3>1, <3>3
  <2>3. CASE req.kind # "mem" /\ EmitSecondHalf(IoAccess(req.op = "write", 2))
    <3> DEFINE r == IoAccess(req.op = "write", 2)
    <3>1. r.kind = "io" /\ r.write = (req.op = "write") /\ r.at = 2 /\ r \in Access
      BY Zenon DEF IoAccess, Access
    <3> HIDE DEF r
    <3>2. HalfAccess(req, 2, r) /\ r # None /\ r.kind # "walk"
      BY <2>3, <3>1, NoneAssumption DEF HalfAccess
    <3>3. EmitSecondHalf(r)
      BY <2>3 DEF r
    <3> QED  BY <2>2, <3>2, <3>3
  <2>4. CASE /\ req.kind = "mem" /\ req_can_translate
             /\ EmitSecondHalf(MemAccess(req.op = "write", req.second, TlbFrame(req.second), req.user))
    <3> DEFINE r == MemAccess(req.op = "write", req.second, TlbFrame(req.second), req.user)
    <3>1. r.kind = "mem" /\ r.write = (req.op = "write") /\ r.page = req.second
      BY Zenon DEF MemAccess
    <3>2. req.second \in Pages /\ TlbFrame(req.second) \in Frames
      BY <1>0, <1>1, <2>4, PagingAssumption
         DEF Struct, TypeInv, TypeOK, Demand, Crosses, TlbFrame, req_can_translate, tlb_hit, Translation
    <3>3. r # None
      BY <3>2, MemAccessType, Zenon
    <3> HIDE DEF r
    <3>4. HalfAccess(req, 2, r)
      BY <2>1, <2>4, <3>1 DEF HalfAccess
    <3>5. EmitSecondHalf(r)
      BY <2>4 DEF r
    <3> QED  BY <2>2, <3>1, <3>3, <3>4, <3>5
  <2>5. CASE req.op = "check" /\ fast_path_pending' = fast_path_pending
    BY <1>1, <1>2, <2>5 DEF InService
  <2>6. CASE raise_fault(req.second, perm_fault_code)
    <3>1. req.second \in Pages /\ perm_fault_code \in FaultCode
      BY <1>0, <1>1, FaultCodes DEF Demand, Crosses
    <3>2. ~mem_servicing' /\ fast_path_pending' = fast_path_pending /\ page_fault' # None
      BY <2>6, <3>1, FaultRaised
    <3> QED  BY <1>1, <3>2 DEF InService
  <2>7. CASE /\ Hold(i) /\ state' = "CROSS_WALK2" /\ meta' = meta
             /\ mem_servicing' = mem_servicing /\ fast_path_pending' = fast_path_pending
    <3>1. Second' = Second
      BY <2>1, <2>7 DEF Second
    <3> QED  BY <1>5, <1>7, <2>1, <2>7, <3>1
  <2>8. \/ req.kind # "mem" /\ EmitSecondHalf(IoAccess(req.op = "write", 2))
        \/ /\ req.kind = "mem" /\ req_can_translate
           /\ EmitSecondHalf(MemAccess(req.op = "write", req.second, TlbFrame(req.second), req.user))
        \/ req.op = "check" /\ fast_path_pending' = fast_path_pending
        \/ raise_fault(req.second, perm_fault_code)
        \/ /\ Hold(i) /\ state' = "CROSS_WALK2" /\ meta' = meta
           /\ mem_servicing' = mem_servicing /\ fast_path_pending' = fast_path_pending
    BY <1>9, Zenon DEF CrossTlb2, complete_mem_request, Goto
  <2> QED  BY <2>3, <2>4, <2>5, <2>6, <2>7, <2>8
<1>10. CASE CrossWait2(i)
  <2>1. /\ state = "CROSS_WAIT2" /\ Hold(i) /\ meta' = meta /\ req.op # "check" /\ Second /\ Half = 2
    BY <1>0, <1>1, <1>10 DEF CrossWait2, FsmInv, Half
  <2>2. CASE ~completes(i)
    <3>1. UNCHANGED <<state, mem_servicing, fast_path_pending>>
      BY <1>10, <2>2 DEF CrossWait2, control
    <3>2. Second' = Second
      BY <3>1 DEF Second
    <3> QED  BY <1>5, <2>1, <2>2, <3>1, <3>2
  <2>3. CASE completes(i)
    <3>1. ~mem_servicing' /\ fast_path_pending' = fast_path_pending
      BY <1>10, <2>3 DEF CrossWait2, complete_mem_request
    <3>2. PICK a : Progress(a)
      BY <1>3, <2>1
    <3>3. served'.accesses = Append(<<a>>, Demanded) /\ Waiting
      <4>1. served.accesses = IF InCache THEN Append(<<a>>, dcache) ELSE <<a>>
        BY <2>1, <3>2 DEF Progress, Past
      <4> QED  BY <1>0, <1>1, <2>1, <2>3, <4>1, HeldServed
    <3>4. HalfAccess(req, 1, a) /\ HalfAccess(req, 2, Demanded)
      BY <1>1, <2>1, <3>2, <3>3 DEF Progress
    <3>5. Reads(req) => opr' = <<a.at, Demanded.at>>
      BY <1>0, <1>1, <2>1, <2>3, <3>2, <3>3, OprTakes
    <3>6. Done
      BY <1>1, <3>3, <3>4, <3>5, TwoHalves
    <3> QED  BY <1>1, <3>1, <3>6 DEF InService
  <2> QED  BY <2>2, <2>3
<1> QED  BY <1>6, <1>8, <1>9, <1>10

LEMMA MetaWalks ==
    ASSUME Struct, ServedInv, NEW i, Allowed(i), Clock(i), walk_biu_pending'
    PROVE  meta'.walk
<1>0. /\ DcacheNext(i) /\ LookupAddress(i) /\ UNCHANGED <<pg_enable, wp_enable>> /\ Fsm(i)
      /\ TypeOK /\ WalkInv /\ FsmInv /\ PortInv /\ AskInv /\ LatchInv
  BY DEF Clock, Struct, TypeInv
<1>1. CASE state \notin Walks
  <2>1. ~walk_biu_pending
    BY <1>0, <1>1 DEF WalkInv
  <2>2. walk_biu_pending' = walk_biu_pending
    BY <1>0, <1>1 DEF Walks, Fsm, Idle, MemTlb, Walking, CrossWait1, CrossPrep2, CrossTlb2, CrossWalk2, CrossWait2,
                      PfWalking, PfBiuWait
  <2> QED  BY <2>1, <2>2
<1>2. CASE state \in Walks
  <2>1. Walking(i) \/ CrossWalk2(i) \/ PfWalking(i)
    BY <1>0, <1>2, FsmIs DEF Walks
  <2>2. \/ walker_issue_ready
        \/ walk_biu_pending
    BY <1>0, <2>1, WalkingKeeps
  <2>3. ~walk_done
    BY <1>0, <2>2 DEF WalkInv, Waits, walk_done, walker_issue_ready, mem_rd, mem_wr
  <2>4. WalkerPort(i)
    BY <2>1, <2>3, Zenon DEF Walking, CrossWalk2, PfWalking, WalkRuns, WalkFaults
  <2>5. CASE walker_issue_ready
    <3>1. meta' = OprMeta(TRUE, FALSE, FALSE, 1)
      BY <2>4, <2>5 DEF WalkerPort
    <3> QED  BY <3>1, Zenon DEF OprMeta
  <2>6. CASE ~walker_issue_ready
    <3>1. meta' = meta
      BY <2>4, <2>6 DEF WalkerPort
    <3> QED  BY <2>2, <2>6, <3>1 DEF ServedInv
  <2> QED  BY <2>5, <2>6
<1> QED  BY <1>1, <1>2

LEMMA ServedStep ==
    ASSUME Struct, DemandInv, ServedInv, NEW i, Allowed(i), Clock(i)
    PROVE  /\ ServedInv'
           /\ mem_servicing /\ ~mem_servicing' /\ page_fault' = None /\ served.demand.op # "check" => Done
<1>1. DcacheNext(i) /\ History(i) /\ OprNext(i) /\ Fsm(i)
  BY DEF Clock
<1>2. CASE Idle(i)
  BY <1>1, <1>2, IdleServes, MetaWalks DEF ServedInv
<1>3. CASE MemTlb(i)
  BY <1>1, <1>3, MemTlbServes, MetaWalks DEF ServedInv
<1>4. CASE Walking(i) \/ CrossWalk2(i)
  BY <1>4, WalkServes, MetaWalks DEF ServedInv
<1>5. CASE CrossWait1(i) \/ CrossPrep2(i) \/ CrossTlb2(i) \/ CrossWait2(i)
  BY <1>5, SecondServes, MetaWalks DEF ServedInv
<1>6. CASE PfWalking(i) \/ PfBiuWait(i)
  <2>1. ~mem_servicing /\ ~fast_path_pending
    BY <1>6 DEF Struct, FsmInv, PfWalking, PfBiuWait, Demands
  <2>2. mem_servicing' = mem_servicing /\ fast_path_pending' = fast_path_pending
    BY <1>6 DEF PfWalking, PfBiuWait, control, Goto
  <2> QED  BY <2>1, <2>2, MetaWalks DEF ServedInv, InService
<1> QED  BY <1>1, <1>2, <1>3, <1>4, <1>5, <1>6 DEF Fsm

LEMMA ServedAlways == Spec => []ServedInv
<1>1. Init => ServedInv
  BY DEF Init, ServedInv, InService
<1>2. Struct /\ DemandInv /\ ServedInv /\ [Next]_vars => ServedInv'
  <2>1. ASSUME Struct, DemandInv, ServedInv, Next  PROVE ServedInv'
    <3>1. PICK i : Clock(i) /\ Allowed(i)
      BY <2>1, Inputs DEF Struct, TypeInv
    <3> QED  BY <2>1, <3>1, ServedStep
  <2>2. ASSUME ServedInv, UNCHANGED vars  PROVE ServedInv'
    <3>1. /\ UNCHANGED <<state, mem_servicing, fast_path_pending, walk_biu_pending, meta, opr, dcache_req, dcache>>
          /\ served' = served
      BY <2>2 DEF vars, mmu, control
    <3>2. ASSUME NEW a, Progress(a)  PROVE Progress(a)'
      BY <3>1, <3>2 DEF Progress, Past, Second, Half, InCache, Waiting, Demanded
    <3> QED  BY <2>2, <3>1, <3>2 DEF ServedInv, InService
  <2> QED  BY <2>1, <2>2
<1> QED  BY <1>1, <1>2, StructAlways, DemandAlways, PTL DEF Spec

\* A demand that ends without a fault has had each of its halves taken once, in order, by the
\* lookup, the walk or a route past the register; a read's OPR_R holds the bytes its own
\* accesses returned, and no answer of the walker's.
THEOREM OutcomesAreComplete == Spec => OutcomeComplete
<1> DEFINE Owed ==
        Ends /\ served.demand.op # "check" =>
         LET r == served.demand  taken == served'.accesses
         IN  /\ Served(r, taken)
             /\ r.op = "read" /\ r.kind # "inta" =>
                   opr' = <<taken[1].at, IF Crosses(r) THEN taken[2].at ELSE None>>
<1>1. ASSUME Struct, DemandInv, ServedInv, Next  PROVE Owed
  <2>1. PICK i : Clock(i) /\ Allowed(i)
    BY <1>1, Inputs DEF Struct, TypeInv
  <2>2. Ends /\ served.demand.op # "check" => Done
    BY <1>1, <2>1, ServedStep DEF Ends
  <2> QED  BY <2>2, Zenon DEF Done, Reads
<1>2. Struct /\ DemandInv /\ ServedInv /\ [Next]_vars => [Owed]_vars
  BY <1>1, Zenon
<1> QED  BY <1>2, StructAlways, DemandAlways, ServedAlways, PTL DEF Spec, OutcomeComplete

---------------------------------------------------------------------------
\* Checks for write permission.

CheckInv ==
    /\ mem_servicing => served.demand \in workload.demands
    /\ fast_path_pending => served.demand.op # "check"
    /\ state = "CROSS_TLB2" /\ req.kind = "mem" => lookup \in {req.page, req.second}

LEMMA CheckStep ==
    ASSUME Struct, DemandInv, CheckInv, NEW i, Allowed(i), Clock(i)
    PROVE  CheckInv'
<1> USE DEF Demands
<1>1. Fsm(i) /\ History(i) /\ FsmInv /\ LookupAddress(i) /\ workload' = workload
  BY DEF Struct, Clock
<1>2. served'.demand = IF idle_mem_req(i) THEN i.demand ELSE served.demand
  BY <1>1, ServedMoves
<1>3. CASE Idle(i)
  <2>1. state = "IDLE"
    BY <1>1, <1>3, FsmIs
  <2>2. CASE IdleStay(i) \/ IdleFetchWalk(i) \/ IdleGated(i) \/ IdleEarlyWrite(i)
    <3>1. /\ mem_servicing' => mem_servicing
          /\ fast_path_pending' => fast_path_pending
          /\ state' # "CROSS_TLB2"
      <4>1. CASE IdleStay(i)
        <5>1. /\ mem_servicing' = (mem_servicing /\ ~(fast_path_pending /\ completes(i)))
              /\ fast_path_pending' = (fast_path_pending /\ ~completes(i))
              /\ state' = state
          BY <4>1 DEF IdleStay, InFlight
        <5> QED  BY <2>1, <5>1
      <4>2. CASE IdleFetchWalk(i) \/ IdleGated(i) \/ IdleEarlyWrite(i)
        BY <4>2 DEF IdleFetchWalk, IdleGated, IdleEarlyWrite, Goto
      <4> QED  BY <2>2, <4>1, <4>2
    <3>2. fast_path_pending => mem_servicing
      BY <1>1 DEF FsmInv
    <3>3. mem_servicing => served'.demand = served.demand
      BY <1>2 DEF idle_mem_req, idle_mem_precheck, demand_idle
    <3> QED  BY <1>1, <3>1, <3>2, <3>3 DEF CheckInv
  <2>3. CASE IdleIo(i) \/ IdlePretranslated(i) \/ IdleLookup(i)
    <3>1. idle_mem_req(i) /\ state' # "CROSS_TLB2"
      BY <2>3 DEF IdleIo, IdlePretranslated, IdleLookup, CaptureMem
    <3>2. i.demand # None /\ ~mem_servicing
      BY <3>1 DEF idle_mem_req, idle_mem_precheck, demand_idle
    <3>3. served'.demand = i.demand /\ i.demand \in workload.demands /\ i.demand \in Demand
      BY <1>2, <3>1, <3>2 DEF Allowed
    <3>4. fast_path_pending' => i.demand.op # "check"
      <4>1. CASE IdleIo(i)
        BY <3>3, <4>1 DEF IdleIo, Demand
      <4>2. CASE IdlePretranslated(i)
        BY <4>2 DEF IdlePretranslated, pretrans_present
      <4>3. CASE IdleLookup(i)
        BY <1>1, <3>2, <4>3 DEF IdleLookup, FsmInv
      <4> QED  BY <2>3, <4>1, <4>2, <4>3
    <3> QED  BY <1>1, <3>1, <3>3, <3>4 DEF CheckInv
  <2> QED  BY <1>3, <2>2, <2>3 DEF Idle
<1>4. CASE PfWalking(i) \/ PfBiuWait(i)
  <2>1. /\ mem_servicing' = mem_servicing /\ fast_path_pending' = fast_path_pending
        /\ state' # "CROSS_TLB2" /\ ~mem_servicing /\ ~fast_path_pending
    BY <1>1, <1>4 DEF PfWalking, PfBiuWait, control, Goto, FsmInv
  <2> QED  BY <2>1 DEF CheckInv
<1>5. CASE MemTlb(i) \/ Walking(i) \/ CrossWait1(i) \/ CrossPrep2(i) \/ CrossTlb2(i) \/ CrossWalk2(i)
           \/ CrossWait2(i)
  <2>1. state \in Demands /\ req' = req
    BY <1>5 DEF MemTlb, Walking, CrossWait1, CrossPrep2, CrossTlb2, CrossWalk2, CrossWait2
  <2>2. served'.demand = served.demand /\ served.demand = req /\ mem_servicing /\ ~fast_path_pending
    BY <1>1, <1>2, <2>1 DEF idle_mem_req, idle_mem_precheck, demand_idle, s_idle, FsmInv, DemandInv
  <2>3. fast_path_pending' => req.op # "check"
    <3>1. CASE MemTlb(i)
      BY <2>2, <3>1 DEF MemTlb, LookupFault, LookupChecked, LookupAccess, LookupWait, LookupMiss, Goto, raise_fault,
                        complete_mem_request, req_mem_dcache_candidate
    <3>2. CASE Walking(i) \/ CrossWalk2(i)
      BY <2>2, <3>2, Zenon DEF Walking, CrossWalk2, WalkRuns, WalkFaults, control, Goto, raise_fault,
                               complete_mem_request
    <3>3. CASE CrossWait1(i) \/ CrossPrep2(i) \/ CrossTlb2(i)
      BY <2>2, <3>3, Zenon DEF CrossWait1, CrossPrep2, CrossTlb2, EmitSecondHalf, Goto, raise_fault,
                               complete_mem_request
    <3>4. CASE CrossWait2(i)
      BY <2>2, <3>4, Zenon DEF CrossWait2, control, complete_mem_request
    <3> QED  BY <1>5, <3>1, <3>2, <3>3, <3>4
  <2>4. state' = "CROSS_TLB2" => lookup' \in {req.page, req.second}
    <3>1. CASE MemTlb(i)
      <4>1. lookup' = lookup /\ lookup = req.page
        BY <1>1, <3>1, LookupMoves DEF MemTlb, second_lookup_load, FsmInv
      <4> QED  BY <4>1
    <3>2. CASE Walking(i)
      <4>1. lookup = req.page /\ (lookup' = lookup \/ lookup' = req.second)
        BY <1>1, <3>2, LookupMoves DEF Walking, FsmInv
      <4> QED  BY <4>1
    <3>3. CASE CrossPrep2(i)
      BY <1>1, <3>3, LookupMoves DEF CrossPrep2, second_lookup_load
    <3>4. CASE CrossWait1(i) \/ CrossTlb2(i)
      BY <3>4 DEF CrossWait1, CrossTlb2, EmitSecondHalf, Goto, raise_fault, complete_mem_request
    <3>5. CASE CrossWalk2(i)
      BY <3>5 DEF CrossWalk2, WalkRuns, WalkFaults, control, Goto, raise_fault, complete_mem_request
    <3>6. CASE CrossWait2(i)
      BY <3>6 DEF CrossWait2, control, complete_mem_request
    <3> QED  BY <1>5, <3>1, <3>2, <3>3, <3>4, <3>5, <3>6
  <2> QED  BY <1>1, <2>1, <2>2, <2>3, <2>4 DEF CheckInv
<1> QED  BY <1>1, <1>3, <1>4, <1>5 DEF Fsm

LEMMA CheckAlways == Spec => []CheckInv
<1>1. Init => CheckInv
  BY DEF Init, CheckInv
<1>2. Struct /\ DemandInv /\ CheckInv /\ [Next]_vars => CheckInv'
  <2>1. ASSUME Struct, DemandInv, CheckInv, Next  PROVE CheckInv'
    <3>1. PICK i : Clock(i) /\ Allowed(i)
      BY <2>1, Inputs DEF Struct, TypeInv
    <3> QED  BY <2>1, <3>1, CheckStep
  <2>2. CheckInv /\ UNCHANGED vars => CheckInv'
    BY DEF CheckInv, vars, mmu, control
  <2> QED  BY <2>1, <2>2
<1> QED  BY <1>1, <1>2, StructAlways, DemandAlways, PTL DEF Spec

\* A check that hits has seen the permission, and so has one whose walk ended well.
LEMMA CheckHit ==
    ASSUME Struct, SinceInv, req_can_translate, pg_enable, req.op = "check"
    PROVE  \E t \in since[lookup] : t # None /\ Permitted(t, TRUE, req.user, wp_enable)
<1> DEFINE t == tlb[lookup]
<1>1. t # None /\ t \in since[lookup]
  BY DEF SinceInv, TlbFresh, req_can_translate, tlb_hit, Struct, TypeInv, TypeOK
<1>2. IsWrite(req) <=> TRUE
  BY DEF IsWrite
<1>3. Permitted(t, TRUE, req.user, wp_enable)
  BY <1>2 DEF req_can_translate, req_perm_ok, Permitted
<1> QED  BY <1>1, <1>3

LEMMA CheckWalked ==
    ASSUME Struct, SinceInv, w_state = "DONE", req.op = "check"
    PROVE  \E t \in since[lookup] : t # None /\ Permitted(t, TRUE, req.user, wp_enable)
<1>1. result # None /\ result \in since[lookup]
  BY ResultIsEntry DEF SinceInv
<1>2. /\ result.w = (pde.w /\ pte.w) /\ result.u = (pde.u /\ pte.u)
  BY ResultIs DEF Struct, TypeInv
<1>3. /\ pde \in Pde /\ pte \in Pte /\ GrantedNow
      /\ saved.user = req.user /\ saved.wp = wp_enable /\ saved.write
  BY DEF Struct, AskInv, LatchInv, PdeMarked, Granted, IsWrite
<1>4. /\ Combined(pde, pte).w = (pde.w /\ pte.w) /\ Combined(pde, pte).u = (pde.u /\ pte.u)
  BY <1>3, CombinedType
<1>5. Permitted(result, TRUE, req.user, wp_enable)
  BY <1>2, <1>3, <1>4 DEF GrantedNow, Permitted
<1> QED  BY <1>1, <1>5

LEMMA CheckEnds ==
    ASSUME Struct, DemandInv, SinceInv, CheckInv, NEW i, Allowed(i), Clock(i), Ends,
           served.demand.op = "check", pg_enable, served.demand.second \in {None, served.demand.page},
           NEW page \in {served.demand.page, served.demand.second} \ {None}
    PROVE  \E t \in since[page] : t # None /\ Permitted(t, TRUE, served.demand.user, wp_enable)
<1> USE DEF Demands
<1>1. Fsm(i) /\ FsmInv /\ mem_servicing /\ ~mem_servicing' /\ page_fault' = None /\ req \in Demand /\ AskInv
  BY DEF Struct, Clock, Ends, TypeInv, TypeOK
<1>2. state \in Demands /\ served.demand = req /\ req.op = "check"
  BY <1>1 DEF FsmInv, CheckInv, DemandInv
<1>3. page = req.page
  BY <1>2
<1>4. ASSUME req_can_translate, lookup = req.page
      PROVE  \E t \in since[page] : t # None /\ Permitted(t, TRUE, req.user, wp_enable)
  BY <1>2, <1>3, <1>4, CheckHit
<1>5. ASSUME w_state = "DONE", lookup = req.page
      PROVE  \E t \in since[page] : t # None /\ Permitted(t, TRUE, req.user, wp_enable)
  BY <1>2, <1>3, <1>5, CheckWalked
<1>6. req.page \in Pages /\ perm_fault_code \in FaultCode /\ (walk_done => walk_fault_code \in FaultCode)
      /\ (Crosses(req) => req.second = req.page)
  BY <1>1, <1>2, FaultCodes DEF Demand, Crosses
<1>7. \A p \in Pages, code \in FaultCode : ~raise_fault(p, code)
  BY <1>1, FaultRaised
<1>8. CASE MemTlb(i)
  <2>1. req_can_translate
    BY <1>1, <1>6, <1>7, <1>8 DEF MemTlb, LookupFault, LookupChecked, LookupAccess, LookupWait, LookupMiss, Goto,
                                  req_mem_dcache_candidate
  <2> QED  BY <1>1, <1>2, <1>4, <1>8, <2>1 DEF MemTlb, FsmInv
<1>9. CASE Walking(i)
  <2>1. w_state = "DONE" /\ state = "WALKING"
    <3>1. UNCHANGED control => FALSE
      BY <1>1 DEF control
    <3>2. ~WalkFaults(i, req.page)
      BY <1>6, <1>7 DEF WalkFaults
    <3> QED  BY <1>9, <3>1, <3>2, Zenon DEF Walking, WalkRuns, walk_done, walk_fault
  <2> QED  BY <1>1, <1>2, <1>5, <2>1 DEF FsmInv
<1>10. CASE CrossWalk2(i)
  <2>1. Crosses(req) /\ lookup = req.second
    BY <1>1, <1>10 DEF FsmInv, CrossWalk2, Seconds
  <2>2. w_state = "DONE"
    <3>1. UNCHANGED control => FALSE
      BY <1>1 DEF control
    <3>2. ~WalkFaults(i, req.second)
      BY <1>6, <1>7, <2>1 DEF WalkFaults
    <3> QED  BY <1>10, <3>1, <3>2, Zenon DEF CrossWalk2, WalkRuns, walk_done, walk_fault
  <2> QED  BY <1>2, <1>5, <1>6, <2>1, <2>2
<1>11. CASE CrossTlb2(i)
  <2>1. state = "CROSS_TLB2" /\ Crosses(req)
    BY <1>1, <1>11 DEF FsmInv, CrossTlb2, Seconds
  <2>2. req.kind = "mem"
    BY <1>1, <1>2 DEF Demand
  <2>3. lookup = req.page
    BY <1>6, <2>1, <2>2 DEF CheckInv
  <2>4. req_can_translate
    <3>1. Goto("CROSS_WALK2") => FALSE
      BY <1>1 DEF Goto
    <3>2. ~raise_fault(req.second, perm_fault_code)
      BY <1>6, <1>7, <2>1
    <3> QED  BY <1>11, <2>2, <3>1, <3>2, Zenon DEF CrossTlb2
  <2> QED  BY <1>2, <1>4, <2>3, <2>4
<1>12. ~CrossWait1(i) /\ ~CrossPrep2(i) /\ ~CrossWait2(i) /\ ~PfWalking(i) /\ ~PfBiuWait(i) /\ ~Idle(i)
  BY <1>1, <1>2, FsmIs DEF FsmInv
<1> QED  BY <1>1, <1>2, <1>8, <1>9, <1>10, <1>11, <1>12 DEF Fsm

\* A check for write permission that passes has seen the permission on its page, when both its
\* halves lie in one; over two pages it may not have (run PagingCheckSplit).
THEOREM ChecksAreHonest ==
    ASSUME Cr3Writes = "no walk",
           \A load \in Workloads : \A r \in load.demands : r.op = "check" => r.second \in {None, r.page}
    PROVE  Spec => CheckedHalves
<1> DEFINE Told ==
        Ends /\ served.demand.op = "check" /\ pg_enable =>
         \A page \in {served.demand.page, served.demand.second} \ {None} :
            \E t \in since[page] : t # None /\ Permitted(t, TRUE, served.demand.user, wp_enable)
<1>1. ASSUME Struct, DemandInv, SinceInv, CheckInv, Next  PROVE Told
  <2>1. PICK i : Clock(i) /\ Allowed(i)
    BY <1>1, Inputs DEF Struct, TypeInv
  <2>2. Ends /\ served.demand.op = "check" => served.demand.second \in {None, served.demand.page}
    BY <1>1 DEF Ends, CheckInv, Struct, TypeInv
  <2> QED  BY <1>1, <2>1, <2>2, CheckEnds
<1>2. Struct /\ DemandInv /\ SinceInv /\ CheckInv /\ [Next]_vars => [Told]_vars
  BY <1>1, Zenon
<1> QED  BY <1>2, StructAlways, SinceAlways, DemandAlways, CheckAlways, PTL DEF Spec, CheckedHalves

===========================================================================
