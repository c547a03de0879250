-------------------------------- MODULE Paging --------------------------------
(* The paging unit of paging_unit.sv, clock by clock: it takes demand requests  *)
(* from the core and line requests from the prefetcher, translates them through *)
(* one shared TLB port, walks the page tables on a miss, and presents physical  *)
(* requests to the two caches.  EXTENDS PageWalker, the walker it drives.       *)
(*                                                                              *)
(* Around it, as external parts under the rules of their own sources: the core  *)
(* (which holds a request until it is taken), the prefetcher (prefetch.sv: one  *)
(* request at a time, redirected by a flush), the two caches, and the software  *)
(* that edits page tables, reloads CR3 and executes INVLPG.                     *)
(*                                                                              *)
(* A linear address is its page; an access that crosses a dword also names the  *)
(* page of its second half, which may be the same.  The sidecar TLB is outside: *)
(* it appears as reads that arrive translated.  Timing hints to the sequencer,  *)
(* VGA routing and the "fast paths off" menu switch are left out.               *)
EXTENDS Naturals, Sequences, PageWalker

CONSTANTS
    Workloads,    \* what software does: its requests, the pages it runs from, its
                  \* CR0 modes and the directory entries it starts with (see below)
    FetchUsers,   \* privilege of fetches, a subset of BOOLEAN
    PageSet,      \* the TLB set of each page
    PteImages,    \* table entries at reset, for each page
    Edits,        \* stores of software to the page tables
    Cr3Writes     \* "any time" or "no walk": CR3 is loaded during a fetch's walk, or not

Demand == [kind : {"mem"}, op : {"read", "write", "check"}, page : Pages, second : Pages \cup {None},
           user : BOOLEAN]
          \cup [kind : {"io", "inta"}, op : {"read", "write"}, page : Pages, second : Pages \cup {None},
                user : BOOLEAN]
Mode     == [pg : BOOLEAN, wp : BOOLEAN]   \* CR0.PG and CR0.WP
\* What is asked of the D-cache, of the I-cache, and what a fault reports.
Access == [kind : {"mem"}, write : BOOLEAN, page : Pages, at : Frames, current : BOOLEAN]
          \cup [kind : {"io"}, write : BOOLEAN, at : {1, 2}]
          \cup [kind : {"walk"}, write : BOOLEAN, at : EntryAddress, data : Pde \cup Pte \cup {None}]
Line   == [page : Pages, asked : Pages, frame : Frames, current : BOOLEAN]
Fault  == [page : Pages, code : FaultCode]

ASSUME PagingAssumption ==
    /\ PageSet \in [Pages -> Nat] /\ FetchUsers \subseteq BOOLEAN
    /\ \A load \in Workloads :
          /\ load.demands \subseteq Demand /\ load.fetches \subseteq Pages
          /\ load.modes \subseteq Mode /\ load.pdes \subseteq Pde
    /\ Pages \subseteq Frames /\ PteImages \subseteq [Pages -> Pte]
    /\ Edits \subseteq [table : Tables, page : Pages, entry : Pte]
    /\ None \notin Pages \cup Frames \cup Roots \cup Tables
ASSUME NoneAssumption ==
    /\ None \notin Demand /\ None \notin Access /\ None \notin Line /\ None \notin Fault
    /\ None \notin WalkRequest /\ None \notin Translation

\* A workload has the fields demands, fetches, modes and pdes; it is chosen at reset.
VARIABLES
    workload,               \* external: the workload that runs
    pg_enable, wp_enable,   \* CR0.PG and CR0.WP
    cr3,
    state,                  \* the paging FSM
    mem_servicing, fast_path_pending, pf_fast_pending,
    req,                    \* req_*: the captured demand
    lookup,                 \* tlb_lookup_addr_r
    tlb,                    \* four-way TLB: page to translation, or None
    xlat,                   \* pf_xlat_*: the last fetch translation, or None
    walk_request, walk_biu_pending,
    dcache_req,             \* the registered demand-side request, or None
    icache_req,             \* the registered prefetch-side request, or None
    meta,                   \* opr_*: what the next read response is for
    opr,                    \* OPR_R: its first and second half
    page_fault,             \* page_fault, fault_code, cr2_out, for one clock
    pf_ack_toggle_r, pf_fault,
    pf_req_toggle, pf_ack_prev, pf_page, pf_redirect_queued,
    pf_spec,                \* spec_inflight: the outstanding fetch is speculative
    pf_drop,                \* pf_drop_inflight or spec_poison: its line will not be used
    dcache, icache,         \* external: the access each cache is answering, or None
    pdes, ptes,             \* external: the page tables in memory
    since,                  \* history: translations of a page since its last invalidation
    served                  \* history: the demand in service and the accesses made for it

control == <<state, mem_servicing, fast_path_pending>>
fetch   == <<pf_req_toggle, pf_ack_prev, pf_page, pf_redirect_queued, pf_spec, pf_drop>>
mmu     == <<control, pf_fast_pending, req, lookup, tlb, xlat, walk_request, walk_biu_pending,
             dcache_req, icache_req, meta, opr, page_fault, pf_ack_toggle_r, pf_fault>>
vars    == <<workload, pg_enable, wp_enable, cr3, mmu, walker, fetch, dcache, icache, pdes, ptes, since, served>>

s_idle     == state = "IDLE"
demand_idle == s_idle /\ ~mem_servicing
pf_pending == pf_req_toggle # pf_ack_toggle_r
invlpg_ack == s_idle /\ ~walk_biu_pending

\* A check-only access asks for write permission.
\* Mutant: it is looked up as a read.
IsWrite_NoCheck(r) == r.op = "write"
IsWrite(r) == r.op \in {"write", "check"}
Crosses(r) == r.second # None
-----------------------------------------------------------------------------
\* One clock's inputs i: the core's request (i.demand, dropped by a segment fault
\* when ~i.present, already translated when i.pretrans # None), the caches'
\* answers, the prefetcher's moves and software's.

idle_mem_precheck(i) == demand_idle /\ i.demand # None
idle_mem_req(i)      == idle_mem_precheck(i) /\ i.present
idle_pf_req == s_idle /\ pf_pending /\ ~fast_path_pending /\ ~pf_fast_pending

tlb_hit == tlb[lookup] # None
\* Mutant: CR0.WP is taken as set.
req_perm_ok_WpSet == Permitted(tlb[lookup], IsWrite(req), req.user, TRUE)
req_perm_ok == Permitted(tlb[lookup], IsWrite(req), req.user, wp_enable)
\* Mutant: a store hits a clean entry.
req_can_translate_Clean == ~pg_enable \/ (tlb_hit /\ req_perm_ok)
req_can_translate ==
    \/ ~pg_enable
    \/ tlb_hit /\ req_perm_ok /\ (IsWrite(req) => tlb[lookup].d)
req_perm_fault == pg_enable /\ tlb_hit /\ ~req_perm_ok
\* The frame of linear page p, found through the lookup register.
TlbFrame(p) == IF pg_enable THEN tlb[lookup].frame ELSE p

pf_tlb_match == ~pg_enable \/ lookup = pf_page
pf_xlat_hit(i) == xlat # None /\ xlat.page = pf_page /\ (i.user => xlat.u)
fast_pf_candidate(i) ==
    /\ idle_pf_req
    /\ ~pg_enable \/ pf_xlat_hit(i) \/ (pf_tlb_match /\ tlb_hit /\ (i.user => tlb[lookup].u))
fast_pf_frame(i) == CASE ~pg_enable                     -> pf_page
                      [] pg_enable /\ pf_xlat_hit(i)    -> xlat.frame
                      [] pg_enable /\ ~pf_xlat_hit(i)   -> tlb[lookup].frame
-----------------------------------------------------------------------------
\* Requests to the demand side of the caches.

\* History: "current" says that the page had this frame, and permitted the access,
\* at some time since its translation was last invalidated.
Current(page, frame, write, user) ==
    IF pg_enable
    THEN \E t \in since[page] : /\ t # None /\ t.frame = frame
                                /\ Permitted(t, write, user, wp_enable) /\ (write => t.d)
    ELSE frame = page
MemAccess(write, page, frame, user) ==
    [kind |-> "mem", write |-> write, page |-> page, at |-> frame,
     current |-> Current(page, frame, write, user)]
IoAccess(write, half) == [kind |-> "io", write |-> write, at |-> half]
WalkAccess == [kind |-> "walk", write |-> mem_wr, at |-> mem_addr,
               data |-> IF mem_wr THEN mem_wdata ELSE None]

\* The requests presented without a register: a store without paging, a read that
\* is already translated, and a demand whose registered lookup hit.
early_wr_present(i) ==
    /\ idle_mem_req(i) /\ i.demand.kind = "mem" /\ i.demand.op = "write"
    /\ ~Crosses(i.demand) /\ ~pg_enable
pretrans_present(i) ==
    /\ idle_mem_req(i) /\ i.demand.kind = "mem" /\ i.demand.op = "read"
    /\ ~Crosses(i.demand) /\ i.pretrans # None
req_mem_dcache_candidate ==
    state = "MEM_TLB" /\ req_can_translate /\ ~req_perm_fault /\ req.op # "check"

Offered(i) ==
    CASE pretrans_present(i) -> MemAccess(FALSE, i.demand.page, i.pretrans, i.demand.user)
      [] early_wr_present(i) -> MemAccess(TRUE, i.demand.page, i.demand.page, i.demand.user)
      [] req_mem_dcache_candidate -> MemAccess(req.op = "write", req.page, TlbFrame(req.page), req.user)
      [] OTHER -> dcache_req

\* A store is complete when it is accepted; a read later, or, on the direct route,
\* on the clock that takes it.
accepted(i) == i.acc
completes(i) ==
    \/ accepted(i) /\ (Offered(i).write \/ (Offered(i).kind = "io" /\ i.comp))
    \/ dcache # None /\ i.comp
Answering(i) == IF dcache # None THEN dcache ELSE Offered(i)
read_complete(i) == completes(i) /\ ~Answering(i).write
rdata(i) == CASE Answering(i).kind # "walk" -> Answering(i).at
              [] Answering(i).kind = "walk" /\ Answering(i).at.level = "pde" -> pdes[Answering(i).at.root]
              [] Answering(i).kind = "walk" /\ Answering(i).at.level = "pte" ->
                    ptes[Answering(i).at.table][Answering(i).at.page]

\* The walker's access is issued once, and its answer fed back once.
\* Mutant: an access is issued again while it is in flight.
walker_issue_ready_Again == (mem_rd \/ mem_wr) /\ dcache_req = None
walker_issue_ready == (mem_rd \/ mem_wr) /\ ~walk_biu_pending /\ dcache_req = None
walker_feed_ready(i) == completes(i) /\ walk_biu_pending

\* Prefetch acknowledge: a line response toggles it on its own clock.
pf_ack_bypass(i) == (state = "PF_BIU_WAIT" \/ pf_fast_pending) /\ i.icomp
pf_ack_toggle(i) == pf_ack_toggle_r # pf_ack_bypass(i)
-----------------------------------------------------------------------------
\* Pieces of a clock of the FSM.

OprMeta(walk, write, suppress, half) ==
    [walk |-> walk, write |-> write, suppress |-> suppress, half |-> half]
\* The registered request is dropped once a request is accepted.
Hold(i)    == dcache_req' = IF accepted(i) THEN None ELSE dcache_req
Offer(r)   == dcache_req' = r
Silent     == walk_request' = FALSE /\ page_fault' = None
StartWalk  == walk_request' = TRUE /\ page_fault' = None
WalkDone(i) == walk_biu_pending' = (walk_biu_pending /\ ~completes(i))

\* The response of a request that left the FSM ends its demand.
InFlight(i) ==
    /\ fast_path_pending' = (fast_path_pending /\ ~completes(i))
    /\ mem_servicing' = (mem_servicing /\ ~(fast_path_pending /\ completes(i)))
Goto(s) == state' = s /\ UNCHANGED <<mem_servicing, fast_path_pending>>
complete_mem_request == state' = "IDLE" /\ mem_servicing' = FALSE /\ UNCHANGED fast_path_pending
raise_fault(page, code) ==
    /\ page_fault' = [page |-> page, code |-> code] /\ walk_request' = FALSE
    /\ complete_mem_request
perm_fault_code == [p |-> TRUE, w |-> IsWrite(req), u |-> req.user]

\* The walker's next access, when the request register is free.
WalkerPort(i) ==
    IF walker_issue_ready
    THEN Offer(WalkAccess) /\ meta' = OprMeta(TRUE, FALSE, FALSE, 1) /\ walk_biu_pending' = TRUE
    ELSE Hold(i) /\ WalkDone(i) /\ UNCHANGED meta
-----------------------------------------------------------------------------
\* IDLE: capture a demand, or serve a fetch.

IdleStay(i) ==
    /\ state = "IDLE" /\ ~idle_mem_precheck(i)
    /\ ~idle_pf_req \/ fast_pf_candidate(i) \/ ~pf_tlb_match \/ tlb_hit
    /\ UNCHANGED <<state, req, meta>> /\ InFlight(i) /\ Hold(i) /\ Silent

\* A fetch that misses the TLB: walked as a read at the current privilege.
IdleFetchWalk(i) ==
    /\ state = "IDLE" /\ ~idle_mem_precheck(i)
    /\ idle_pf_req /\ ~fast_pf_candidate(i) /\ pf_tlb_match /\ ~tlb_hit
    /\ req' = [kind |-> "mem", op |-> "read", page |-> req.page, second |-> req.second, user |-> i.user]
    /\ Goto("PF_WALKING") /\ Hold(i) /\ StartWalk /\ UNCHANGED meta

\* A segment fault: the request is latched and goes no further.
IdleGated(i) ==
    /\ state = "IDLE" /\ idle_mem_precheck(i) /\ ~i.present
    /\ req' = i.demand /\ meta' = [meta EXCEPT !.write = i.demand.op = "write"]
    /\ Goto("IDLE") /\ Hold(i) /\ Silent

\* I/O and interrupt acknowledge need no translation.  The first acknowledge
\* cycle ("inta") is a dummy whose data is dropped.
IdleIo(i) ==
    /\ state = "IDLE" /\ idle_mem_req(i) /\ i.demand.kind # "mem"
    /\ mem_servicing' = TRUE
    /\ Offer(IoAccess(i.demand.op = "write", 1))
    /\ meta' = OprMeta(FALSE, i.demand.op = "write", i.demand.kind = "inta", 1)
    /\ \/ /\ ~Crosses(i.demand)
          /\ state' = "IDLE" /\ fast_path_pending' = TRUE /\ UNCHANGED req
       \/ /\ Crosses(i.demand)
          /\ state' = "CROSS_WAIT1" /\ UNCHANGED fast_path_pending /\ req' = i.demand
    /\ Silent

CaptureMem(i) ==
    /\ state = "IDLE" /\ idle_mem_req(i) /\ i.demand.kind = "mem"
    /\ req' = i.demand /\ Hold(i) /\ Silent
MemMeta(i) == OprMeta(FALSE, i.demand.op = "write", FALSE, 1)

IdlePretranslated(i) ==
    /\ CaptureMem(i) /\ pretrans_present(i) /\ accepted(i)
    /\ state' = "IDLE" /\ mem_servicing' = TRUE /\ fast_path_pending' = TRUE
    /\ meta' = MemMeta(i)

IdleEarlyWrite(i) ==
    /\ CaptureMem(i) /\ early_wr_present(i) /\ accepted(i)
    /\ Goto("IDLE") /\ meta' = MemMeta(i)

IdleLookup(i) ==
    /\ CaptureMem(i) /\ ~accepted(i)
    /\ state' = "MEM_TLB" /\ mem_servicing' = TRUE /\ UNCHANGED fast_path_pending
    /\ meta' = [meta EXCEPT !.write = i.demand.op = "write"]

Idle(i) ==
    /\ \/ IdleStay(i) \/ IdleFetchWalk(i) \/ IdleGated(i) \/ IdleIo(i)
       \/ IdlePretranslated(i) \/ IdleEarlyWrite(i) \/ IdleLookup(i)
    /\ UNCHANGED walk_biu_pending
-----------------------------------------------------------------------------
\* MEM_TLB: the registered lookup of a demand.

LookupFault(i) ==
    /\ req_perm_fault
    /\ raise_fault(req.page, perm_fault_code) /\ Hold(i) /\ UNCHANGED meta

LookupChecked(i) ==
    /\ ~req_perm_fault /\ req_can_translate /\ req.op = "check"
    /\ IF Crosses(req) THEN Goto("CROSS_TLB2") ELSE complete_mem_request
    /\ Hold(i) /\ Silent /\ UNCHANGED meta

\* Posted stores are done when taken; reads wait for their data outside the FSM.
\* Mutant: the second half of a store waits for an answer to the first.
LookupAccess_Waits(i) ==
    /\ req_mem_dcache_candidate /\ accepted(i)
    /\ IF Crosses(req) THEN Goto("CROSS_WAIT1")
       ELSE /\ state' = "IDLE"
            /\ mem_servicing' = (req.op # "write") /\ fast_path_pending' = (req.op # "write")
    /\ meta' = OprMeta(FALSE, meta.write, FALSE, 1)
    /\ Hold(i) /\ Silent
LookupAccess(i) ==
    /\ req_mem_dcache_candidate /\ accepted(i)
    /\ IF Crosses(req)
       THEN Goto(IF req.op = "write" THEN "CROSS_PREP2" ELSE "CROSS_WAIT1")
       ELSE /\ state' = "IDLE"
            /\ mem_servicing' = (req.op # "write") /\ fast_path_pending' = (req.op # "write")
    /\ meta' = OprMeta(FALSE, meta.write, FALSE, 1)
    /\ Hold(i) /\ Silent

LookupWait(i) ==
    /\ req_mem_dcache_candidate /\ ~accepted(i)
    /\ Goto("MEM_TLB") /\ Hold(i) /\ Silent /\ UNCHANGED meta

LookupMiss(i) ==
    /\ ~req_perm_fault /\ ~req_can_translate
    /\ Goto("WALKING") /\ Hold(i) /\ StartWalk /\ UNCHANGED meta

MemTlb(i) ==
    /\ state = "MEM_TLB"
    /\ LookupFault(i) \/ LookupChecked(i) \/ LookupAccess(i) \/ LookupWait(i) \/ LookupMiss(i)
    /\ UNCHANGED <<req, walk_biu_pending>>
-----------------------------------------------------------------------------
\* WALKING and CROSS_WALK2: a demand's walk, for its first or second half.

WalkRuns(i) == ~walk_done /\ UNCHANGED control /\ WalkerPort(i) /\ Silent
WalkFaults(i, page) ==
    /\ walk_done /\ walk_fault
    /\ raise_fault(page, walk_fault_code) /\ Hold(i) /\ WalkDone(i) /\ UNCHANGED meta
WalkEmits(page, half) ==
    /\ Offer(MemAccess(req.op = "write", page, result.frame, req.user))
    /\ meta' = OprMeta(FALSE, meta.write, FALSE, half)

Walking(i) ==
    /\ state = "WALKING" /\ UNCHANGED req
    /\ \/ WalkRuns(i)
       \/ WalkFaults(i, req.page)
       \/ /\ walk_done /\ ~walk_fault /\ WalkDone(i) /\ Silent
          /\ \/ /\ req.op = "check" /\ Hold(i) /\ UNCHANGED meta
                /\ IF Crosses(req) THEN Goto("CROSS_TLB2") ELSE complete_mem_request
             \/ /\ req.op # "check" /\ WalkEmits(req.page, 1)
                /\ IF Crosses(req) THEN Goto("CROSS_WAIT1")
                   ELSE state' = "IDLE" /\ fast_path_pending' = TRUE /\ UNCHANGED mem_servicing

CrossWalk2(i) ==
    /\ state = "CROSS_WALK2" /\ UNCHANGED req
    /\ \/ WalkRuns(i)
       \/ WalkFaults(i, req.second)
       \/ /\ walk_done /\ ~walk_fault /\ WalkDone(i) /\ Silent
          /\ \/ req.op = "check" /\ Hold(i) /\ UNCHANGED meta /\ complete_mem_request
             \/ req.op # "check" /\ WalkEmits(req.second, 2) /\ Goto("CROSS_WAIT2")
-----------------------------------------------------------------------------
\* The second half of an access that crosses a dword.

CrossWait1(i) ==
    /\ state = "CROSS_WAIT1"
    /\ Goto(IF completes(i) THEN "CROSS_PREP2" ELSE state)
    /\ Hold(i) /\ Silent /\ UNCHANGED <<req, meta, walk_biu_pending>>

CrossPrep2(i) ==
    /\ state = "CROSS_PREP2" /\ Goto("CROSS_TLB2")
    /\ Hold(i) /\ Silent /\ UNCHANGED <<req, meta, walk_biu_pending>>

EmitSecondHalf(r) ==
    /\ Offer(r) /\ meta' = OprMeta(FALSE, meta.write, FALSE, 2)
    /\ Goto("CROSS_WAIT2") /\ Silent

CrossTlb2(i) ==
    /\ state = "CROSS_TLB2" /\ UNCHANGED <<req, walk_biu_pending>>
    /\ \/ req.kind # "mem" /\ EmitSecondHalf(IoAccess(req.op = "write", 2))
       \/ /\ req.kind = "mem" /\ req_can_translate /\ req.op = "check"
          /\ complete_mem_request /\ Hold(i) /\ Silent /\ UNCHANGED meta
       \/ /\ req.kind = "mem" /\ req_can_translate /\ req.op # "check"
          /\ EmitSecondHalf(MemAccess(req.op = "write", req.second, TlbFrame(req.second), req.user))
       \/ /\ req.kind = "mem" /\ req_perm_fault
          /\ raise_fault(req.second, perm_fault_code) /\ Hold(i) /\ UNCHANGED meta
       \/ /\ req.kind = "mem" /\ ~req_can_translate /\ ~req_perm_fault
          /\ Goto("CROSS_WALK2") /\ StartWalk /\ Hold(i) /\ UNCHANGED meta

CrossWait2(i) ==
    /\ state = "CROSS_WAIT2"
    /\ IF completes(i) THEN complete_mem_request ELSE UNCHANGED control
    /\ Hold(i) /\ Silent /\ UNCHANGED <<req, meta, walk_biu_pending>>
-----------------------------------------------------------------------------
\* The prefetcher's walk.

\* Mutant: a redirect leaves the walk to itself.
PfWalking_LeftAlone(i) ==
    /\ state = "PF_WALKING" /\ UNCHANGED req /\ Silent
    /\ \/ ~walk_done /\ ~pf_redirect_queued /\ UNCHANGED control /\ WalkerPort(i)
       \/ /\ walk_done \/ pf_redirect_queued
          /\ Hold(i) /\ WalkDone(i) /\ UNCHANGED meta
          /\ Goto(IF pf_redirect_queued \/ walk_fault THEN "IDLE" ELSE "PF_BIU_WAIT")
PfWalking(i) ==
    /\ state = "PF_WALKING" /\ UNCHANGED req /\ Silent
    /\ \/ ~walk_done /\ UNCHANGED control /\ WalkerPort(i)
       \/ /\ walk_done /\ Hold(i) /\ WalkDone(i) /\ UNCHANGED meta
          /\ Goto(IF pf_redirect_queued \/ walk_fault THEN "IDLE" ELSE "PF_BIU_WAIT")

PfBiuWait(i) ==
    /\ state = "PF_BIU_WAIT"
    /\ Goto(IF i.icomp THEN "IDLE" ELSE state)
    /\ Hold(i) /\ Silent /\ UNCHANGED <<req, meta, walk_biu_pending>>

Fsm(i) ==
    \/ Idle(i) \/ MemTlb(i) \/ Walking(i) \/ CrossWait1(i) \/ CrossPrep2(i) \/ CrossTlb2(i)
    \/ CrossWalk2(i) \/ CrossWait2(i) \/ PfWalking(i) \/ PfBiuWait(i)
-----------------------------------------------------------------------------
\* Registers beside the FSM.

WalkerStep(i) ==
    Walk(IF walk_request
         THEN [page |-> lookup, write |-> IsWrite(req), user |-> req.user, cr3 |-> cr3, wp |-> wp_enable]
         ELSE None,
         walker_feed_ready(i),
         IF walker_feed_ready(i) /\ read_complete(i) THEN rdata(i) ELSE None)

idle_mem_precheck_capture(i) == idle_mem_precheck(i) /\ i.demand.kind = "mem"
idle_pf_lookup_capture == pg_enable /\ idle_pf_req /\ ~pf_tlb_match
second_lookup_load ==
    \/ state = "WALKING" /\ walk_done /\ ~walk_fault /\ req.op = "check" /\ Crosses(req)
    \/ state = "CROSS_PREP2"

LookupAddress(i) ==
    lookup' = CASE idle_mem_precheck_capture(i) -> i.demand.page
                [] ~idle_mem_precheck_capture(i) /\ idle_pf_lookup_capture -> pf_page
                [] second_lookup_load -> req.second
                [] OTHER -> lookup

invlpg_fire(i) == i.invlpg # None
tlb_update_valid == walk_done /\ ~walk_fault
SetOf(page) == {p \in Pages : PageSet[p] = PageSet[page]}

\* CR3 loads flush everything, INVLPG the page's set; a refill takes the page's own
\* way, or any way of its set.
TlbNext(i) ==
    CASE i.cr3 # None                    -> tlb' = [p \in Pages |-> None]
      [] i.cr3 = None /\ invlpg_fire(i)  -> tlb' = [p \in Pages |-> IF p \in SetOf(i.invlpg) THEN None ELSE tlb[p]]
      [] i.cr3 = None /\ ~invlpg_fire(i) /\ tlb_update_valid ->
           \E victim \in IF tlb_hit THEN {lookup} ELSE SetOf(lookup) :
              tlb' = [p \in Pages |-> IF p = lookup THEN result ELSE IF p = victim THEN None ELSE tlb[p]]
      [] OTHER -> UNCHANGED tlb

\* Mutant: INVLPG forgets the copy kept for fetches.
XlatNext_KeptByInvlpg(i) ==
    xlat' = CASE i.cr3 # None -> None
              [] i.cr3 = None /\ pg_enable /\ idle_pf_req /\ pf_tlb_match /\ tlb_hit ->
                    [page |-> pf_page, frame |-> tlb[lookup].frame, u |-> tlb[lookup].u]
              [] OTHER -> xlat
XlatNext(i) ==
    xlat' = CASE i.cr3 # None \/ invlpg_fire(i) -> None
              [] i.cr3 = None /\ ~invlpg_fire(i) /\ pg_enable /\ idle_pf_req /\ pf_tlb_match /\ tlb_hit ->
                    [page |-> pf_page, frame |-> tlb[lookup].frame, u |-> tlb[lookup].u]
              [] OTHER -> xlat

\* OPR_R: a response to its first bytes clears the rest.
\* Mutant: the walker's answers are written too.
OprNext_WalkToo(i) ==
    opr' = IF read_complete(i) /\ ~meta.write /\ ~meta.suppress
           THEN IF meta.half = 1 THEN <<rdata(i), None>> ELSE <<opr[1], rdata(i)>>
           ELSE opr
OprNext(i) ==
    opr' = IF read_complete(i) /\ ~meta.walk /\ ~meta.write /\ ~meta.suppress
           THEN IF meta.half = 1 THEN <<rdata(i), None>> ELSE <<opr[1], rdata(i)>>
           ELSE opr
-----------------------------------------------------------------------------
\* The prefetch side: requests that hit go to the I-cache beside the FSM.

\* History: a line request as it is made, and whether its translation is current.
LineRequest(page, frame, user) ==
    [page |-> page, asked |-> pf_page, frame |-> frame, current |-> Current(page, frame, FALSE, user)]
FetchOffered(i) ==
    IF icache_req # None THEN icache_req
    ELSE LineRequest(pf_page, fast_pf_frame(i), i.user)

\* A hit that this privilege may not fetch is acknowledged as a fault.
fetch_perm_fault(i) ==
    /\ idle_pf_req /\ ~idle_mem_precheck(i) /\ ~fast_pf_candidate(i)
    /\ pg_enable /\ pf_tlb_match /\ tlb_hit
FetchWalkEnds == state = "PF_WALKING" /\ walk_done

pf_registered_ack(i) ==
    \/ pf_fast_pending /\ i.icomp
    \/ fetch_perm_fault(i)
    \/ FetchWalkEnds /\ (pf_redirect_queued \/ walk_fault)
    \/ state = "PF_BIU_WAIT" /\ i.icomp

PrefetchPort(i) ==
    /\ pf_ack_toggle_r' = (pf_ack_toggle_r # pf_registered_ack(i))
    /\ pf_fast_pending' = CASE pf_fast_pending /\ i.icomp -> FALSE
                            [] fast_pf_candidate(i) /\ i.iacc -> TRUE
                            [] OTHER -> pf_fast_pending
    /\ icache_req' = IF FetchWalkEnds /\ ~pf_redirect_queued /\ ~walk_fault
                     THEN LineRequest(saved.page, result.frame, saved.user)
                     ELSE IF i.iacc THEN None ELSE icache_req
    /\ icache' = CASE i.iacc -> FetchOffered(i)
                   [] i.icomp -> None
                   [] OTHER -> icache

\* The fault a fetch is acknowledged with.
PfFault(i) ==
    pf_fault' = CASE fetch_perm_fault(i) -> [page |-> pf_page, code |-> [p |-> TRUE, w |-> FALSE, u |-> i.user]]
                  [] FetchWalkEnds /\ ~pf_redirect_queued /\ walk_fault -> [page |-> pf_page, code |-> walk_fault_code]
                  [] OTHER -> None
-----------------------------------------------------------------------------
\* The prefetcher: a toggle per request, and the flush of a redirect.

pf_inflight(i) == pf_req_toggle # pf_ack_toggle(i)
pf_ack_edge(i) == pf_ack_toggle(i) # pf_ack_prev

\* A redirect while a line is on its way: the line is dropped, and the request is
\* turned round so that its acknowledge launches the new one.  A speculative line is
\* adopted if it is the target's, or poisoned.
Flush(i) ==
    LET queued == pf_inflight(i) /\ ~pf_ack_edge(i) /\ ~pf_spec
        bypassed == pf_spec /\ ~pf_ack_edge(i) /\ ~i.adopt
    IN  /\ i.flush # None
        /\ pf_page' = i.flush
        /\ pf_redirect_queued' = (pf_redirect_queued \/ queued)
        /\ pf_drop' = ((pf_drop /\ ~pf_spec) \/ queued \/ bypassed)
        /\ pf_spec' = bypassed
        /\ pf_req_toggle' = CASE queued -> pf_ack_toggle(i)
                              [] ~queued /\ i.fetch # None -> ~pf_req_toggle
                              [] OTHER -> pf_req_toggle

\* Mutant: the line of a redirected request is used.
FetchOn_KeepLine(i) ==
    /\ i.flush = None
    /\ pf_redirect_queued' = FALSE
    /\ pf_drop' = FALSE
    /\ pf_spec' = IF i.fetch # None THEN i.spec ELSE pf_spec /\ ~pf_ack_edge(i)
    /\ pf_req_toggle' = (pf_req_toggle # (i.fetch # None))
    /\ pf_page' = IF i.fetch # None THEN i.fetch ELSE pf_page
FetchOn(i) ==
    /\ i.flush = None
    /\ pf_redirect_queued' = (pf_redirect_queued /\ ~pf_ack_edge(i))
    /\ pf_drop' = (pf_drop /\ ~pf_ack_edge(i))
    /\ pf_spec' = IF i.fetch # None THEN i.spec ELSE pf_spec /\ ~pf_ack_edge(i)
    /\ pf_req_toggle' = (pf_req_toggle # (i.fetch # None))
    /\ pf_page' = IF i.fetch # None THEN i.fetch ELSE pf_page

Prefetcher(i) == (Flush(i) \/ FetchOn(i)) /\ pf_ack_prev' = pf_ack_toggle(i)
-----------------------------------------------------------------------------
\* Caches, memory and software.

DcacheNext(i) ==
    dcache' = IF completes(i) THEN None ELSE IF accepted(i) THEN Offered(i) ELSE dcache

WalkerWrites(i, level) ==
    accepted(i) /\ Offered(i).kind = "walk" /\ Offered(i).write /\ Offered(i).at.level = level
Memory(i) ==
    /\ pdes' = IF WalkerWrites(i, "pde") THEN [pdes EXCEPT ![Offered(i).at.root] = Offered(i).data] ELSE pdes
    /\ ptes' = CASE WalkerWrites(i, "pte") ->
                      [ptes EXCEPT ![Offered(i).at.table][Offered(i).at.page] = Offered(i).data]
                 [] i.edit # None -> [ptes EXCEPT ![i.edit.table][i.edit.page] = i.edit.entry]
                 [] OTHER -> ptes

\* What the tables say of a page.
TableEntry(root, page) ==
    IF ~pdes[root].p THEN None
    ELSE IF ~ptes[pdes[root].base][page].p THEN None
    ELSE Combined(pdes[root], ptes[pdes[root].base][page])

History(i) ==
    /\ since' = [p \in Pages |->
                   (IF i.cr3 # None \/ i.invlpg = p THEN {} ELSE since[p]) \cup {TableEntry(cr3, p)'}]
    /\ served' = LET demand == IF idle_mem_req(i) THEN i.demand ELSE served.demand
                     before == IF demand_idle THEN << >> ELSE served.accesses
                 IN  [demand |-> demand,
                      accesses |-> IF accepted(i) /\ Offered(i).kind # "walk"
                                   THEN Append(before, Offered(i)) ELSE before]

Init ==
    /\ workload \in Workloads
    /\ \E mode \in workload.modes : pg_enable = mode.pg /\ wp_enable = mode.wp
    /\ cr3 \in Roots
    /\ state = "IDLE" /\ mem_servicing = FALSE /\ fast_path_pending = FALSE /\ pf_fast_pending = FALSE
    /\ lookup \in Pages
    /\ req = [kind |-> "mem", op |-> "read", page |-> lookup, second |-> None, user |-> FALSE]
    /\ tlb = [p \in Pages |-> None] /\ xlat = None
    /\ walk_request = FALSE /\ walk_biu_pending = FALSE
    /\ dcache_req = None /\ icache_req = None
    /\ meta = OprMeta(FALSE, FALSE, FALSE, 1) /\ opr = <<None, None>>
    /\ page_fault = None /\ pf_ack_toggle_r = FALSE /\ pf_fault = None
    /\ pf_req_toggle = FALSE /\ pf_ack_prev = FALSE /\ pf_page = lookup
    /\ pf_redirect_queued = FALSE /\ pf_spec = FALSE /\ pf_drop = FALSE
    /\ dcache = None /\ icache = None
    /\ pdes \in [Roots -> workload.pdes] /\ ptes \in [Tables -> PteImages]
    /\ since = [p \in Pages |-> {TableEntry(cr3, p)}] 
    /\ served = [demand |-> None, accesses |-> << >>]
    /\ WalkerInit

Clock(i) ==
    /\ cr3' = IF i.cr3 # None THEN i.cr3 ELSE cr3
    /\ UNCHANGED <<workload, pg_enable, wp_enable>>
    /\ Fsm(i) /\ WalkerStep(i) /\ LookupAddress(i) /\ TlbNext(i) /\ XlatNext(i) /\ OprNext(i)
    /\ PrefetchPort(i) /\ PfFault(i) /\ Prefetcher(i)
    /\ DcacheNext(i) /\ Memory(i) /\ History(i)
-----------------------------------------------------------------------------
\* The inputs a clock may see, part by part.

\* The core presents a demand and holds it until it is taken.  A translation that
\* arrives with a read is one the sidecar held, so a current one.
Translated(r) ==
    IF r.kind # "mem" \/ r.op # "read" \/ Crosses(r) THEN {}
    ELSE IF pg_enable THEN {t.frame : t \in {e \in since[r.page] \ {None} : r.user => e.u}} ELSE {r.page}
CoreInput ==
    {[demand |-> None, present |-> FALSE, pretrans |-> None]} \cup
    IF demand_idle
    THEN (UNION {[demand : {r}, present : {TRUE}, pretrans : {None} \cup Translated(r)] : r \in workload.demands})
         \cup [demand : {r \in workload.demands : r.kind = "mem"}, present : {FALSE}, pretrans : {None}]
    ELSE {}

CacheInput(k, user) ==
    LET i == [demand |-> k.demand, present |-> k.present, pretrans |-> k.pretrans, user |-> user]
    IN  {c \in [acc : BOOLEAN, comp : BOOLEAN, iacc : BOOLEAN, icomp : BOOLEAN] :
           /\ c.acc => dcache = None /\ Offered(i) # None
           /\ c.comp => dcache # None \/ (c.acc /\ Offered(i).kind = "io" /\ ~Offered(i).write)
           /\ c.iacc => icache = None /\ (icache_req # None \/ fast_pf_candidate(i))
           /\ c.icomp => icache # None}

\* CR3 is loaded by a microcode word of its own, never while a demand is translated;
\* INVLPG waits for its acknowledge; a store takes the D-cache port from the demand
\* side, and is taken to leave the tables alone while a fetch walks them.
NoFetchWalk == state # "PF_WALKING"
SoftwareInput(k, c) ==
    [cr3 : {None}, invlpg : {None}, edit : {None}]
    \cup (IF /\ k.demand = None /\ state \in {"IDLE", "CROSS_WAIT2", "PF_WALKING", "PF_BIU_WAIT"}
             /\ Cr3Writes = "any time" \/ NoFetchWalk
          THEN [cr3 : Roots, invlpg : {None}, edit : {None}] ELSE {})
    \cup (IF invlpg_ack THEN [cr3 : {None}, invlpg : Pages, edit : {None}] ELSE {})
    \cup (IF ~mem_servicing /\ ~c.acc /\ NoFetchWalk
          THEN [cr3 : {None}, invlpg : {None}, edit : Edits]
          ELSE {})

FetchInput(c) ==
    LET idle == ~pf_inflight(c)
    IN  [flush : {None}, adopt : {FALSE}, fetch : {None}, spec : {FALSE}]
        \cup (IF idle THEN [flush : {None}, adopt : {FALSE}, fetch : workload.fetches,
                            spec : {FALSE, ~pf_redirect_queued /\ ~pf_drop}] ELSE {})
        \cup {f \in [flush : workload.fetches, adopt : BOOLEAN, fetch : {None} \cup workload.fetches, spec : {FALSE}] :
                /\ f.adopt => pf_spec /\ ~pf_drop /\ ~pf_ack_edge(c) /\ f.flush = pf_page
                /\ f.fetch # None => idle /\ f.fetch = f.flush}

Next ==
    \E k \in CoreInput, user \in FetchUsers : \E c \in CacheInput(k, user) :
    \E w \in SoftwareInput(k, c), f \in FetchInput(c) :
       Clock([demand |-> k.demand, present |-> k.present, pretrans |-> k.pretrans, user |-> user,
              acc |-> c.acc, comp |-> c.comp, iacc |-> c.iacc, icomp |-> c.icomp,
              cr3 |-> w.cr3, invlpg |-> w.invlpg, edit |-> w.edit,
              flush |-> f.flush, adopt |-> f.adopt, fetch |-> f.fetch, spec |-> f.spec])

Spec == Init /\ [][Next]_vars
-----------------------------------------------------------------------------
\* Properties.

FsmState == {"IDLE", "MEM_TLB", "WALKING", "CROSS_WAIT1", "CROSS_PREP2", "CROSS_TLB2", "CROSS_WALK2",
             "CROSS_WAIT2", "PF_WALKING", "PF_BIU_WAIT"}
\* Every register has its type, and a translation is written back only as one.
TypeOK ==
    /\ cr3 \in Roots /\ state \in FsmState
    /\ {pg_enable, wp_enable, mem_servicing, fast_path_pending, pf_fast_pending, walk_request,
        walk_biu_pending, pf_ack_toggle_r, pf_req_toggle, pf_ack_prev, pf_redirect_queued,
        pf_spec, pf_drop} \subseteq BOOLEAN
    /\ req \in Demand /\ lookup \in Pages /\ pf_page \in Pages
    /\ \A p \in Pages : tlb[p] \in Translation \cup {None}
    /\ xlat \in [page : Pages, frame : Frames, u : BOOLEAN] \cup {None}
    /\ dcache_req \in Access \cup {None} /\ dcache \in Access \cup {None}
    /\ icache_req \in Line \cup {None} /\ icache \in Line \cup {None}
    /\ meta \in [walk : BOOLEAN, write : BOOLEAN, suppress : BOOLEAN, half : {1, 2}]
    /\ page_fault \in Fault \cup {None} /\ pf_fault \in Fault \cup {None}
    /\ pdes \in [Roots -> Pde] /\ ptes \in [Tables -> [Pages -> Pte]]
    /\ WalkerTypeOK

\* Every translation held for data or for fetches was in the page tables at some
\* time since software last invalidated its page: nothing older survives a CR3 load
\* or an INVLPG, and no walk brings it back.
TlbFresh ==
    /\ \A p \in Pages : tlb[p] # None => tlb[p] \in since[p]
    /\ xlat # None => \E t \in since[xlat.page] : t # None /\ t.frame = xlat.frame /\ t.u = xlat.u

\* No access leaves for memory with a frame, a privilege or a write permission the
\* tables have not granted its page, nor as a store to a page not marked dirty.
AccessesPermitted ==
    \A k \in DOMAIN served.accesses : served.accesses[k].kind = "mem" => served.accesses[k].current

\* A fault tells the truth: "not present" names a page that was absent, and a
\* protection fault one whose entries really refused that access; for a fetch too,
\* unless its line is to be dropped.
Justified(page, code) ==
    \E t \in since[page] : IF code.p THEN t # None /\ ~Permitted(t, code.w, code.u, wp_enable)
                                     ELSE t = None
FaultsJustified ==
    [][/\ page_fault' # None => /\ page_fault'.page \in {served.demand.page, served.demand.second}
                                /\ Justified(page_fault'.page, page_fault'.code)
       /\ pf_fault' # None /\ ~pf_drop' =>
             pf_fault'.page = pf_page' /\ Justified(pf_page', pf_fault'.code)]_vars

\* A demand ends without a fault only when each of its halves has been taken once,
\* in order, and a read's bytes are those its own accesses returned.
Halves(r) == IF Crosses(r) THEN <<r.page, r.second>> ELSE <<r.page>>
Served(r, accesses) ==
    /\ Len(accesses) = Len(Halves(r))
    /\ \A k \in DOMAIN accesses :
          /\ accesses[k].write = (r.op = "write")
          /\ r.kind = "mem" => accesses[k].kind = "mem" /\ accesses[k].page = Halves(r)[k]
          /\ r.kind # "mem" => accesses[k].kind = "io" /\ accesses[k].at = k
Ends == mem_servicing /\ ~mem_servicing' /\ page_fault' = None
OutcomeComplete ==
    [][Ends /\ served.demand.op # "check" =>
         LET r == served.demand  taken == served'.accesses
         IN  /\ Served(r, taken)
             /\ r.op = "read" /\ r.kind # "inta" =>
                   opr' = <<taken[1].at, IF Crosses(r) THEN taken[2].at ELSE None>>]_vars

\* A check for write permission that passes has seen the permission on the page of
\* each half of the access.
CheckedHalves ==
    [][Ends /\ served.demand.op = "check" /\ pg_enable =>
         \A page \in {served.demand.page, served.demand.second} \ {None} :
            \E t \in since[page] : t # None /\ Permitted(t, TRUE, served.demand.user, wp_enable)]_vars

\* A line the prefetcher will use is the one it is waiting for, fetched through a
\* translation that was current and open to its privilege.
GoodLine ==
    [][icache # None /\ icache' = None /\ ~pf_drop
       => icache.page = pf_page /\ icache.asked = pf_page /\ icache.current]_vars

\* The walker's write-backs only mark: an entry gets its accessed bit, a table entry
\* its dirty bit for a store, nothing else, and only when the access is permitted.
WriteBacksOnlyMark ==
    [][w_state # "IDLE" =>
         /\ \A root \in Roots : pdes'[root] # pdes[root] =>
               pdes'[root] = [pdes[root] EXCEPT !.a = TRUE]
         /\ \A table \in Tables, page \in Pages : ptes'[table][page] # ptes[table][page] =>
               /\ page = saved.page /\ ptes[table][page].p
               /\ ptes'[table][page] = [ptes[table][page] EXCEPT !.a = TRUE, !.d = @ \/ saved.write]
         /\ <<pdes', ptes'>> # <<pdes, ptes>> =>
               Permitted(Combined(pde, pte), saved.write, saved.user, saved.wp)]_vars

\* Every register has its type, each cache carries one request at a time, and whoever waits for its answer is
\* owed one: the walker for its accesses, a demand for its own, the prefetcher for a
\* line; nothing is left over when the next demand, or a lookup that presents its
\* own request, may come.
Demanded == IF dcache_req # None THEN dcache_req ELSE dcache
AnswersAwaited ==
    /\ TypeOK
    /\ dcache_req = None \/ dcache = None
    /\ icache_req = None \/ icache = None
    /\ walk_biu_pending = (Demanded # None /\ Demanded.kind = "walk")
    /\ (fast_path_pending \/ state \in {"CROSS_WAIT1", "CROSS_WAIT2"}) = (Demanded # None /\ Demanded.kind # "walk")
    /\ (pf_fast_pending \/ state = "PF_BIU_WAIT") = (icache_req # None \/ icache # None)
    /\ ~(pf_fast_pending /\ state \in {"PF_WALKING", "PF_BIU_WAIT"})

\* While the FSM is idle the walker is, so that INVLPG, acknowledged then, cannot be
\* followed by the refill of a walk that read the tables before it.
IdleMeansNoWalk ==
    s_idle => w_state = "IDLE" /\ ~walk_request /\ ~walk_biu_pending

\* Liveness: the clock comes, and the D-cache leaves no request standing, neither one
\* presented nor one it took.  A clock may change nothing only while the unit waits
\* for a request or an answer, so the first conjunct asks no more than WF_vars(Next).
Resting  == state \in {"IDLE", "CROSS_WAIT1", "CROSS_WAIT2", "PF_BIU_WAIT"} \/ walk_biu_pending
Fairness == /\ []<>Resting \/ []<><<TRUE>>_vars
            /\ []<>(dcache_req = None) /\ []<>(dcache = None) /\ []<>~req_mem_dcache_candidate
LiveSpec == Spec /\ Fairness

\* Every demand comes to an end, through walks, faults and second halves: no state
\* of the FSM waits for an answer that has come already or never comes.
DemandsEnd == mem_servicing ~> ~mem_servicing
=============================================================================
