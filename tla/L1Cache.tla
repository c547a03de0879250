------------------------------ MODULE L1Cache ------------------------------
(* The L1 data cache of l1_cache.sv, clock by clock: a write-through,          *)
(* no-allocate, set-associative cache with a coalescing store queue, the       *)
(* lookup/fill machine, the VIPT load probe and the set-wide snoop.            *)
(*                                                                             *)
(* One step of Next is one clock edge.  The state machine's step is one of     *)
(* the actions of Machine; the registers outside its case statement all move   *)
(* on the same edge and are the conjuncts of Datapath.                         *)
(*                                                                             *)
(* Abstractions: a physical address is [tag, set, word] over small sets; the   *)
(* victim way is any way (module CacheOps has the replacement tree, no         *)
(* property here depends on the choice); the store queue's ring is the         *)
(* sequence of its live slots, oldest first; a register that no later cycle    *)
(* reads before it is loaded again holds a fixed value.                        *)
EXTENDS CacheOps, FiniteSets

CONSTANTS
    Tag,            \* address tags
    LastSet,        \* the highest set index
    LastWord,       \* the highest dword of a line
    Way,            \* the ways of a set, numbered from 0
    Lane, Byte,     \* byte lanes of a dword, values of a byte
    Depth,          \* STOREQ_DEPTH
    Protected,      \* the tags of the write-protected UMA ROM window
    Uncached,       \* {FALSE} cache enabled, {TRUE} disabled, BOOLEAN toggling
    Probes,         \* whether hardwired loads probe the cache
    Snoops,         \* whether external writers snoop
    ExternalWrites, \* when external writers write: "never", "outside fills",
                    \* "other lines" than the one being filled, or "any time"
    None            \* no value

CacheSet == 0..LastSet
Word     == 0..LastWord
Dword    == [Lane -> Byte]
Addr     == [tag : Tag, set : CacheSet, word : Word]

ASSUME DepthAssumption   == Depth \in Nat /\ Depth >= 2
ASSUME IndexAssumption   == LastSet \in Nat /\ LastWord \in Nat /\ Way \subseteq Nat
ASSUME FeatureAssumption ==
    /\ Uncached \subseteq BOOLEAN /\ Probes \in BOOLEAN /\ Snoops \in BOOLEAN
    /\ ExternalWrites \in {"never", "outside fills", "other lines", "any time"}
    /\ Protected \subseteq Tag
ASSUME NoneAssumption    ==
    None \notin Tag /\ None \notin Byte /\ None \notin Addr /\ None \notin Dword

Mask     == (SUBSET Lane) \ {{}}
NoDword  == [l \in Lane |-> None]

Line(a)      == [tag |-> a.tag, set |-> a.set]
Loc(t, s, w) == [tag |-> t, set |-> s, word |-> w]

\* What the core can present, A20 masking and device routing already done.
Load  == [write : {FALSE}, addr : Addr, be : {{}}, data : {NoDword}, uncacheable : Uncached]
Store == [write : {TRUE}, addr : Addr, be : Mask, data : Dword, uncacheable : Uncached]
\* No request: what an idle cycle captures and S_LOOKUP never sees.
NoReq == [write |-> FALSE, addr |-> None]

VARIABLES
    state,            \* the cache FSM
    init_set,         \* the set S_RESET_INIT clears next
    req,              \* the registered request: req_*_r
    req_valid_r,
    ready_r,          \* cpu_ready
    lookup_wr_room_r, \* the queue has room for a store behind the one in S_LOOKUP
    resp,             \* [valid, data]: resp_valid_r and dout_r
    fill,             \* the fill registers, with the wide line
    storeq,           \* the live slots, oldest first
    storeq_draining,
    memport,          \* mem_*_r
    tags, ways,       \* tag RAMs (None: invalid) and data RAMs, per way and set
    rd,               \* the synchronous read result: a tag and a dword per way
    patch_fwd,        \* the data RAM write of the previous cycle
    snoop_r,          \* the set of the registered snoop, or None
    probe,            \* the set and word EX resolves this cycle, or None
    mem,              \* external: memory
    reading,          \* external: the read the bus has accepted: beats left, next dword
    arch,             \* history: memory as the program order of stores defines it
    pending,          \* history: the address of the load the core waits for
    wrote             \* history: the dword an external writer wrote on the last clock, or None

fsm      == <<state, init_set, req, req_valid_r, ready_r, lookup_wr_room_r, resp, fill>>
path     == <<storeq, storeq_draining, memport, tags, ways, rd, patch_fwd, snoop_r, probe>>
external == <<mem, reading>>
history  == <<arch, pending, wrote>>
vars     == <<fsm, path, external, history>>

NoFill == [requested |-> FALSE, install |-> FALSE]
NoRd   == [tag |-> [w \in Way |-> None], data |-> [w \in Way |-> NoDword]]
NoPort == [valid |-> FALSE, use |-> None]
NoPatch == [valid |-> FALSE]
NoRead == [left |-> 0, addr |-> None]

-----------------------------------------------------------------------------
\* Wires.

protect     == req.write /\ req.addr.tag \in Protected
storeLookup == state = "LOOKUP" /\ req_valid_r /\ req.write /\ ~protect

idle_preread == state = "IDLE" /\ ready_r

storeq_empty == storeq = << >>
storeq_full  == Len(storeq) = Depth
\* Mutant: stores_drained that forgets the store still in S_LOOKUP.
stores_drained_QueueOnly == storeq_empty /\ ~storeq_draining
\* Device transactions wait for this (bus_unit: direct_req_ordered).
stores_drained == storeq_empty /\ ~storeq_draining /\ ~(req_valid_r /\ req.write /\ ~protect)

\* bus.ready: the bus takes the request of memport on this edge.
storeq_dequeuing(bus)  == storeq_draining /\ bus.ready
storeq_can_accept(bus) == ~storeq_full \/ storeq_dequeuing(bus)

\* Mutant: the ready after an access no longer looks at the queue.
ready_when_idle_Always(bus) == TRUE
ready_when_idle(bus) == storeq_can_accept(bus)

\* A store may follow the one now in S_LOOKUP; store_patch_busy withdraws the
\* offer, which is a cycle in which no store is presented.
lookup_wr_open == storeLookup /\ lookup_wr_room_r
cpu_wr_ready   == ready_r \/ lookup_wr_open

\* Mutant: a hit vector without way 0.
HitWays_NoWay0(t) == {w \in Way : w # 0 /\ rd.tag[w] = t}
HitWays(t)  == {w \in Way : rd.tag[w] = t}
lookup_hit  == HitWays(req.addr.tag) # {}
lookup_way  == Least(HitWays(req.addr.tag))

\* Mutant: no forwarding of the write that raced the read.
WayData_Ram(w, s, d) == rd.data[w]
\* The RAM read, or the registered patch that raced it.
WayData(w, s, d) ==
    IF patch_fwd.valid /\ patch_fwd.way = w /\ patch_fwd.set = s /\ patch_fwd.word = d
    THEN patch_fwd.data ELSE rd.data[w]
lookup_way_data == WayData(lookup_way, req.addr.set, req.addr.word)

lookup_read_hit_now == state = "LOOKUP" /\ req_valid_r /\ ~req.write
                       /\ ~req.uncacheable /\ lookup_hit
cpu_resp_valid == lookup_read_hit_now \/ resp.valid
cpu_dout == IF lookup_read_hit_now THEN Forward(storeq, req.addr, lookup_way_data)
                                   ELSE resp.data

\* The VIPT load: EX translates the probed word to tag t.
vipt_resolve_hit(t)  == HitWays(t) # {}
vipt_resolve_data(t) ==
    LET a == Loc(t, probe.set, probe.word)
        d == WayData(Least(HitWays(t)), a.set, a.word)
    IN  IF storeLookup /\ req.addr = a THEN Merge(d, req.data, req.be) ELSE d

drain_block_state ==
    \/ state \in {"RESET", "FILL", "BYPASS"}
    \/ state = "LOOKUP" /\ ~req.write /\ (IF req.uncacheable THEN storeq_empty ELSE ~lookup_hit)
portFree(bus)       == ~memport.valid /\ ~bus.busy
drain_issue_now(bus) == ~storeq_empty /\ ~storeq_draining /\ portFree(bus) /\ ~drain_block_state
bypassIssue(bus) == /\ state = "LOOKUP" /\ ~req.write /\ req.uncacheable
                    /\ storeq_empty /\ ~storeq_draining /\ portFree(bus)
\* Mutant: a fill waits for an empty queue.
fillIssue_Drained(bus) == state = "FILL" /\ ~fill.requested /\ portFree(bus) /\ storeq_empty
\* Mutant: a fill asks again while its read is under way.
fillIssue_Again(bus) == state = "FILL" /\ portFree(bus)
fillIssue(bus)   == state = "FILL" /\ ~fill.requested /\ portFree(bus)

\* Coalescing into the newest slot, unless that slot is on its way to memory.
storeq_merge_lookup ==
    /\ ~storeq_empty /\ ~req.uncacheable
    /\ storeq[Len(storeq)].addr = req.addr
    /\ ~(Len(storeq) = 1 /\ storeq_draining)
Coalesced(e) == [e EXCEPT !.data = Merge(e.data, req.data, req.be), !.be = e.be \cup req.be]
\* Mutant: a store that merges into the slot being launched is left out of the launch.
drain_merge_now_Dropped == FALSE
drain_merge_now == storeLookup /\ storeq_merge_lookup /\ Len(storeq) = 1

enqueued ==
    IF ~storeLookup THEN storeq
    ELSE IF storeq_merge_lookup
         THEN [storeq EXCEPT ![Len(storeq)] = Coalesced(@)]
         ELSE Append(storeq, [addr |-> req.addr, data |-> req.data, be |-> req.be])
storeq_next(bus) == IF storeq_dequeuing(bus) THEN Tail(enqueued) ELSE enqueued

\* The bus returns the next dword, or the line, of the read it took; the cache
\* puts the queued stores for the dword it believes this to be over it.
mem_dout     == mem[reading.addr]
fill_addr_dw == [req.addr EXCEPT !.word = fill.count]
\* Mutant: a fill word without the queued stores.
fillWord_Memory == mem_dout
fillWord     == Forward(storeq, fill_addr_dw, mem_dout)
wideLine     == [d \in Word |-> Forward(storeq, [req.addr EXCEPT !.word = d],
                                        mem[[reading.addr EXCEPT !.word = d]])]
tagFillWrite(bus) == state = "FILL" /\ (bus.resp = "beat" \/ fill.install) /\ fill.count = LastWord
\* Mutant: a store that coalesces does not patch the line.
data_store_write_NotMerged == storeLookup /\ lookup_hit /\ ~storeq_merge_lookup
\* Mutant: a store does not patch the line while the cache is disabled.
data_store_write_Enabled == storeLookup /\ lookup_hit /\ ~req.uncacheable
data_store_write  == storeLookup /\ lookup_hit
data_fill_write(bus) == state = "FILL" /\ (bus.resp = "beat" \/ fill.install)
-----------------------------------------------------------------------------
\* The state machine.  cpu is the request presented while cpu_ready (or, for a
\* store, cpu_wr_ready) offers to take it, or None.

\* resp_valid_r falls unless a fill or a bypass raises it.
NoResponse == resp' = [valid |-> FALSE, data |-> None]

Retire(ready) ==
    /\ state' = "IDLE" /\ req' = NoReq /\ req_valid_r' = FALSE
    /\ ready_r' = ready

ResetInit(cpu, bus) ==
    /\ state = "RESET" /\ cpu = None
    /\ IF init_set = LastSet
       THEN Retire(ready_when_idle(bus)) /\ init_set' = init_set
       ELSE init_set' = init_set + 1 /\ UNCHANGED <<state, req, req_valid_r, ready_r>>
    /\ NoResponse
    /\ UNCHANGED <<lookup_wr_room_r, fill>>

\* can_accept_cpu is the cache's own test; the core only saw ready_r.
can_accept_cpu(cpu, bus) ==
    ~cpu.write \/ cpu.addr.tag \in Protected \/ storeq_can_accept(bus)

Idle(cpu, bus) ==
    /\ state = "IDLE" /\ (cpu # None => ready_r)
    /\ IF cpu # None /\ can_accept_cpu(cpu, bus)
       THEN state' = "LOOKUP" /\ req' = cpu /\ req_valid_r' = TRUE /\ ready_r' = FALSE
       ELSE Retire(ready_when_idle(bus))
    /\ lookup_wr_room_r' = (Len(storeq) <= Depth - 2)
    /\ NoResponse
    /\ UNCHANGED <<init_set, fill>>

LookupProtected(cpu, bus) ==
    /\ state = "LOOKUP" /\ protect /\ cpu = None
    /\ Retire(ready_when_idle(bus)) /\ NoResponse
    /\ UNCHANGED <<init_set, lookup_wr_room_r, fill>>

\* A posted store: the next one may already be accepted behind it.
LookupStore(cpu, bus) ==
    /\ state = "LOOKUP" /\ req.write /\ ~protect
    /\ cpu # None => cpu.write /\ lookup_wr_open
    /\ IF cpu # None
       THEN req' = cpu /\ req_valid_r' = TRUE /\ ready_r' = FALSE /\ state' = state
       ELSE Retire(Len(storeq_next(bus)) # Depth)
    /\ lookup_wr_room_r' = (Len(storeq_next(bus)) <= Depth - 2)
    /\ NoResponse
    /\ UNCHANGED <<init_set, fill>>

\* An uncacheable read waits for the queue to drain, then takes the port.
LookupUncached(cpu, bus) ==
    /\ state = "LOOKUP" /\ ~req.write /\ req.uncacheable /\ cpu = None
    /\ state' = IF bypassIssue(bus) THEN "BYPASS" ELSE state
    /\ req_valid_r' = FALSE /\ ready_r' = FALSE /\ NoResponse
    /\ UNCHANGED <<init_set, req, lookup_wr_room_r, fill>>

LookupHit(cpu, bus) ==
    /\ state = "LOOKUP" /\ ~req.write /\ ~req.uncacheable /\ lookup_hit /\ cpu = None
    /\ Retire(ready_when_idle(bus)) /\ NoResponse
    /\ UNCHANGED <<init_set, lookup_wr_room_r, fill>>

LookupMiss(cpu) ==
    /\ state = "LOOKUP" /\ ~req.write /\ ~req.uncacheable /\ ~lookup_hit /\ cpu = None
    /\ \E victim \in Way :
         fill' = [set |-> req.addr.set, tag |-> req.addr.tag, way |-> victim, count |-> 0,
                  target |-> req.addr.word, requested |-> FALSE, install |-> FALSE,
                  line |-> None]
    /\ state' = "FILL" /\ req_valid_r' = FALSE /\ ready_r' = FALSE /\ NoResponse
    /\ UNCHANGED <<init_set, req, lookup_wr_room_r>>

\* The fill ends with its last word; the fill registers are then dead.
NextFillWord(bus, line) ==
    IF fill.count = LastWord
    THEN Retire(ready_when_idle(bus)) /\ fill' = NoFill
    ELSE /\ fill' = [fill EXCEPT !.count = @ + 1, !.line = line]
         /\ ready_r' = FALSE /\ UNCHANGED <<state, req, req_valid_r>>

FillWait(cpu, bus) ==
    /\ state = "FILL" /\ ~fill.install /\ bus.resp = "none" /\ cpu = None
    /\ fill' = [fill EXCEPT !.requested = @ \/ fillIssue(bus)]
    /\ ready_r' = FALSE /\ NoResponse
    /\ UNCHANGED <<state, init_set, req, req_valid_r, lookup_wr_room_r>>

FillBeat(cpu, bus) ==
    /\ state = "FILL" /\ ~fill.install /\ bus.resp = "beat" /\ cpu = None
    /\ NextFillWord(bus, None)
    /\ IF fill.count = fill.target THEN resp' = [valid |-> TRUE, data |-> fillWord]
                                   ELSE NoResponse
    /\ UNCHANGED <<init_set, lookup_wr_room_r>>

FillLine(cpu, bus) ==
    /\ state = "FILL" /\ ~fill.install /\ bus.resp = "line" /\ cpu = None
    /\ fill' = [fill EXCEPT !.install = TRUE, !.line = wideLine]
    /\ resp' = [valid |-> TRUE, data |-> wideLine[fill.target]]
    /\ ready_r' = FALSE
    /\ UNCHANGED <<state, init_set, req, req_valid_r, lookup_wr_room_r>>

FillInstall(cpu, bus) ==
    /\ state = "FILL" /\ fill.install /\ cpu = None
    /\ NextFillWord(bus, fill.line) /\ NoResponse
    /\ UNCHANGED <<init_set, lookup_wr_room_r>>

BypassWait(cpu, bus) ==
    /\ state = "BYPASS" /\ cpu = None
    /\ IF bus.resp = "beat"
       THEN /\ resp' = [valid |-> TRUE, data |-> Forward(storeq, req.addr, mem_dout)]
            /\ Retire(ready_when_idle(bus))
       ELSE NoResponse /\ ready_r' = FALSE /\ UNCHANGED <<state, req, req_valid_r>>
    /\ UNCHANGED <<init_set, lookup_wr_room_r, fill>>

Machine(cpu, bus) ==
    \/ ResetInit(cpu, bus)      \/ Idle(cpu, bus)
    \/ LookupProtected(cpu, bus) \/ LookupStore(cpu, bus) \/ LookupUncached(cpu, bus)
    \/ LookupHit(cpu, bus)      \/ LookupMiss(cpu)
    \/ FillWait(cpu, bus)       \/ FillBeat(cpu, bus)
    \/ FillLine(cpu, bus)       \/ FillInstall(cpu, bus)
    \/ BypassWait(cpu, bus)
-----------------------------------------------------------------------------
\* The registers outside the state machine: queue, port, RAMs, snoop.

MemPort(bus) ==
    memport' =
      CASE drain_issue_now(bus) ->
             LET e == IF drain_merge_now THEN Coalesced(Head(storeq)) ELSE Head(storeq)
             IN  [valid |-> TRUE, use |-> "drain", addr |-> e.addr, data |-> e.data, be |-> e.be]
        [] bypassIssue(bus) -> [valid |-> TRUE, use |-> "bypass", addr |-> req.addr]
        [] fillIssue(bus)   -> [valid |-> TRUE, use |-> "fill", addr |-> [req.addr EXCEPT !.word = 0]]
        [] OTHER            -> IF bus.ready THEN NoPort ELSE memport

StoreQueue(bus) ==
    /\ storeq' = storeq_next(bus)
    /\ storeq_draining' = IF drain_issue_now(bus) THEN TRUE
                          ELSE storeq_draining /\ ~bus.ready

\* One write port per way RAM: a fill's tag write displaces the clear.
TagRams(bus) ==
    LET clear == IF state = "RESET" THEN init_set ELSE snoop_r
    IN  tags' = [w \in Way |->
                   IF tagFillWrite(bus) /\ w = fill.way
                   THEN [tags[w] EXCEPT ![fill.set] = fill.tag]
                   ELSE [s \in CacheSet |-> IF s = clear THEN None ELSE tags[w][s]]]

DataRams(bus) ==
    ways' = CASE data_store_write ->
                   [ways EXCEPT ![lookup_way][req.addr.set][req.addr.word] =
                                  Merge(lookup_way_data, req.data, req.be)]
              [] data_fill_write(bus) ->
                   [ways EXCEPT ![fill.way][fill.set][fill.count] =
                                  IF fill.install THEN fill.line[fill.count] ELSE fillWord]
              [] OTHER -> ways

PatchForward ==
    patch_fwd' = IF data_store_write
                 THEN [valid |-> TRUE, way |-> lookup_way, set |-> req.addr.set,
                       word |-> req.addr.word,
                       data |-> Merge(lookup_way_data, req.data, req.be)]
                 ELSE NoPatch

\* The synchronous read of the RAMs as they are before this edge.
Preread(cpu, p) ==
    rd' = IF p # None \/ cpu # None
          THEN LET a == IF p # None THEN p ELSE cpu.addr
               IN  [tag  |-> [w \in Way |-> tags[w][a.set]],
                    data |-> [w \in Way |-> ways[w][a.set][a.word]]]
          ELSE IF state' = "LOOKUP" THEN rd ELSE NoRd

Datapath(cpu, p, s, bus) ==
    /\ MemPort(bus) /\ StoreQueue(bus)
    /\ TagRams(bus) /\ DataRams(bus) /\ PatchForward /\ Preread(cpu, p)
    /\ snoop_r' = s
    /\ probe' = p
-----------------------------------------------------------------------------
\* What surrounds the cache.

\* The bus takes a presented request, is busy with another source's transfer,
\* returns a beat of the accepted read, or the whole line of a fill.
Bus == {b \in [ready : BOOLEAN, busy : BOOLEAN, resp : {"none", "beat", "line"}] :
          /\ b.ready => memport.valid
          /\ b.busy => ~memport.valid
          /\ b.resp # "none" => reading.left > 0
          /\ b.resp = "line" => reading.left = LastWord + 1 /\ state = "FILL"}

\* The core presents a request only where the registered readies offer it.
Offered == {None} \cup (IF ready_r THEN Load ELSE {})
                  \cup (IF cpu_wr_ready THEN Store ELSE {})

\* A load in D2 reads the RAMs beside an idle cycle or a store's lookup, unless
\* a demand request owns the read port; it may share a store's own read.
ProbeTaken(cpu) ==
    {None} \cup
    {p \in [set : CacheSet, word : Word] :
       /\ Probes
       /\ \/ cpu = None /\ (idle_preread \/ storeLookup)
          \/ /\ cpu # None /\ cpu.write /\ idle_preread
             /\ p.set = cpu.addr.set /\ p.word = cpu.addr.word}

\* The snoop of an external writer reaches the snoop register before its write
\* can commit.  The writer does not write a dword the core has a store in flight to.
InFlight(a, cpu) == \/ \E k \in DOMAIN storeq : storeq[k].addr = a
                    \/ req_valid_r /\ req.addr = a
                    \/ cpu # None /\ cpu.addr = a
WriterFree(a) ==
    CASE ExternalWrites = "never"         -> FALSE
      [] ExternalWrites = "outside fills" -> state # "FILL"
      [] ExternalWrites = "other lines"   -> state = "FILL" => Line(req.addr) # Line(a)
      [] ExternalWrites = "any time"      -> TRUE
Written(cpu) ==
    {None} \cup {x \in [addr : Addr, data : Dword] :
                   x.addr.set = snoop_r /\ WriterFree(x.addr) /\ ~InFlight(x.addr, cpu)}
Snooped == IF Snoops THEN {None} \cup CacheSet ELSE {None}

Memory(x, bus) ==
    /\ mem' = LET m == IF x = None THEN mem ELSE [mem EXCEPT ![x.addr] = x.data]
              IN  IF bus.ready /\ memport.use = "drain"
                  THEN [m EXCEPT ![memport.addr] = Merge(@, memport.data, memport.be)] ELSE m
    /\ reading' =
         CASE bus.ready /\ memport.use = "fill"   -> [left |-> LastWord + 1, addr |-> memport.addr]
           [] bus.ready /\ memport.use = "bypass" -> [left |-> 1, addr |-> memport.addr]
           [] bus.resp = "line" \/ (bus.resp = "beat" /\ reading.left = 1) -> NoRead
           [] bus.resp = "beat" /\ reading.left > 1 ->
                [left |-> reading.left - 1, addr |-> [reading.addr EXCEPT !.word = @ + 1]]
           [] OTHER -> reading

History(cpu, x) ==
    /\ arch' = LET m == IF x = None THEN arch ELSE [arch EXCEPT ![x.addr] = x.data]
               IN  IF cpu # None /\ cpu.write /\ cpu.addr.tag \notin Protected
                   THEN [m EXCEPT ![cpu.addr] = Merge(@, cpu.data, cpu.be)] ELSE m
    /\ pending' = IF cpu # None /\ ~cpu.write THEN cpu.addr
                  ELSE IF cpu_resp_valid THEN None ELSE pending
    /\ wrote' = IF x = None THEN None ELSE x.addr

Init ==
    /\ state = "RESET" /\ init_set = 0
    /\ req = NoReq /\ req_valid_r = FALSE /\ ready_r = FALSE /\ lookup_wr_room_r = FALSE
    /\ resp = [valid |-> FALSE, data |-> None] /\ fill = NoFill
    /\ storeq = << >> /\ storeq_draining = FALSE /\ memport = NoPort
    /\ tags \in [Way -> [CacheSet -> Tag \cup {None}]]
    /\ \E junk \in Dword : ways = [w \in Way |-> [s \in CacheSet |-> [d \in Word |-> junk]]]
    /\ rd = NoRd /\ patch_fwd = NoPatch /\ snoop_r = None /\ probe = None
    /\ \E zero \in Dword : mem = [a \in Addr |-> zero]
    /\ reading = NoRead /\ arch = mem /\ pending = None /\ wrote = None

Clock(cpu, bus, p, x, s) ==
    /\ Machine(cpu, bus)
    /\ Datapath(cpu, p, s, bus)
    /\ Memory(x, bus)
    /\ History(cpu, x)

Next == \E bus \in Bus : \E cpu \in Offered : \E p \in ProbeTaken(cpu) :
        \E x \in Written(cpu) : \E s \in Snooped : Clock(cpu, bus, p, x, s)

Spec == Init /\ [][Next]_vars
-----------------------------------------------------------------------------
\* Properties.

Slot == [addr : Addr, data : Dword, be : Mask]

\* Every register holds a value the code can put there; the queue never holds
\* more stores than it has slots.
TypeOK ==
    /\ state \in {"RESET", "IDLE", "LOOKUP", "FILL", "BYPASS"}
    /\ init_set \in CacheSet
    /\ req \in Load \cup Store \cup {NoReq}
    /\ req_valid_r \in BOOLEAN /\ ready_r \in BOOLEAN /\ lookup_wr_room_r \in BOOLEAN
    /\ resp \in [valid : {TRUE}, data : Dword] \cup [valid : {FALSE}, data : {None}]
    /\ fill \in {NoFill} \cup
          [set : CacheSet, tag : Tag, way : Way, count : Word, target : Word,
           requested : BOOLEAN, install : BOOLEAN, line : {None} \cup [Word -> Dword]]
    /\ storeq \in Seq(Slot) /\ Len(storeq) <= Depth
    /\ storeq_draining \in BOOLEAN
    /\ memport \in {NoPort} \cup
          [valid : {TRUE}, use : {"drain"}, addr : Addr, data : Dword, be : Mask] \cup
          [valid : {TRUE}, use : {"bypass", "fill"}, addr : Addr]
    /\ tags \in [Way -> [CacheSet -> Tag \cup {None}]]
    /\ ways \in [Way -> [CacheSet -> [Word -> Dword]]]
    /\ rd \in [tag : [Way -> Tag \cup {None}], data : [Way -> Dword \cup {NoDword}]]
    /\ patch_fwd \in {NoPatch} \cup
          [valid : {TRUE}, way : Way, set : CacheSet, word : Word, data : Dword]
    /\ snoop_r \in CacheSet \cup {None}
    /\ probe \in [set : CacheSet, word : Word] \cup {None}
    /\ mem \in [Addr -> Dword] /\ arch \in [Addr -> Dword]
    /\ reading \in {NoRead} \cup [left : 1..LastWord + 1, addr : Addr]
    /\ pending \in Addr \cup {None} /\ wrote \in Addr \cup {None}

\* The stores memory still owes, oldest first: the queue and the one in S_LOOKUP.
Posted == IF storeLookup
          THEN Append(storeq, [addr |-> req.addr, data |-> req.data, be |-> req.be])
          ELSE storeq

\* No posted store is lost, duplicated or applied out of order: memory with the
\* posted stores over it is memory as the program order of stores defines it
\* (l1_cache: enqueue, coalescing, drain launch and its same-cycle merge).
PostedStoresComplete == \A a \in Addr : Forward(Posted, a, mem[a]) = arch[a]

\* The ready the core saw is a promise: a cache that offers to take a request has
\* the slot for it, whatever drains or merges in between (cpu_ready/cpu_wr_ready
\* are registered a cycle before can_accept_cpu and the enqueue).
ReadyKept ==
    /\ ready_r => state = "IDLE" /\ ~storeq_full
    /\ lookup_wr_open => Len(enqueued) < Depth

\* A load returns the youngest store to each of its bytes, from the line, the
\* patch register, the queue or memory, and only while a load waits.  A write of
\* an external writer may commit on the clock on which the load reads the RAMs.
LoadsReturnYoungest ==
    cpu_resp_valid => pending # None /\ (cpu_dout = arch[pending] \/ wrote = pending)

\* A probe launched on the registered readies resolves a clock later, on the reads it asked
\* for: beside an idle cache or the lookup of a store, never in a load's lookup, a fill or a
\* bypass (VIPT resolve while cache is not idle). A hardwired load that hits then sees every older
\* store, those the preread raced included (vipt_patch_fwd_hit, vipt_lookup_store_match).
ProbesReturnYoungest ==
    probe # None =>
      /\ state = "IDLE" \/ (state = "LOOKUP" /\ req_valid_r /\ req.write)
      /\ \A t \in Tag : LET a == Loc(t, probe.set, probe.word)
                        IN  vipt_resolve_hit(t) => vipt_resolve_data(t) = arch[a] \/ wrote = a

\* A line is in at most one way of its set.
OneWayPerLine ==
    \A s \in CacheSet : \A v, w \in Way :
        state # "RESET" /\ tags[v][s] # None /\ tags[v][s] = tags[w][s] => v = w

\* A valid line holds what a load must see: External memory writers invalidate
\* both caches (memory.sv) before their write commits.  A fill overwrites
\* its victim word by word under the old tag; no lookup can start meanwhile.
Filling(w, s) == state = "FILL" /\ fill.way = w /\ fill.set = s
NoStaleLine ==
    \A s \in CacheSet : \A w \in Way :
        tags[w][s] # None /\ state # "RESET" /\ ~Filling(w, s) =>
          \A d \in Word :
            LET a == Loc(tags[w][s], s, d)
            IN  ways[w][s][d] = arch[a]
                \/ (storeLookup /\ req.addr = a /\ Merge(ways[w][s][d], req.data, req.be) = arch[a])

\* One read at a time, in step with the FSM: responses carry no address, so the
\* dword the bus returns next must be the one fill_addr_dw names.  A fill or a
\* bypass asks once, and nothing is due from the bus in any other state.
Asked(use) == memport.valid /\ memport.use = use
ReadInStep ==
    /\ Asked("bypass") => state = "BYPASS" /\ reading.left = 0 /\ memport.addr = req.addr
    /\ Asked("fill") => /\ state = "FILL" /\ fill.requested /\ ~fill.install /\ fill.count = 0
                        /\ memport.addr = fill_addr_dw /\ reading.left = 0
    /\ reading.left > 0 =>
         \/ state = "BYPASS" /\ reading.left = 1 /\ reading.addr = req.addr
         \/ /\ state = "FILL" /\ fill.requested /\ ~fill.install
            /\ reading.addr = fill_addr_dw /\ fill.count = LastWord + 1 - reading.left

\* stores_drained means what the device path takes it for: every store the core
\* was told is done has reached memory.
DrainedMeansVisible == stores_drained => mem = arch

\* The cache, its queue and memory implement one atomic memory: the value the
\* core sees is memory under the posted stores.
Memory1 == INSTANCE AtomicMemory WITH
    ReadOnly <- [tag : Protected, set : CacheSet, word : Word],
    value    <- [a \in Addr |-> Forward(Posted, a, mem[a])],
    waiting  <- pending,
    answer   <- IF cpu_resp_valid THEN cpu_dout ELSE None
ImplementsAtomicMemory == Memory1!MemorySpec
-----------------------------------------------------------------------------
\* Liveness.  Every clock edge comes; the bus takes a request that stays
\* presented, returns the beats of a read it took, and again and again has a
\* clock in which no other source's transfer keeps it busy.
AnyClock(Use(_)) == \E bus \in Bus : Use(bus) /\
                     \E cpu \in Offered : \E p \in ProbeTaken(cpu) :
                       \E x \in Written(cpu) : \E s \in Snooped : Clock(cpu, bus, p, x, s)
Edge    == Next
Taken   == LET Use(bus) == bus.ready            IN AnyClock(Use)
Beat    == LET Use(bus) == bus.resp # "none"    IN AnyClock(Use)
BusFree == LET Use(bus) == ~bus.busy            IN AnyClock(Use)
Fairness == /\ WF_vars(Edge) /\ WF_vars(Taken) /\ WF_vars(Beat) /\ WF_vars(BusFree)
LiveSpec == Spec /\ Fairness

\* Every load the cache takes is answered, whatever drains, misses and snoops
\* are in its way.
LoadsAnswered == pending # None ~> cpu_resp_valid

\* The cache never stops taking stores: a full queue drains and a load or an
\* uncacheable access ends.
TakesStores == []<>cpu_wr_ready

\* The cache never wedges: loads are answered, and stores are taken again and again.
KeepsServing == LoadsAnswered /\ TakesStores
=============================================================================
