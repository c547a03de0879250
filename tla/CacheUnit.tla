----------------------------- MODULE CacheUnit -----------------------------
(* Instruction-side coherence: the I-cache of l1_icache.sv with the wiring of   *)
(* cache_unit.sv that tells it of the core's stores and of external writers.    *)
(*                                                                              *)
(* The D-cache is seen from this side only: the store in its S_LOOKUP, which is *)
(* the patch, and the queue of the stores memory does not have yet (L1Cache     *)
(* models it in full).  The bus, memory and the external writers are external   *)
(* parts.  bus_unit takes no D-cache write while an instruction fill is         *)
(* outstanding, so the queue drains only before a fill is taken and after it.   *)
EXTENDS L1ICache

CONSTANTS
    MaxPosted,  \* stores the D-cache can hold
    Backend,    \* the memory answers a fill with "lines", with "beats" on
                \* consecutive clocks, with "either", or with beats and "gaps"
    Uncached,   \* {FALSE} cache enabled, {TRUE} disabled, BOOLEAN toggling
    MaxHold,    \* clocks on end snoop_valid is high; 0: no external writers
    Writers     \* external writers write "other lines" than the core, or "any line"

ASSUME UnitAssumption ==
    /\ MaxPosted \in Nat \ {0} /\ MaxHold \in Nat /\ Uncached \in SUBSET BOOLEAN
    /\ Backend \in {"lines", "beats", "either", "gaps"} /\ Writers \in {"other lines", "any line"}

VARIABLES
    dstore,     \* the store in the D-cache's S_LOOKUP (dcache_store_patch_*), or None
    posted,     \* the stores of the queue, oldest first
    slot,       \* icache_write_snoop_pending and its payload: a store or None
    snoop,      \* snoop_addr, or None while snoop_valid is low
    held,       \* clocks snoop_valid has been high
    mem,        \* memory
    reading,    \* the bus owes the line of a fill
    fetching,   \* history: the line the prefetch unit waits for, or None
    wrote       \* history: the dwords external writers wrote on the last clock, or since the
                \* first beat of the fill under way

vars == <<ivars, dstore, posted, slot, snoop, held, mem, reading, fetching, wrote>>

Addr  == [tag : Tag, set : 0..LastSet, word : 0..LastWord]
Dword == [Lane -> Byte]
Mask  == (SUBSET Lane) \ {{}}
Store == [addr : Addr, data : Dword, be : Mask]
Fetch == [tag : Tag, set : 0..LastSet, uncacheable : Uncached]
ASSUME AbsentAssumption == None \notin Store \cup [tag : Tag, set : 0..LastSet]

-----------------------------------------------------------------------------
\* The patch wires.

\* The patch the I-cache sees: the pending store first, nothing beside a snoop.
icache_write_patch == IF snoop # None THEN None
                      ELSE IF slot # None THEN slot ELSE dstore

\* store_patch_busy: the D-cache accepts no store behind the one in S_LOOKUP.
store_patch_busy == snoop # None \/ slot # None

\* Mutant: a store that meets a snoop is not kept.
PatchSlot_Dropped == slot' = IF dstore # None /\ slot # None THEN dstore
                             ELSE IF snoop = None THEN None ELSE slot
PatchSlot == slot' = IF dstore # None /\ (snoop # None \/ slot # None) THEN dstore
                     ELSE IF snoop = None THEN None ELSE slot
-----------------------------------------------------------------------------
\* The D-cache's stores.

\* The store leaves S_LOOKUP for the queue: a slot of its own, or the newest.
Enqueue(q, e) ==
    IF e = None THEN {q}
    ELSE {Append(q, e)} \cup
         (IF q # << >> /\ q[Len(q)].addr = e.addr
          THEN {[q EXCEPT ![Len(q)].data = Merge(@, e.data, e.be), ![Len(q)].be = @ \cup e.be]}
          ELSE {})

DcacheStores(bus) ==
    /\ \E q \in Enqueue(IF bus.drain THEN Tail(posted) ELSE posted, dstore) :
         /\ posted' = q
         /\ dstore' \in IF Len(q) < MaxPosted /\ ~(dstore # None /\ store_patch_busy)
                        THEN Store \cup {None} ELSE {None}
-----------------------------------------------------------------------------
\* Bus, memory, external writers.

Bus == {b \in [ready : BOOLEAN, busy : BOOLEAN, resp : {"none", "beat", "line"}, drain : BOOLEAN] :
          /\ b.ready => imemport # None
          /\ b.resp # "none" => reading
          /\ b.resp = "line" => Backend \in {"lines", "either"} /\ ifill.count = 0
          /\ b.resp = "beat" => Backend # "lines"
          /\ b.resp = "none" /\ reading /\ Backend # "gaps" => ifill.count = 0
          /\ b.drain => posted # << >> /\ ~reading /\ ~b.ready}

beat == mem[[tag |-> ifill.tag, set |-> ifill.set, word |-> ifill.count]]
line == [d \in 0..LastWord |-> mem[[tag |-> ifill.tag, set |-> ifill.set, word |-> d]]]
returned(bus) == CASE bus.resp = "none" -> None [] bus.resp = "beat" -> beat [] bus.resp = "line" -> line

\* An external writer's snoop reaches the snoop register before its write can
\* commit.  It never writes a dword the core is storing to.
InFlight == {posted[k].addr : k \in DOMAIN posted} \cup (IF dstore = None THEN {} ELSE {dstore.addr})
WriterFree(a) == Writers = "other lines" => \A b \in InFlight : LineOf(b) # LineOf(a)
SnoopNext ==
    \/ /\ snoop' = None /\ held' = 0
    \/ /\ snoop # None /\ held < MaxHold /\ snoop' = snoop /\ held' = held + 1
    \/ /\ snoop = None /\ MaxHold > 0
       /\ \E a \in Addr : WriterFree(a) /\ snoop' = a
       /\ held' = 1
Written == {None} \cup (IF isnoop.valid /\ ~isnoop.patch /\ isnoop.addr \notin InFlight
                        THEN Dword ELSE {})
MemoryNext(bus, x) ==
    /\ mem' = LET m == IF x = None THEN mem ELSE [mem EXCEPT ![isnoop.addr] = x]
              IN  IF bus.drain THEN [m EXCEPT ![Head(posted).addr] =
                                       Merge(@, Head(posted).data, Head(posted).be)]
                  ELSE m
    /\ wrote' = (IF istate = "FILL" /\ ifill.count # 0 THEN wrote ELSE {})
                \cup (IF x = None THEN {} ELSE {isnoop.addr})
ReadingNext(bus) ==
    reading' = IF bus.ready THEN TRUE
               ELSE reading /\ ~lastBeat(bus)

FetchingNext(fetch) ==
    fetching' = IF fetch # None THEN LineOf(fetch)
                ELSE IF icpu_resp_valid(icache_write_patch) THEN None ELSE fetching

Offered == {None} \cup (IF istate = "IDLE" /\ iready_r THEN Fetch ELSE {})

Init ==
    /\ IInit
    /\ dstore = None /\ posted = << >> /\ slot = None /\ snoop = None /\ held = 0
    /\ \E zero \in Dword : mem = [a \in Addr |-> zero]
    /\ reading = FALSE /\ fetching = None /\ wrote = {}

Clock(fetch, bus, x) ==
    /\ IClock(fetch, icache_write_patch, snoop, bus, returned(bus))
    /\ PatchSlot /\ DcacheStores(bus)
    /\ SnoopNext
    /\ MemoryNext(bus, x) /\ ReadingNext(bus)
    /\ FetchingNext(fetch)

Next == \E bus \in Bus : \E fetch \in Offered : \E x \in Written : Clock(fetch, bus, x)

Spec == Init /\ [][Next]_vars
-----------------------------------------------------------------------------
\* Properties.

TypeOK ==
    /\ istate \in {"RESET", "IDLE", "LOOKUP", "FILL"} /\ iinit_set \in 0..LastSet
    /\ ireq \in {NoFetch} \cup
         [tag : Tag, set : 0..LastSet, uncacheable : BOOLEAN, conflict : BOOLEAN]
    /\ iready_r \in BOOLEAN
    /\ imemport \in {None} \cup [tag : Tag, set : 0..LastSet]
    /\ itags \in [Way -> [0..LastSet -> Tag \cup {None}]]
    /\ \A p \in 0..PatchqDepth - 1 : patchq[p] \in Store \cup {None}
    /\ patchq_head \in 0..PatchqDepth - 1
    /\ dstore \in Store \cup {None} /\ slot \in Store \cup {None}
    /\ posted \in Seq(Store) /\ Len(posted) <= MaxPosted
    /\ snoop \in Addr \cup {None} /\ held \in 0..MaxHold
    /\ mem \in [Addr -> Dword] /\ reading \in BOOLEAN

\* Memory as the program order of stores defines it.
arch(a) == Forward(IF dstore = None THEN posted ELSE Append(posted, dstore), a, mem[a])
\* The stores the I-cache has not been told of: in S_LOOKUP or in the slot.
Untold(a) == \/ dstore # None /\ dstore.addr = a
             \/ slot # None /\ slot.addr = a

Clearing(l) == isnoop.valid /\ LineOf(isnoop.addr) = l

\* A fetch returns every store the I-cache was told of, from the line or from
\* memory and the patches over it, and only while a fetch waits.  A write of an
\* external writer may commit on the very clock that ends the fill, or between
\* its beats.
FetchesReturnStores ==
    icpu_resp_valid(icache_write_patch) =>
      /\ fetching # None
      /\ \A d \in 0..LastWord :
           LET a == [tag |-> fetching.tag, set |-> fetching.set, word |-> d]
           IN  \/ icpu_line(icache_write_patch)[d] = arch(a)
               \/ Untold(a) /\ (ilookup_hit_now(icache_write_patch) => icache_write_patch = None)
               \/ a \in wrote

\* A line the next fetch can hit holds the stores and the external writes made so
\* far, unless the clear of its tag is one clock away.
NoStaleILine ==
    \A w \in Way : \A s \in 0..LastSet :
      itags[w][s] # None /\ istate # "RESET" /\ ~Clearing([tag |-> itags[w][s], set |-> s]) =>
        \A d \in 0..LastWord :
          LET a == [tag |-> itags[w][s], set |-> s, word |-> d]
          IN  ilines[w][s][d] = arch(a) \/ Untold(a)

\* A line is in at most one way of its set; and every register has its type.
OneWayPerILine ==
    TypeOK /\ \A s \in 0..LastSet : \A v, w \in Way :
        istate # "RESET" /\ itags[v][s] # None /\ itags[v][s] = itags[w][s] => v = w

\* Liveness: the clock comes, the bus takes a fill, answers it, and is free again
\* and again.
Edge(Use(_)) == \E bus \in Bus : Use(bus) /\
                  \E fetch \in Offered : \E x \in Written : Clock(fetch, bus, x)
Fairness ==
    /\ WF_vars(Next)
    /\ WF_vars(LET Use(bus) == bus.ready IN Edge(Use))
    /\ WF_vars(LET Use(bus) == bus.resp # "none" IN Edge(Use))
    /\ WF_vars(LET Use(bus) == ~bus.busy IN Edge(Use))
LiveSpec == Spec /\ Fairness

\* Every fetch is answered, however many stores and snoops hit its line.
FetchesAnswered == fetching # None ~> icpu_resp_valid(icache_write_patch)
=============================================================================
