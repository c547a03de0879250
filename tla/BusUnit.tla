------------------------------- MODULE BusUnit -------------------------------
(* The bus interface unit of bus_unit.sv, clock by clock: one registered        *)
(* external request, the priority direct > D-cache > I-cache, and the counters  *)
(* that route the untagged read responses back to their requester.              *)
(*                                                                              *)
(* Around it the three requesters under the rules of their own modules (l1_cache *)
(* and l1_icache raise mem_valid only when mem_busy is low and hold it until it *)
(* is taken; the paging unit holds a direct request until it is accepted), and, *)
(* external, a bus that answers reads in the order it took them.  x87 port cycles *)
(* never reach the external bus and are left out.                               *)
EXTENDS Naturals, Sequences

CONSTANTS
    Burst,      \* beats of a line fill
    MaxPosted,  \* stores the D-cache can hold
    Data,       \* write data
    None        \* no request, no data

Kind   == {"io", "inta", "vga"}   \* device MMIO is ordered like I/O
Source == {"direct", "dcache", "icache"}

\* What each requester asks for, and what is registered of it.
DirectRequest == [kind : Kind, write : BOOLEAN, data : Data \cup {None}]
DcacheRequest == [write : {FALSE}, burst : {1, Burst}, data : {None}]
                 \cup [write : {TRUE}, burst : {1}, data : Data]
Request == [src : {"direct"}, write : BOOLEAN, io : Kind, burst : {1}]
           \cup [src : {"dcache", "icache"}, write : BOOLEAN, io : {None}, burst : {1, Burst}]

ASSUME BusAssumption == Burst \in Nat /\ Burst > 1 /\ MaxPosted \in Nat /\ None \notin Data
ASSUME NoneAssumption ==
    None \notin DirectRequest /\ None \notin DcacheRequest /\ None \notin Request /\ None # "fill"

VARIABLES
    ext,                \* ext_*_r: [src, write, io, burst], or None while ext_valid_r is low
    direct_dout,        \* ext_direct_dout_r
    dcache_dout,        \* ext_dcache_dout_r
    direct_rd_pending, dcache_rd_pending, icache_rd_pending,
    direct,             \* the demand port's direct request, or None
    dcache, icache,     \* the caches' mem_valid requests, or None
    posted,             \* stores in the D-cache queue
    owed,               \* external: reads the bus took and has not answered
    older,              \* history: queued stores older than the direct request
    overtaken           \* history: D-cache grants passing a waiting fetch since the last direct one

unit    == <<ext, direct_dout, dcache_dout, direct_rd_pending, dcache_rd_pending, icache_rd_pending>>
clients == <<direct, dcache, icache, posted>>
vars    == <<unit, clients, owed, older, overtaken>>

ext_valid_r         == ext # None
dcache_read_pending == dcache_rd_pending # 0
icache_read_pending == icache_rd_pending # 0
stores_drained      == posted = 0

\* Mutant: a direct request does not wait for the posted stores.
direct_req_ordered_Never == TRUE
\* I/O and INTA transactions must not overtake older posted stores.
direct_req_ordered == direct.kind = "vga" \/ stores_drained

\* Mutant: a direct request only looks at its own reads.
ext_direct_req_OwnReads == direct # None /\ direct_req_ordered /\ ~direct_rd_pending
ext_direct_req == /\ direct # None /\ direct_req_ordered /\ ~direct_rd_pending
                  /\ ~dcache_read_pending /\ ~icache_read_pending
\* Mutant: the D-cache stands back for a direct request that waits for its drain.
ext_dcache_req_NoDirect == /\ dcache # None /\ direct = None
                           /\ ~direct_rd_pending /\ ~icache_read_pending
ext_dcache_req == /\ dcache # None /\ ~ext_direct_req
                  /\ ~direct_rd_pending /\ ~icache_read_pending
\* Mutant: a fetch waits for the posted stores.
ext_icache_req_Drained == /\ icache # None /\ ~ext_direct_req /\ ~ext_dcache_req
                          /\ ~direct_rd_pending /\ ~dcache_read_pending /\ stores_drained
ext_icache_req == /\ icache # None /\ ~ext_direct_req /\ ~ext_dcache_req
                  /\ ~direct_rd_pending /\ ~dcache_read_pending

\* The bus this clock: takes the registered request; returns nothing, a beat or
\* a whole line.
accept(src, bus) == ext_valid_r /\ bus.ready /\ ext.src = src
resp_valid(bus)      == bus.resp = "beat"
line_resp_valid(bus) == bus.resp = "line"

dout == IF ext.src = "direct" THEN direct_dout ELSE dcache_dout
-----------------------------------------------------------------------------
\* The registered request.

Register(request) == ext' = request

Release(bus) == ext_valid_r /\ Register(IF bus.ready THEN None ELSE ext)
GrantDirect  == ~ext_valid_r /\ ext_direct_req /\
    Register([src |-> "direct", write |-> direct.write, io |-> direct.kind, burst |-> 1])
GrantDcache  == ~ext_valid_r /\ ext_dcache_req /\
    Register([src |-> "dcache", write |-> dcache.write, io |-> None, burst |-> dcache.burst])
GrantIcache  == ~ext_valid_r /\ ext_icache_req /\
    Register([src |-> "icache", write |-> FALSE, io |-> None, burst |-> Burst])
GrantNone    == /\ ~ext_valid_r /\ ~ext_direct_req /\ ~ext_dcache_req /\ ~ext_icache_req
                /\ Register(None)

Arbitrate(bus) == Release(bus) \/ GrantDirect \/ GrantDcache \/ GrantIcache \/ GrantNone

\* Mutant: the D-cache data is only captured once its request is registered.
WriteData_Registered ==
    /\ direct_dout' = IF direct # None THEN direct.data ELSE None
    /\ dcache_dout' = IF ~ext_valid_r THEN dcache_dout ELSE IF dcache # None THEN dcache.data ELSE None
\* Write data follows its requester on every clock, not only at the grant.
WriteData ==
    /\ direct_dout' = IF direct # None THEN direct.data ELSE None
    /\ dcache_dout' = IF dcache # None THEN dcache.data ELSE None

\* Read responses still due to each requester.
CacheReads(pending, accepted, burst, bus) ==
    CASE accepted                                -> burst
      [] ~accepted /\ pending # 0 /\ line_resp_valid(bus) -> 0
      [] ~accepted /\ pending # 0 /\ resp_valid(bus)      -> pending - 1
      [] OTHER                                   -> pending

PendingReads(bus) ==
    /\ dcache_rd_pending' =
         CacheReads(dcache_rd_pending, accept("dcache", bus) /\ ~dcache.write,
                    IF dcache = None THEN 0 ELSE dcache.burst, bus)
    /\ icache_rd_pending' =
         CacheReads(icache_rd_pending, accept("icache", bus), Burst, bus)
    /\ direct_rd_pending' =
         IF accept("direct", bus) /\ ~ext.write /\ ~resp_valid(bus) THEN TRUE
         ELSE direct_rd_pending /\ ~resp_valid(bus)
-----------------------------------------------------------------------------
\* The requesters.

\* mem_busy of each cache.
dcacheBusy == ext_valid_r \/ direct_rd_pending \/ icache_read_pending
icacheBusy == ext_valid_r \/ direct_rd_pending \/ dcache_read_pending \/ dcache # None

\* The demand port of the paging unit: dcache_req_valid stays up, with its payload, until the
\* request is taken (dcache_req_valid_r falls with dcache_req_accepted), and a demand waits for the
\* answer of the one before it. Which devices are accessed, and when, is left open.
DirectNext(bus) ==
    IF direct # None
    THEN direct' = IF accept("direct", bus) THEN None ELSE direct
    ELSE \/ direct' = None
         \/ /\ ~direct_rd_pending
            /\ direct' \in {r \in DirectRequest : r.write <=> r.data # None}

\* Drains oldest first, or reads; one request or read at a time.
DcacheNext(bus) ==
    IF dcache # None
    THEN dcache' = IF accept("dcache", bus) THEN None ELSE dcache
    ELSE \/ dcache' = None
         \/ /\ ~dcacheBusy /\ ~dcache_read_pending
            /\ dcache' \in {r \in DcacheRequest : r.write => posted > 0}

IcacheNext(bus) ==
    IF icache # None
    THEN icache' = IF accept("icache", bus) THEN None ELSE icache
    ELSE icache' = None \/ (~icacheBusy /\ ~icache_read_pending /\ icache' = "fill")

drained(bus) == accept("dcache", bus) /\ ext.write
\* The core posts no younger store while its direct request waits.
PostedNext(bus) ==
    \E new \in {0, 1} :
       /\ new = 1 => direct = None /\ posted < MaxPosted
       /\ posted' = posted + new - (IF drained(bus) THEN 1 ELSE 0)

\* A bus that answers reads in order; only a single-beat direct read may be
\* answered on the clock that takes it.
Bus == {b \in [ready : BOOLEAN, resp : {"none", "beat", "line"}] :
          /\ b.ready => ext_valid_r
          /\ b.resp = "beat" =>
               owed # << >> \/ (b.ready /\ ext.src = "direct" /\ ~ext.write)
          /\ b.resp = "line" =>
               owed # << >> /\ Head(owed).src # "direct" /\ Head(owed).left = Burst}

OwedNext(bus) ==
    LET taken == IF bus.ready /\ ~ext.write
                 THEN Append(owed, [src |-> ext.src, left |-> ext.burst]) ELSE owed
    IN  owed' = CASE bus.resp = "none" -> taken
                  [] bus.resp = "line" \/ (bus.resp = "beat" /\ Head(taken).left = 1) -> Tail(taken)
                  [] bus.resp = "beat" /\ Head(taken).left > 1 -> [taken EXCEPT ![1].left = @ - 1]

granted(src) == ~ext_valid_r /\ ext' # None /\ ext'.src = src
History(bus) ==
    /\ older' = IF direct = None THEN posted'
                ELSE IF older > 0 /\ drained(bus) THEN older - 1 ELSE older
    /\ overtaken' = CASE icache = None \/ granted("direct")         -> 0
                      [] icache # None /\ granted("dcache")         -> overtaken + 1
                      [] OTHER                                      -> overtaken

Init ==
    /\ ext = None /\ direct_dout = None /\ dcache_dout = None
    /\ direct_rd_pending = FALSE /\ dcache_rd_pending = 0 /\ icache_rd_pending = 0
    /\ direct = None /\ dcache = None /\ icache = None /\ posted = 0
    /\ owed = << >> /\ older = 0 /\ overtaken = 0

Clock(bus) ==
    /\ Arbitrate(bus) /\ WriteData /\ PendingReads(bus)
    /\ DirectNext(bus) /\ DcacheNext(bus) /\ IcacheNext(bus) /\ PostedNext(bus)
    /\ OwedNext(bus)
    /\ History(bus)

Next == \E bus \in Bus : Clock(bus)

Spec == Init /\ [][Next]_vars
-----------------------------------------------------------------------------
\* Properties.

TypeOK ==
    /\ ext \in Request \cup {None}
    /\ direct_dout \in Data \cup {None} /\ dcache_dout \in Data \cup {None}
    /\ direct_rd_pending \in BOOLEAN
    /\ dcache_rd_pending \in 0..Burst /\ icache_rd_pending \in 0..Burst
    /\ direct \in DirectRequest \cup {None} /\ dcache \in DcacheRequest \cup {None}
    /\ icache \in {None, "fill"} /\ posted \in 0..MaxPosted
    /\ owed \in Seq([src : Source, left : 1..Burst])
    /\ older \in 0..MaxPosted /\ overtaken \in Nat

\* Responses carry no tag: the counters name exactly the requester whose read
\* the bus still owes, and as many beats as it owes.
Expected ==
    (IF direct_rd_pending   THEN {[src |-> "direct", left |-> 1]} ELSE {}) \cup
    (IF dcache_read_pending THEN {[src |-> "dcache", left |-> dcache_rd_pending]} ELSE {}) \cup
    (IF icache_read_pending THEN {[src |-> "icache", left |-> icache_rd_pending]} ELSE {})
ResponsesReachOwner ==
    Len(owed) <= 1 /\ Expected = {owed[i] : i \in DOMAIN owed}

\* What is on the bus is still what its requester asks for, write data included,
\* although the data registers are loaded on every clock; and every register has its type.
RequestHeld ==
    /\ TypeOK
    /\ ext_valid_r =>
         CASE ext.src = "direct" -> /\ direct # None /\ ext.write = direct.write /\ ext.io = direct.kind
                                    /\ ext.write => dout = direct.data
           [] ext.src = "dcache" -> /\ dcache # None /\ ext.write = dcache.write
                                    /\ ext.write => dout = dcache.data
           [] ext.src = "icache" -> icache # None

\* I/O and INTA transactions must not overtake older posted stores (bus_unit:
\* direct_req_ordered); VGA accesses may.
IoBehindStores ==
    ext_valid_r /\ ext.src = "direct" /\ ext.io # "vga" => older = 0

\* A waiting instruction fetch is passed by at most one D-cache request between
\* two direct accesses, however many drains and fills the D-cache has to make.
FetchNotStarved == overtaken <= 1

\* Liveness: the clock comes, the bus takes what stays presented and answers
\* what it took, and the D-cache drains its queue when the bus is not busy.
Clocks(Use(_)) == \E bus \in Bus : Use(bus) /\ Clock(bus)
Fairness ==
    /\ WF_vars(Next)
    /\ WF_vars(LET Use(bus) == bus.ready IN Clocks(Use))
    /\ WF_vars(LET Use(bus) == bus.resp # "none" IN Clocks(Use))
    /\ SF_vars(Next /\ dcache = None /\ dcache' # None /\ dcache'.write)
LiveSpec == Spec /\ Fairness

\* A direct access waits for older stores, fills and fetches, and is then taken; a
\* store of the D-cache is taken, however many direct accesses come before it.
RequestsTaken ==
    /\ direct # None ~> direct = None
    /\ dcache # None /\ dcache.write ~> dcache = None
=============================================================================
