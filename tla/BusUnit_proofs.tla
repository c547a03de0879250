-------------------------- MODULE BusUnit_proofs --------------------------
(* The safety properties of module BusUnit hold for every length of a line     *)
(* fill, every number of posted stores and every write data.  The invariant    *)
(* joins four parts, one for each question: who is owed a response, what is    *)
(* on the bus, what an I/O access may pass, and how often a fetch is passed.   *)
EXTENDS BusUnit, TLAPS

\* What the bus owes, in the order it took it, by the counters.
Due == IF direct_rd_pending THEN << [src |-> "direct", left |-> 1] >>
       ELSE IF dcache_rd_pending # 0 THEN << [src |-> "dcache", left |-> dcache_rd_pending] >>
       ELSE IF icache_rd_pending # 0 THEN << [src |-> "icache", left |-> icache_rd_pending] >>
       ELSE << >>
NoReads == ~direct_rd_pending /\ dcache_rd_pending = 0 /\ icache_rd_pending = 0

\* One read at a time: nothing is granted beside a read, and no requester asks
\* again before its own read has ended.
ReadsInv ==
    /\ owed = Due
    /\ direct_rd_pending => dcache_rd_pending = 0 /\ icache_rd_pending = 0
    /\ dcache_rd_pending # 0 => icache_rd_pending = 0
    /\ ext # None    => NoReads
    /\ direct # None => ~direct_rd_pending
    /\ dcache # None => dcache_rd_pending = 0
    /\ icache # None => icache_rd_pending = 0

\* The registered request and the write data are those of a waiting requester.
OnBus ==
    \/ /\ ext.src = "direct" /\ direct # None /\ ext.write = direct.write /\ ext.io = direct.kind
       /\ ext.burst = 1 /\ direct_dout = direct.data
    \/ /\ ext.src = "dcache" /\ dcache # None /\ ext.write = dcache.write
       /\ ext.burst = dcache.burst /\ dcache_dout = dcache.data
    \/ /\ ext.src = "icache" /\ icache # None /\ ext.write = FALSE /\ ext.burst = Burst
HeldInv == ext # None => OnBus

\* A store on its way to the bus is still counted, and with it the older ones.
PostedInv ==
    /\ dcache # None /\ dcache.write => posted > 0
    /\ older <= posted
    /\ IoBehindStores

\* Once the D-cache has passed a waiting fetch it has no second request before
\* the fetch is granted: it may ask only on the clock of that grant.
PassedInv ==
    /\ FetchNotStarved
    /\ icache # None /\ overtaken = 1 =>
         dcache = None \/ (ext # None /\ ext.src \in {"dcache", "icache"})

BusInv == TypeOK /\ ReadsInv /\ HeldInv /\ PostedInv /\ PassedInv

-----------------------------------------------------------------------------
\* The registered request, clock by clock.
LEMMA Arbitration ==
    ASSUME BusInv, NEW bus \in Bus, Arbitrate(bus)
    PROVE  \/ ext # None /\ ext' = (IF bus.ready THEN None ELSE ext)
           \/ /\ ext = None /\ NoReads /\ ext' # None /\ ext'.burst \in {1, Burst}
              /\ \/ /\ ext'.src = "direct" /\ direct # None /\ direct_req_ordered
                    /\ ext'.write = direct.write /\ ext'.io = direct.kind /\ ext'.burst = 1
                 \/ /\ ext'.src = "dcache" /\ dcache # None
                    /\ ext'.write = dcache.write /\ ext'.burst = dcache.burst
                 \/ /\ ext'.src = "icache" /\ icache # None /\ ~ext_dcache_req
                    /\ ext'.write = FALSE /\ ext'.burst = Burst
           \/ ext = None /\ ext' = None /\ ~ext_direct_req /\ ~ext_dcache_req /\ ~ext_icache_req
<1> USE BusAssumption, NoneAssumption DEF BusInv, ReadsInv, NoReads, ext_valid_r
<1>1. CASE Release(bus)
  BY <1>1 DEF Release, Register
<1>2. CASE GrantDirect
  <2>1. ext' \in Request
    BY <1>2 DEF GrantDirect, Register, Request, TypeOK, DirectRequest, ext_direct_req
  <2>2. direct # None /\ direct_req_ordered /\ NoReads /\ ext = None
    BY <1>2 DEF GrantDirect, ext_direct_req, dcache_read_pending, icache_read_pending
  <2> QED BY <1>2, <2>1, <2>2 DEF GrantDirect, Register
<1>3. CASE GrantDcache
  <2>1. dcache # None /\ NoReads /\ ext = None
    BY <1>3 DEF GrantDcache, ext_dcache_req, icache_read_pending
  <2>2. dcache.write \in BOOLEAN /\ dcache.burst \in {1, Burst}
    BY <2>1 DEF TypeOK, DcacheRequest
  <2>3. ext' \in Request
    BY <1>3, <2>2 DEF GrantDcache, Register, Request
  <2> QED BY <1>3, <2>1, <2>2, <2>3 DEF GrantDcache, Register
<1>4. CASE GrantIcache
  <2>1. ext' \in Request
    BY <1>4 DEF GrantIcache, Register, Request
  <2>2. icache # None /\ ~ext_dcache_req /\ NoReads /\ ext = None
    BY <1>4 DEF GrantIcache, ext_icache_req, dcache_read_pending
  <2> QED BY <1>4, <2>1, <2>2 DEF GrantIcache, Register
<1>5. CASE GrantNone
  BY <1>5 DEF GrantNone, Register
<1> QED BY <1>1, <1>2, <1>3, <1>4, <1>5 DEF Arbitrate

\* The clock of a response or of an accepted request, and the counters.
LEMMA OneResponse ==
    ASSUME NEW x
    PROVE  /\ Append(<< >>, x) = << x >> /\ Head(<< x >>) = x /\ Tail(<< x >>) = << >>
           /\ << x >> # << >> /\ Len(<< x >>) = 1
  OBVIOUS

\* No request is on the bus: a response goes to the one that is owed it.
LEMMA ReadsWithoutRequest ==
    ASSUME BusInv, NEW bus \in Bus, Clock(bus), ext = None
    PROVE  owed' = Due' /\ (NoReads => NoReads')
           /\ (direct_rd_pending' => direct_rd_pending)
           /\ (dcache_rd_pending' # 0 => dcache_rd_pending # 0)
           /\ (icache_rd_pending' # 0 => icache_rd_pending # 0)
<1> USE BusAssumption DEF BusInv, ReadsInv, NoReads, ext_valid_r
<1>1. ~bus.ready /\ bus.resp \in {"none", "beat", "line"}
  BY DEF Bus
<1>2. \A src \in Source : ~accept(src, bus)
  BY DEF accept
<1>3. /\ direct_rd_pending \in BOOLEAN
      /\ dcache_rd_pending \in 0..Burst /\ icache_rd_pending \in 0..Burst
  BY DEF TypeOK
<1>4. /\ direct_rd_pending' = (direct_rd_pending /\ bus.resp # "beat")
      /\ dcache_rd_pending' =
           IF dcache_rd_pending = 0 THEN 0 ELSE IF bus.resp = "line" THEN 0
           ELSE IF bus.resp = "beat" THEN dcache_rd_pending - 1 ELSE dcache_rd_pending
      /\ icache_rd_pending' =
           IF icache_rd_pending = 0 THEN 0 ELSE IF bus.resp = "line" THEN 0
           ELSE IF bus.resp = "beat" THEN icache_rd_pending - 1 ELSE icache_rd_pending
  BY <1>1, <1>2, <1>3 DEF Clock, PendingReads, CacheReads, resp_valid, line_resp_valid, Source
<1>5. owed' = CASE bus.resp = "none" -> owed
                [] bus.resp = "line" \/ (bus.resp = "beat" /\ Head(owed).left = 1) -> Tail(owed)
                [] bus.resp = "beat" /\ Head(owed).left > 1 -> [owed EXCEPT ![1].left = @ - 1]
  BY <1>1 DEF Clock, OwedNext
<1>6. CASE bus.resp = "none"
  BY <1>1, <1>3, <1>4, <1>5, <1>6 DEF Due
<1>7. CASE bus.resp = "line"
  <2>1. owed # << >> /\ Head(owed).src # "direct" /\ owed' = Tail(owed)
    BY <1>5, <1>7 DEF Bus
  <2>2. CASE dcache_rd_pending # 0
    <3>1. owed' = << >>
      BY <2>1, <2>2, OneResponse DEF Due
    <3> QED BY <1>4, <1>7, <2>2, <3>1 DEF Due
  <2>3. CASE icache_rd_pending # 0
    <3>1. owed' = << >>
      BY <2>1, <2>3, OneResponse DEF Due
    <3> QED BY <1>4, <1>7, <2>3, <3>1 DEF Due
  <2>4. CASE dcache_rd_pending = 0 /\ icache_rd_pending = 0
    BY <2>1, <2>4, OneResponse DEF Due
  <2> QED BY <2>2, <2>3, <2>4
<1>8. CASE bus.resp = "beat"
  <2>1. owed # << >>
    BY <1>1, <1>8 DEF Bus
  <2>2. CASE direct_rd_pending
    <3>1. owed' = << >>
      BY <1>5, <1>8, <2>2, OneResponse DEF Due
    <3> QED BY <1>4, <1>8, <2>2, <3>1 DEF Due
  <2>3. CASE dcache_rd_pending = 1
    <3>1. owed' = << >>
      BY <1>5, <1>8, <2>3, OneResponse DEF Due
    <3>2. ~direct_rd_pending /\ icache_rd_pending = 0
      BY <2>3
    <3>3. icache_rd_pending' = 0
      BY <1>4, <3>2
    <3>4. dcache_rd_pending' = 0
      BY <1>4, <1>8, <2>3
    <3>5. ~direct_rd_pending'
      BY <1>4, <3>2
    <3> QED BY <2>3, <3>1, <3>2, <3>3, <3>4, <3>5 DEF Due
  <2>4. CASE dcache_rd_pending > 1
    <3>1. owed' = << [src |-> "dcache", left |-> dcache_rd_pending - 1] >>
      BY <1>3, <1>5, <1>8, <2>4, OneResponse DEF Due
    <3> QED BY <1>3, <1>4, <1>8, <2>4, <3>1 DEF Due
  <2>5. CASE icache_rd_pending = 1
    <3>1. owed' = << >>
      BY <1>5, <1>8, <2>5, OneResponse DEF Due
    <3>2. ~direct_rd_pending /\ dcache_rd_pending = 0
      BY <2>5
    <3>3. dcache_rd_pending' = 0
      BY <1>4, <3>2
    <3>4. icache_rd_pending' = 0
      BY <1>4, <1>8, <2>5
    <3>5. ~direct_rd_pending'
      BY <1>4, <3>2
    <3> QED BY <2>5, <3>1, <3>2, <3>3, <3>4, <3>5 DEF Due
  <2>6. CASE icache_rd_pending > 1
    <3>1. owed' = << [src |-> "icache", left |-> icache_rd_pending - 1] >>
      BY <1>3, <1>5, <1>8, <2>6, OneResponse DEF Due
    <3> QED BY <1>3, <1>4, <1>8, <2>6, <3>1 DEF Due
  <2> QED BY <1>3, <2>1, <2>2, <2>3, <2>4, <2>5, <2>6 DEF Due
<1> QED BY <1>1, <1>6, <1>7, <1>8

\* A request is on the bus: only its own read is owed afterwards, and not even that if
\* a single beat came at once.
LEMMA ReadsOfRequest ==
    ASSUME BusInv, NEW bus \in Bus, Clock(bus), ext # None
    PROVE  owed' = Due'
           /\ (direct_rd_pending' => accept("direct", bus))
           /\ (dcache_rd_pending' # 0 => accept("dcache", bus))
           /\ (icache_rd_pending' # 0 => accept("icache", bus))
<1> USE BusAssumption DEF BusInv, ReadsInv, NoReads, ext_valid_r
<1>1. NoReads /\ owed = << >>
  BY DEF Due
<1>2. bus.resp = "none" \/ (bus.resp = "beat" /\ bus.ready /\ ext.src = "direct" /\ ~ext.write)
  BY <1>1 DEF Bus
<1>3. OnBus /\ ext.write \in BOOLEAN
  BY DEF HeldInv, TypeOK, Request
<1>4. CASE ~bus.ready
  <2>1. bus.resp = "none" /\ (\A src : ~accept(src, bus))
    BY <1>2, <1>4 DEF accept
  <2>2. owed' = << >>
    BY <1>1, <1>4, <2>1 DEF Clock, OwedNext
  <2>3. ~direct_rd_pending' /\ dcache_rd_pending' = 0 /\ icache_rd_pending' = 0
    BY <1>1, <2>1 DEF Clock, PendingReads, CacheReads, resp_valid, line_resp_valid
  <2> QED BY <2>2, <2>3 DEF Due
<1>5. CASE bus.ready /\ ext.src = "direct"
  <2>1. accept("direct", bus) /\ ~accept("dcache", bus) /\ ~accept("icache", bus)
    BY <1>5 DEF accept
  <2>2. dcache_rd_pending' = 0 /\ icache_rd_pending' = 0
    BY <1>1, <1>2, <2>1 DEF Clock, PendingReads, CacheReads, resp_valid, line_resp_valid
  <2>3. direct_rd_pending' = (~ext.write /\ bus.resp # "beat")
    BY <1>1, <2>1 DEF Clock, PendingReads, resp_valid
  <2>4. ext.burst = 1
    BY <1>3, <1>5 DEF OnBus
  <2>5. CASE ext.write
    BY <1>1, <1>2, <1>5, <2>1, <2>2, <2>3, <2>5 DEF Clock, OwedNext, Due
  <2>6. CASE ~ext.write /\ bus.resp = "none"
    <3>1. owed' = << [src |-> "direct", left |-> 1] >>
      BY <1>1, <1>5, <2>4, <2>6, OneResponse DEF Clock, OwedNext
    <3> QED BY <2>1, <2>2, <2>3, <2>6, <3>1 DEF Due
  <2>7. CASE ~ext.write /\ bus.resp = "beat"
    <3>1. owed' = << >>
      BY <1>1, <1>5, <2>4, <2>7, OneResponse DEF Clock, OwedNext
    <3> QED BY <2>1, <2>2, <2>3, <2>7, <3>1 DEF Due
  <2> QED BY <1>2, <1>3, <2>5, <2>6, <2>7
<1>6. CASE bus.ready /\ ext.src = "dcache"
  <2>1. accept("dcache", bus) /\ ~accept("direct", bus) /\ ~accept("icache", bus)
    BY <1>6 DEF accept
  <2>2. bus.resp = "none" /\ dcache # None /\ ext.write = dcache.write /\ ext.burst = dcache.burst
    BY <1>2, <1>3, <1>6 DEF OnBus
  <2>3. ~direct_rd_pending' /\ icache_rd_pending' = 0
    BY <1>1, <2>1, <2>2 DEF Clock, PendingReads, CacheReads, resp_valid, line_resp_valid
  <2>4. CASE ext.write
    BY <1>1, <1>6, <2>1, <2>2, <2>3, <2>4
       DEF Clock, OwedNext, Due, PendingReads, CacheReads, resp_valid, line_resp_valid
  <2>5. CASE ~ext.write
    <3>1. owed' = << [src |-> "dcache", left |-> dcache.burst] >>
      BY <1>1, <1>6, <2>2, <2>5, OneResponse DEF Clock, OwedNext
    <3>2. dcache_rd_pending' = dcache.burst
      BY <2>1, <2>2, <2>5 DEF Clock, PendingReads, CacheReads
    <3>3. dcache.burst \in {1, Burst}
      BY <2>2 DEF TypeOK, DcacheRequest
    <3> QED BY <2>1, <2>3, <3>1, <3>2, <3>3 DEF Due
  <2> QED BY <1>3, <2>4, <2>5
<1>7. CASE bus.ready /\ ext.src = "icache"
  <2>1. accept("icache", bus) /\ ~accept("direct", bus) /\ ~accept("dcache", bus)
    BY <1>7 DEF accept
  <2>2. bus.resp = "none" /\ ~ext.write /\ ext.burst = Burst
    BY <1>2, <1>3, <1>7 DEF OnBus
  <2>3. ~direct_rd_pending' /\ dcache_rd_pending' = 0 /\ icache_rd_pending' = Burst
    BY <1>1, <2>1, <2>2 DEF Clock, PendingReads, CacheReads, resp_valid, line_resp_valid
  <2>4. owed' = << [src |-> "icache", left |-> Burst] >>
    BY <1>1, <1>7, <2>2, OneResponse DEF Clock, OwedNext
  <2> QED BY <2>1, <2>3, <2>4 DEF Due
<1> QED BY <1>3, <1>4, <1>5, <1>6, <1>7 DEF OnBus

LEMMA ReadsStep ==
    ASSUME BusInv, NEW bus \in Bus, Clock(bus)
    PROVE  ReadsInv'
<1> USE BusAssumption DEF BusInv, ReadsInv, ext_valid_r
<1>1. CASE ext = None
  <2>1. /\ owed' = Due' /\ (NoReads => NoReads')
        /\ (direct_rd_pending' => direct_rd_pending)
        /\ (dcache_rd_pending' # 0 => dcache_rd_pending # 0)
        /\ (icache_rd_pending' # 0 => icache_rd_pending # 0)
    BY <1>1, ReadsWithoutRequest
  <2>2. ext' # None => NoReads'
    BY <1>1, <2>1, Arbitration DEF Clock
  <2>3. direct' # None => ~direct_rd_pending'
    BY <2>1 DEF Clock, DirectNext
  <2>4. dcache' # None => dcache_rd_pending' = 0
    BY <2>1 DEF Clock, DcacheNext, dcache_read_pending
  <2>5. icache' # None => icache_rd_pending' = 0
    BY <2>1 DEF Clock, IcacheNext, icache_read_pending
  <2> QED BY <2>1, <2>2, <2>3, <2>4, <2>5
<1>2. CASE ext # None
  <2>1. /\ owed' = Due'
        /\ (direct_rd_pending' => accept("direct", bus))
        /\ (dcache_rd_pending' # 0 => accept("dcache", bus))
        /\ (icache_rd_pending' # 0 => accept("icache", bus))
    BY <1>2, ReadsOfRequest
  <2>2. OnBus
    BY <1>2 DEF HeldInv
  <2>3. accept("direct", bus) => direct' = None /\ ext' = None
    BY <1>2, <2>2, Arbitration DEF Clock, DirectNext, accept, OnBus
  <2>4. accept("dcache", bus) => dcache' = None /\ ext' = None
    BY <1>2, <2>2, Arbitration DEF Clock, DcacheNext, accept, OnBus
  <2>5. accept("icache", bus) => icache' = None /\ ext' = None
    BY <1>2, <2>2, Arbitration DEF Clock, IcacheNext, accept, OnBus
  <2>6. /\ direct_rd_pending' => dcache_rd_pending' = 0 /\ icache_rd_pending' = 0
        /\ dcache_rd_pending' # 0 => icache_rd_pending' = 0
    BY <2>1 DEF accept
  <2>7. ext' # None => NoReads'
    BY <2>1, <2>3, <2>4, <2>5 DEF NoReads
  <2> QED BY <2>1, <2>3, <2>4, <2>5, <2>6, <2>7
<1> QED BY <1>1, <1>2

LEMMA HeldStep ==
    ASSUME BusInv, NEW bus \in Bus, Clock(bus)
    PROVE  HeldInv'
<1> USE DEF BusInv, HeldInv
<1> SUFFICES ASSUME ext' # None
             PROVE  OnBus'
  OBVIOUS
<1>1. /\ direct_dout' = IF direct # None THEN direct.data ELSE None
      /\ dcache_dout' = IF dcache # None THEN dcache.data ELSE None
  BY DEF Clock, WriteData
<1>2. CASE ext # None
  <2>1. ext' = ext /\ ~bus.ready
    BY <1>2, Arbitration DEF Clock
  <2>2. /\ direct # None => direct' = direct
        /\ dcache # None => dcache' = dcache
        /\ icache # None => icache' = icache
    BY <2>1 DEF Clock, DirectNext, DcacheNext, IcacheNext, accept
  <2>3. OnBus
    BY <1>2
  <2> QED BY <1>1, <2>1, <2>2, <2>3 DEF OnBus
<1>3. CASE ext = None
  <2>1. /\ direct # None => direct' = direct
        /\ dcache # None => dcache' = dcache
        /\ icache # None => icache' = icache
    BY <1>3 DEF Clock, DirectNext, DcacheNext, IcacheNext, accept, ext_valid_r
  <2>2. \/ ext'.src = "direct" /\ direct # None /\ ext'.write = direct.write
           /\ ext'.io = direct.kind /\ ext'.burst = 1
        \/ ext'.src = "dcache" /\ dcache # None /\ ext'.write = dcache.write
           /\ ext'.burst = dcache.burst
        \/ ext'.src = "icache" /\ icache # None /\ ext'.write = FALSE /\ ext'.burst = Burst
    BY <1>3, Arbitration DEF Clock
  <2> QED BY <1>1, <2>1, <2>2 DEF OnBus
<1> QED BY <1>2, <1>3

\* A store leaves the queue only when the bus takes it.
LEMMA DrainedOne ==
    ASSUME BusInv, NEW bus \in Bus, drained(bus)
    PROVE  dcache # None /\ dcache.write /\ posted > 0 /\ ext # None /\ ext.src = "dcache"
  BY DEF BusInv, HeldInv, PostedInv, OnBus, drained, accept, ext_valid_r

LEMMA PostedStep ==
    ASSUME BusInv, NEW bus \in Bus, Clock(bus)
    PROVE  PostedInv'
<1> USE BusAssumption DEF BusInv
<1>1. posted \in Nat /\ older \in Nat /\ older <= posted
  BY DEF TypeOK, PostedInv
<1>2. PICK new \in {0, 1} : /\ new = 1 => direct = None
                            /\ posted' = posted + new - (IF drained(bus) THEN 1 ELSE 0)
  BY DEF Clock, PostedNext
<1>3. older' = IF direct = None THEN posted'
               ELSE IF older > 0 /\ drained(bus) THEN older - 1 ELSE older
  BY DEF Clock, History
<1>4. older' <= posted' /\ (older = 0 /\ direct # None => older' = 0)
  BY <1>1, <1>2, <1>3, DrainedOne
<1>5. dcache' # None /\ dcache'.write => posted' > 0
  <2>1. CASE dcache # None
    <3>1. drained(bus) => dcache' = None
      BY <2>1, DrainedOne DEF Clock, DcacheNext, drained
    <3>2. dcache' # None => dcache' = dcache
      BY <2>1 DEF Clock, DcacheNext
    <3> QED BY <1>1, <1>2, <2>1, <3>1, <3>2 DEF PostedInv
  <2>2. CASE dcache = None
    <3>1. dcache' # None /\ dcache'.write => posted > 0
      BY <2>2 DEF Clock, DcacheNext
    <3>2. ~drained(bus)
      BY <2>2, DrainedOne
    <3> QED BY <1>1, <1>2, <3>1, <3>2
  <2> QED BY <2>1, <2>2
<1>6. IoBehindStores'
  <2> SUFFICES ASSUME ext' # None, ext'.src = "direct", ext'.io # "vga"
               PROVE  older' = 0
    BY DEF IoBehindStores, ext_valid_r
  <2>1. CASE ext # None
    <3>1. ext' = ext /\ direct # None
      BY <2>1, Arbitration DEF Clock, HeldInv, OnBus
    <3>2. older = 0
      BY <2>1, <3>1 DEF PostedInv, IoBehindStores, ext_valid_r
    <3> QED BY <1>4, <3>1, <3>2
  <2>2. CASE ext = None
    <3>1. direct # None /\ direct_req_ordered /\ ext'.io = direct.kind
      BY <2>2, Arbitration DEF Clock
    <3>2. older = 0
      BY <1>1, <3>1 DEF direct_req_ordered, stores_drained
    <3> QED BY <1>4, <3>1, <3>2
  <2> QED BY <2>1, <2>2
<1> QED BY <1>4, <1>5, <1>6 DEF PostedInv

LEMMA PassedStep ==
    ASSUME BusInv, NEW bus \in Bus, Clock(bus)
    PROVE  PassedInv'
<1> USE BusAssumption DEF BusInv, PassedInv, FetchNotStarved
<1>1. overtaken \in Nat
  BY DEF TypeOK
<1>2. overtaken' = CASE icache = None \/ granted("direct")         -> 0
                     [] icache # None /\ granted("dcache")         -> overtaken + 1
                     [] OTHER                                      -> overtaken
  BY DEF Clock, History
<1>3. ~(granted("direct") /\ granted("dcache"))
  BY DEF granted
<1>4. CASE icache = None \/ granted("direct")
  <2>1. overtaken' = 0
    BY <1>2, <1>3, <1>4
  <2> QED BY <2>1
<1>5. CASE icache # None /\ granted("dcache")
  <2>1. overtaken' = overtaken + 1
    BY <1>2, <1>3, <1>5
  <2>2. ext = None /\ ext' # None /\ ext'.src = "dcache"
    BY <1>5 DEF granted, ext_valid_r
  <2>3. dcache # None
    BY <2>2, Arbitration DEF Clock
  <2>4. overtaken # 1
    BY <1>5, <2>2, <2>3
  <2> QED BY <1>1, <2>1, <2>2, <2>4
<1>6. CASE icache # None /\ ~granted("direct") /\ ~granted("dcache")
  <2>1. overtaken' = overtaken
    BY <1>2, <1>6
  <2> SUFFICES ASSUME icache' # None, overtaken = 1
               PROVE  dcache' = None \/ (ext' # None /\ ext'.src \in {"dcache", "icache"})
    BY <2>1
  <2>2. CASE ext # None /\ ext.src \in {"dcache", "icache"}
    <3>1. CASE ~bus.ready
      BY <2>2, <3>1, Arbitration DEF Clock
    <3>2. CASE bus.ready /\ ext.src = "dcache"
      BY <2>2, <3>2 DEF Clock, DcacheNext, accept, ext_valid_r, HeldInv, OnBus
    <3>3. CASE bus.ready /\ ext.src = "icache"
      BY <1>6, <2>2, <3>3 DEF Clock, IcacheNext, accept, ext_valid_r
    <3> QED BY <2>2, <3>1, <3>2, <3>3 DEF Bus
  <2>3. CASE dcache = None
    <3> SUFFICES ASSUME dcache' # None
                 PROVE  ext' # None /\ ext'.src \in {"dcache", "icache"}
      OBVIOUS
    <3>1. ext = None /\ ~direct_rd_pending /\ ~dcache_read_pending
      BY <2>3 DEF Clock, DcacheNext, dcacheBusy, ext_valid_r
    <3>2. ~ext_dcache_req
      BY <2>3 DEF ext_dcache_req
    <3>3. ext_direct_req \/ ext_icache_req
      BY <1>6, <3>1, <3>2 DEF ext_icache_req
    <3>4. ext' # None
      BY <3>1, <3>3, Arbitration DEF Clock
    <3>5. ext'.src # "direct"
      BY <1>6, <3>1, <3>4 DEF granted, ext_valid_r
    <3> QED BY <3>1, <3>4, <3>5, Arbitration DEF Clock
  <2> QED BY <1>6, <2>2, <2>3
<1> QED BY <1>4, <1>5, <1>6

LEMMA TypesStep ==
    ASSUME BusInv, NEW bus \in Bus, Clock(bus)
    PROVE  TypeOK'
<1> USE BusAssumption DEF BusInv
<1> DEFINE Owed == [src : Source, left : 1..Burst]
<1>1. TypeOK /\ ReadsInv' /\ PostedInv' /\ PassedInv'
  BY ReadsStep, PostedStep, PassedStep
<1>2. ext' \in Request \cup {None}
  <2>1. CASE Release(bus)
    BY <1>1, <2>1 DEF Release, Register, TypeOK
  <2>2. CASE GrantDirect
    BY <1>1, <2>2 DEF GrantDirect, Register, Request, TypeOK, DirectRequest, ext_direct_req
  <2>3. CASE GrantDcache
    <3>1. dcache.write \in BOOLEAN /\ dcache.burst \in {1, Burst}
      BY <1>1, <2>3 DEF GrantDcache, ext_dcache_req, TypeOK, DcacheRequest
    <3> QED BY <2>3, <3>1 DEF GrantDcache, Register, Request
  <2>4. CASE GrantIcache
    BY <2>4 DEF GrantIcache, Register, Request
  <2>5. CASE GrantNone
    BY <2>5 DEF GrantNone, Register
  <2> QED BY <2>1, <2>2, <2>3, <2>4, <2>5 DEF Clock, Arbitrate
<1>3. direct_dout' \in Data \cup {None} /\ dcache_dout' \in Data \cup {None}
  BY <1>1 DEF Clock, WriteData, TypeOK, DirectRequest, DcacheRequest
<1>4. direct' \in DirectRequest \cup {None}
  BY <1>1 DEF Clock, DirectNext, TypeOK
<1>5. dcache' \in DcacheRequest \cup {None}
  BY <1>1 DEF Clock, DcacheNext, TypeOK
<1>6. icache' \in {None, "fill"}
  BY <1>1 DEF Clock, IcacheNext, TypeOK
<1>7. direct_rd_pending' \in BOOLEAN
  <2>1. direct_rd_pending' = (IF accept("direct", bus) /\ ~ext.write /\ ~resp_valid(bus) THEN TRUE
                              ELSE direct_rd_pending /\ ~resp_valid(bus))
    BY DEF Clock, PendingReads
  <2> QED BY <2>1, Zenon
<1>8. dcache_rd_pending' \in 0..Burst
  <2>1. accept("dcache", bus) => dcache # None
    BY <1>1 DEF HeldInv, OnBus, accept, ext_valid_r
  <2>2. dcache # None => dcache.burst \in {1, Burst}
    BY <1>1 DEF TypeOK, DcacheRequest
  <2> QED BY <1>1, <2>1, <2>2 DEF Clock, PendingReads, CacheReads, TypeOK
<1>9. icache_rd_pending' \in 0..Burst
  BY <1>1 DEF Clock, PendingReads, CacheReads, TypeOK
<1>10. owed' \in Seq(Owed)
  <2>1. owed' = Due'
    BY <1>1 DEF ReadsInv
  <2>2. CASE direct_rd_pending'
    <3>1. [src |-> "direct", left |-> 1] \in Owed
      BY DEF Source
    <3> QED BY <2>1, <2>2, <3>1 DEF Due
  <2>3. CASE ~direct_rd_pending' /\ dcache_rd_pending' # 0
    <3>1. [src |-> "dcache", left |-> dcache_rd_pending'] \in Owed
      BY <1>8, <2>3 DEF Source
    <3> QED BY <2>1, <2>3, <3>1 DEF Due
  <2>4. CASE ~direct_rd_pending' /\ dcache_rd_pending' = 0 /\ icache_rd_pending' # 0
    <3>1. [src |-> "icache", left |-> icache_rd_pending'] \in Owed
      BY <1>9, <2>4 DEF Source
    <3> QED BY <2>1, <2>4, <3>1 DEF Due
  <2>5. CASE ~direct_rd_pending' /\ dcache_rd_pending' = 0 /\ icache_rd_pending' = 0
    BY <2>1, <2>5 DEF Due
  <2> QED BY <2>2, <2>3, <2>4, <2>5
<1>11. posted' \in 0..MaxPosted
  <2>1. posted \in 0..MaxPosted
    BY <1>1 DEF TypeOK
  <2>2. PICK new \in {0, 1} : /\ new = 1 => posted < MaxPosted
                              /\ posted' = posted + new - (IF drained(bus) THEN 1 ELSE 0)
    BY DEF Clock, PostedNext
  <2> QED BY <2>1, <2>2, DrainedOne
<1>12. older' \in 0..MaxPosted
  <2>1. older \in 0..MaxPosted
    BY <1>1 DEF TypeOK
  <2> QED BY <1>11, <2>1 DEF Clock, History
<1>13. overtaken' \in Nat
  BY <1>1 DEF Clock, History, TypeOK, granted
<1> QED BY <1>2, <1>3, <1>4, <1>5, <1>6, <1>7, <1>8, <1>9, <1>10, <1>11, <1>12, <1>13
        DEF TypeOK, DcacheRequest

LEMMA BusInduction == BusInv /\ [Next]_vars => BusInv'
<1> SUFFICES ASSUME BusInv, [Next]_vars
             PROVE  BusInv'
  OBVIOUS
<1>1. ASSUME NEW bus \in Bus, Clock(bus)
      PROVE  BusInv'
  BY <1>1, TypesStep, ReadsStep, HeldStep, PostedStep, PassedStep DEF BusInv
<1>2. CASE UNCHANGED vars
  BY <1>2 DEF vars, unit, clients, BusInv, TypeOK, ReadsInv, NoReads, Due, HeldInv, OnBus,
              PostedInv, IoBehindStores, ext_valid_r, PassedInv, FetchNotStarved
<1> QED BY <1>1, <1>2 DEF Next

LEMMA BusInit == Init => BusInv
<1> SUFFICES ASSUME Init
             PROVE  BusInv
  OBVIOUS
<1> USE BusAssumption DEF Init
<1>1. TypeOK
  <2>1. owed \in Seq([src : Source, left : 1..Burst])
    OBVIOUS
  <2>2. direct_rd_pending \in BOOLEAN
    OBVIOUS
  <2>3. /\ dcache_rd_pending \in 0..Burst /\ icache_rd_pending \in 0..Burst
        /\ posted \in 0..MaxPosted /\ older \in 0..MaxPosted /\ overtaken \in Nat
    OBVIOUS
  <2> QED BY <2>1, <2>2, <2>3, Zenon DEF TypeOK
<1>2. ReadsInv
  BY DEF ReadsInv, Due
<1>3. HeldInv /\ PostedInv /\ PassedInv
  BY DEF HeldInv, PostedInv, IoBehindStores, ext_valid_r, PassedInv, FetchNotStarved
<1> QED BY <1>1, <1>2, <1>3 DEF BusInv

LEMMA BusInvariant == Spec => []BusInv
  BY BusInit, BusInduction, PTL DEF Spec

-----------------------------------------------------------------------------
\* Responses carry no tag, and bus_unit gives them to whichever counter is not zero
\* (direct_rd_pending, dcache_rd_pending, icache_rd_pending): that is always the one
\* requester the bus owes, with as many beats as it owes.
THEOREM ResponsesAreRouted == Spec => []ResponsesReachOwner
<1>1. BusInv => ResponsesReachOwner
  <2> SUFFICES ASSUME BusInv
               PROVE  ResponsesReachOwner
    OBVIOUS
  <2> USE DEF BusInv, ReadsInv
  <2>1. owed = Due
    OBVIOUS
  <2>2. CASE direct_rd_pending
    <3>1. Expected = {[src |-> "direct", left |-> 1]}
      BY <2>2 DEF Expected, dcache_read_pending, icache_read_pending
    <3>2. owed = << [src |-> "direct", left |-> 1] >>
      BY <2>1, <2>2 DEF Due
    <3> QED BY <3>1, <3>2 DEF ResponsesReachOwner
  <2>3. CASE dcache_rd_pending # 0
    <3>1. Expected = {[src |-> "dcache", left |-> dcache_rd_pending]}
      BY <2>3 DEF Expected, dcache_read_pending, icache_read_pending
    <3>2. owed = << [src |-> "dcache", left |-> dcache_rd_pending] >>
      BY <2>1, <2>3 DEF Due
    <3> QED BY <3>1, <3>2 DEF ResponsesReachOwner
  <2>4. CASE icache_rd_pending # 0
    <3>1. Expected = {[src |-> "icache", left |-> icache_rd_pending]}
      BY <2>4 DEF Expected, dcache_read_pending, icache_read_pending
    <3>2. owed = << [src |-> "icache", left |-> icache_rd_pending] >>
      BY <2>1, <2>4 DEF Due
    <3> QED BY <3>1, <3>2 DEF ResponsesReachOwner
  <2>5. CASE NoReads
    <3>1. Expected = {}
      BY <2>5 DEF Expected, dcache_read_pending, icache_read_pending, NoReads
    <3>2. owed = << >>
      BY <2>1, <2>5 DEF Due, NoReads
    <3> QED BY <3>1, <3>2 DEF ResponsesReachOwner
  <2> QED BY <2>2, <2>3, <2>4, <2>5 DEF NoReads
<1> QED BY <1>1, BusInvariant, PTL

\* The registered request stays that of a requester that still waits, and the write data,
\* which is loaded on every clock, is still its data (ext_*_r, ext_dcache_dout_r).
THEOREM RequestsAreHeld == Spec => []RequestHeld
<1>1. BusInv => RequestHeld
  <2> SUFFICES ASSUME BusInv, ext_valid_r
               PROVE  CASE ext.src = "direct" -> /\ direct # None /\ ext.write = direct.write
                                                 /\ ext.io = direct.kind
                                                 /\ ext.write => dout = direct.data
                        [] ext.src = "dcache" -> /\ dcache # None /\ ext.write = dcache.write
                                                 /\ ext.write => dout = dcache.data
                        [] ext.src = "icache" -> icache # None
    BY DEF BusInv, RequestHeld
  <2>1. OnBus
    BY DEF BusInv, HeldInv, ext_valid_r
  <2>2. CASE ext.src = "direct"
    BY <2>1, <2>2 DEF OnBus, dout
  <2>3. CASE ext.src = "dcache"
    BY <2>1, <2>3 DEF OnBus, dout
  <2>4. CASE ext.src = "icache"
    BY <2>1, <2>4 DEF OnBus
  <2> QED BY <2>1, <2>2, <2>3, <2>4 DEF OnBus
<1> QED BY <1>1, BusInvariant, PTL

\* No I/O or INTA transaction is on the bus before the stores the core posted ahead of it
\* are in memory, however many there are (direct_req_ordered).
THEOREM IoStaysBehindStores == Spec => []IoBehindStores
<1>1. BusInv => IoBehindStores
  BY DEF BusInv, PostedInv
<1> QED BY <1>1, BusInvariant, PTL

\* A waiting fetch is passed by one D-cache request at most between two direct accesses:
\* the fixed priority of the D-cache does not starve it.
THEOREM FetchesAreNotStarved == Spec => []FetchNotStarved
<1>1. BusInv => FetchNotStarved
  BY DEF BusInv, PassedInv
<1> QED BY <1>1, BusInvariant, PTL

===========================================================================
