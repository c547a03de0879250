-------------------------- MODULE CacheUnit_proofs --------------------------
(* What holds of the I-cache of module L1ICache with the wiring of module      *)
(* CacheUnit, for every number of sets, ways, words and patches: its registers *)
(* keep their types, no line is in two ways, and without external writers lines*)
(* and fetches are fresh unless a clear comes late or a patch leaves early.    *)
EXTENDS CacheUnit, CacheOps_proofs

\* The registered request and the fill registers while they are in use.
Request == [tag : Tag, set : 0..LastSet, uncacheable : BOOLEAN, conflict : BOOLEAN]
FillKept == ifill = [tag |-> ifill.tag, set |-> ifill.set, way |-> ifill.way,
                     count |-> ifill.count, line |-> ifill.line,
                     requested |-> ifill.requested, uncached |-> ifill.uncached]

\* The types, with what each state says of the registers it works on, what a
\* registered store carries, and the room of the store in the D-cache's lookup.
RegsInv ==
    /\ TypeOK
    /\ isnoop.addr \in Addr
    /\ isnoop.valid /\ isnoop.patch => isnoop.data \in Dword /\ isnoop.be \in Mask
    /\ patchq \in [0..PatchqDepth - 1 -> Store \cup {None}]
    /\ istate = "LOOKUP" => ireq \in Request
    /\ istate = "FILL" => FillKept /\ ifill.tag \in Tag /\ ifill.set \in 0..LastSet
    /\ dstore # None => Len(posted) < MaxPosted

\* Why an instruction fill may install its line.  While a snoop is registered,
\* every way that holds its line is one the clear of this clock reaches; a lookup
\* read the tags its set still has, and none of its line if a snoop of it came
\* with the request; hence the set of a fill that may install does not hold its
\* line, or loses it on this clock.
WaysInv ==
    /\ istate = "RESET" => \A w \in Way : \A s \in 0..LastSet : s < iinit_set => itags[w][s] = None
    /\ isnoop.valid => \A w \in Way : itags[w][isnoop.addr.set] = isnoop.addr.tag => ISnoopMatch(w)
    /\ istate = "LOOKUP" => \A w \in Way : itags[w][ireq.set] = ireq.tag =>
                              ird.tag[w] = ireq.tag /\ ~ireq.conflict
    /\ istate = "FILL" /\ ~ifill.uncached =>
         \A w \in Way : itags[w][ifill.set] = ifill.tag => Clearing(FillLine)
    /\ \A s \in 0..LastSet : \A v, w \in Way :
         istate # "RESET" /\ itags[v][s] # None /\ itags[v][s] = itags[w][s] => v = w

-----------------------------------------------------------------------------
\* The store and the snoop the I-cache is shown.

LEMMA PatchType == ASSUME RegsInv PROVE icache_write_patch \in Store \cup {None}
BY DEF RegsInv, TypeOK, icache_write_patch

LEMMA CapturedType ==
    ASSUME NEW patch \in Store \cup {None}, NEW inv \in Addr \cup {None}, snoop_capture(patch, inv)
    PROVE  captured(patch, inv) \in Addr
BY DEF snoop_capture, captured, Store

LEMMA MergeType ==
    ASSUME NEW old \in Dword, NEW new \in Dword, NEW be
    PROVE  Merge(old, new, be) \in Dword
BY DEF Merge, Dword

LEMMA MaskUnion == ASSUME NEW a \in Mask, NEW b \in Mask PROVE a \cup b \in Mask
BY DEF Mask

\* The registered snoop is the one captured on the clock before.
LEMMA SnoopStep ==
    ASSUME RegsInv, NEW patch \in Store \cup {None}, NEW inv \in Addr \cup {None},
           ISnoopRegister(patch, inv)
    PROVE  /\ isnoop'.addr \in Addr
           /\ isnoop'.valid = snoop_capture(patch, inv)
           /\ isnoop'.valid => isnoop'.addr = captured(patch, inv)
           /\ isnoop'.valid /\ isnoop'.patch => isnoop'.data \in Dword /\ isnoop'.be \in Mask
<1>1. CASE inv # None
  <2>1. isnoop' = [valid |-> TRUE, addr |-> inv, patch |-> FALSE]
    BY <1>1 DEF ISnoopRegister
  <2>2. isnoop'.valid = TRUE /\ isnoop'.addr = inv /\ isnoop'.patch = FALSE
    BY Zenon, <2>1
  <2>3. snoop_capture(patch, inv) = TRUE /\ captured(patch, inv) = inv
    BY <1>1 DEF snoop_capture, captured
  <2> QED BY <1>1, <2>2, <2>3
<1>2. CASE inv = None /\ patch # None
  <2>1. isnoop' = [valid |-> TRUE, addr |-> patch.addr, patch |-> TRUE,
                   data |-> patch.data, be |-> patch.be]
    BY <1>2 DEF ISnoopRegister
  <2>2. /\ isnoop'.valid = TRUE /\ isnoop'.addr = patch.addr
        /\ isnoop'.data = patch.data /\ isnoop'.be = patch.be
    BY Zenon, <2>1
  <2>3. snoop_capture(patch, inv) = TRUE /\ captured(patch, inv) = patch.addr
    BY <1>2 DEF snoop_capture, captured
  <2> QED BY <1>2, <2>2, <2>3 DEF Store
<1>3. CASE inv = None /\ patch = None
  <2>1. isnoop' = [valid |-> FALSE, addr |-> isnoop.addr]
    BY <1>3 DEF ISnoopRegister
  <2>2. isnoop'.valid = FALSE /\ isnoop'.addr = isnoop.addr
    BY Zenon, <2>1
  <2>3. snoop_capture(patch, inv) = FALSE
    BY <1>3 DEF snoop_capture
  <2> QED BY <2>2, <2>3 DEF RegsInv
<1> QED BY <1>1, <1>2, <1>3

-----------------------------------------------------------------------------
\* The patch queue, the store queue, memory: types.

LEMMA PatchQueueTypes ==
    ASSUME RegsInv, PatchQueue
    PROVE  /\ patchq' \in [0..PatchqDepth - 1 -> Store \cup {None}]
           /\ patchq_head' \in 0..PatchqDepth - 1
<1>0. /\ patchq \in [0..PatchqDepth - 1 -> Store \cup {None}] /\ isnoop.addr \in Addr
      /\ patchq_head \in 0..PatchqDepth - 1 /\ DOMAIN patchq = 0..PatchqDepth - 1
  BY DEF RegsInv, TypeOK
<1>1. patchq_next_idx(patchq_head) \in 0..PatchqDepth - 1
  BY <1>0, PatchqAssumption DEF patchq_next_idx
<1>2. CASE isnoop.valid /\ isnoop.patch
  <2>1. isnoop.data \in Dword /\ isnoop.be \in Mask
    BY <1>2 DEF RegsInv
  <2>2. CASE patchqHits # {}
    <3>1. /\ patchq' = [p \in DOMAIN patchq |->
                          IF p \in patchqHits THEN PatchMerged(patchq[p]) ELSE patchq[p]]
          /\ patchq_head' = patchq_head
      BY <1>2, <2>2 DEF PatchQueue
    <3>2. ASSUME NEW p \in 0..PatchqDepth - 1, p \in patchqHits
          PROVE  PatchMerged(patchq[p]) \in Store
      <4> DEFINE e == patchq[p]
      <4>1. e \in Store
        BY <1>0, <3>2 DEF patchqHits
      <4>2. /\ Merge(e.data, isnoop.data, isnoop.be) \in Dword
            /\ e.be \cup isnoop.be \in Mask
        BY <4>1, <2>1, MergeType, MaskUnion DEF Store
      <4> QED BY <4>1, <4>2 DEF PatchMerged, Store
    <3> QED BY <1>0, <3>1, <3>2
  <2>3. CASE patchqHits = {}
    <3>1. /\ patchq' = [patchq EXCEPT ![patchq_head] =
                          [addr |-> isnoop.addr, data |-> isnoop.data, be |-> isnoop.be]]
          /\ patchq_head' = patchq_next_idx(patchq_head)
      BY <1>2, <2>3 DEF PatchQueue
    <3>2. [addr |-> isnoop.addr, data |-> isnoop.data, be |-> isnoop.be] \in Store
      BY <1>0, <2>1 DEF Store
    <3> QED BY <1>0, <1>1, <3>1, <3>2
  <2> QED BY <2>2, <2>3
<1>3. CASE isnoop.valid /\ ~isnoop.patch
  <2>1. /\ patchq' = [p \in DOMAIN patchq |->
                        IF patchq[p] # None /\ LineOf(patchq[p].addr) = LineOf(isnoop.addr)
                        THEN None ELSE patchq[p]]
        /\ patchq_head' = patchq_head
    BY <1>3 DEF PatchQueue
  <2> QED BY <1>0, <2>1
<1>4. CASE ~isnoop.valid
  BY <1>0, <1>4 DEF PatchQueue
<1> QED BY <1>2, <1>3, <1>4

LEMMA StoresTypes ==
    ASSUME RegsInv, NEW bus \in Bus, DcacheStores(bus), PatchSlot
    PROVE  /\ dstore' \in Store \cup {None} /\ slot' \in Store \cup {None}
           /\ posted' \in Seq(Store) /\ Len(posted') <= MaxPosted
           /\ dstore' # None => Len(posted') < MaxPosted
<1> DEFINE p == IF bus.drain THEN Tail(posted) ELSE posted
<1>1. /\ posted \in Seq(Store) /\ Len(posted) <= MaxPosted /\ MaxPosted \in Nat
      /\ dstore \in Store \cup {None} /\ slot \in Store \cup {None}
      /\ dstore # None => Len(posted) < MaxPosted
  BY UnitAssumption DEF RegsInv, TypeOK
<1>2. slot' \in Store \cup {None}
  BY <1>1 DEF PatchSlot
<1>3. p \in Seq(Store) /\ Len(p) <= Len(posted) /\ Len(p) \in Nat /\ Len(posted) \in Nat
  <2>1. bus.drain => posted # << >>
    BY DEF Bus
  <2>2. posted # << >> => Tail(posted) \in Seq(Store) /\ Len(Tail(posted)) = Len(posted) - 1
    BY <1>1, HeadTailProperties
  <2> QED BY <1>1, <2>1, <2>2, LenProperties
<1>4. posted' \in Enqueue(p, dstore)
  BY DEF DcacheStores
<1>5. dstore' \in IF Len(posted') < MaxPosted /\ ~(dstore # None /\ store_patch_busy)
                  THEN Store \cup {None} ELSE {None}
  BY DEF DcacheStores
<1> HIDE DEF p
<1>6. CASE dstore = None
  <2>1. posted' = p
    BY <1>4, <1>6 DEF Enqueue
  <2> QED BY <1>1, <1>2, <1>3, <1>5, <2>1
<1>7. CASE dstore # None /\ posted' = Append(p, dstore)
  <2>1. posted' \in Seq(Store) /\ Len(posted') = Len(p) + 1
    BY <1>1, <1>3, <1>7, AppendProperties
  <2> QED BY <1>1, <1>2, <1>3, <1>5, <1>7, <2>1
<1>8. CASE dstore # None /\ posted' # Append(p, dstore)
  <2> DEFINE n == Len(p)
             e == p[n]
             r == [e EXCEPT !.data = Merge(@, dstore.data, dstore.be), !.be = @ \cup dstore.be]
  <2>1. p # << >> /\ posted' = [p EXCEPT ![n].data = Merge(@, dstore.data, dstore.be),
                                         ![n].be = @ \cup dstore.be]
    BY <1>4, <1>8 DEF Enqueue
  <2>2. n \in 1..n /\ DOMAIN p = 1..n /\ p \in [1..n -> Store]
    BY <1>3, <2>1, EmptySeq, LenProperties, SeqDef
  <2>3. posted' = [p EXCEPT ![n] = r]
    BY <2>1, <2>2
  <2>4. e \in Store
    BY <2>2
  <2>5. r \in Store
    <3>1. e.data \in Dword /\ e.be \in Mask /\ dstore.data \in Dword /\ dstore.be \in Mask
      BY <1>1, <1>8, <2>4 DEF Store
    <3>2. Merge(e.data, dstore.data, dstore.be) \in Dword /\ e.be \cup dstore.be \in Mask
      BY <3>1, MergeType, MaskUnion
    <3> QED BY <2>4, <3>2 DEF Store
  <2> HIDE DEF e, r
  <2>6. posted' \in Seq(Store) /\ Len(posted') = n
    BY <1>3, <2>2, <2>3, <2>5, ExceptSeq
  <2> QED BY <1>1, <1>2, <1>3, <1>5, <2>6
<1> QED BY <1>6, <1>7, <1>8

LEMMA MemoryType ==
    ASSUME RegsInv, NEW bus \in Bus, NEW x \in Written, MemoryNext(bus, x)
    PROVE  mem' \in [Addr -> Dword]
<1> DEFINE m == IF x = None THEN mem ELSE [mem EXCEPT ![isnoop.addr] = x]
           h == Head(posted)
<1>1. m \in [Addr -> Dword]
  BY DEF Written, RegsInv, TypeOK
<1>2. bus.drain => h \in Store
  <2>1. bus.drain => posted # << >>
    BY DEF Bus
  <2> QED BY <2>1, HeadTailProperties DEF RegsInv, TypeOK
<1>3. mem' = IF bus.drain THEN [m EXCEPT ![h.addr] = Merge(@, h.data, h.be)] ELSE m
  BY DEF MemoryNext
<1> HIDE DEF m, h
<1>4. bus.drain => h.addr \in Addr /\ Merge(m[h.addr], h.data, h.be) \in Dword
  BY <1>1, <1>2, MergeType DEF Store
<1> QED BY <1>1, <1>3, <1>4

-----------------------------------------------------------------------------
\* The state machine: where a lookup, a fill and the reset come from, and types.

\* A fill goes on with the registers it has, or starts from a lookup that missed.
LEMMA FillSource ==
    ASSUME RegsInv, NEW patch, NEW fetch \in Offered, NEW bus \in Bus, NEW data,
           IMachine(fetch, patch, bus, data), istate' = "FILL"
    PROVE  /\ FillKept'
           /\ \/ /\ istate = "FILL" /\ ~itag_fill_write(bus)
                 /\ ifill'.tag = ifill.tag /\ ifill'.set = ifill.set
                 /\ ifill'.uncached = ifill.uncached
              \/ /\ istate = "LOOKUP" /\ ~ilookup_hit_now(patch)
                 /\ ifill'.tag = ireq.tag /\ ifill'.set = ireq.set
                 /\ ifill'.uncached = ireq.uncacheable
<1>1. CASE ILookupMiss(fetch, patch)
  <2>1. PICK victim \in Way :
          ifill' = [tag |-> ireq.tag, set |-> ireq.set, way |-> victim, count |-> 0,
                    line |-> Zero, requested |-> FALSE, uncached |-> ireq.uncacheable]
    BY <1>1 DEF ILookupMiss
  <2>2. /\ ifill'.tag = ireq.tag /\ ifill'.set = ireq.set /\ ifill'.way = victim
        /\ ifill'.count = 0 /\ ifill'.line = Zero /\ ifill'.requested = FALSE
        /\ ifill'.uncached = ireq.uncacheable
    BY Zenon, <2>1
  <2>3. FillKept'
    BY Zenon, <2>1, <2>2 DEF FillKept
  <2>4. istate = "LOOKUP" /\ ~ilookup_hit_now(patch)
    BY <1>1 DEF ILookupMiss
  <2> QED BY <2>2, <2>3, <2>4
<1>2. CASE IFill(fetch, patch, bus, data)
  <2>1. istate = "FILL" /\ FillKept
    BY <1>2 DEF IFill, RegsInv
  <2>2. ASSUME NEW r, NEW c, NEW l,
               ifill' = [tag |-> ifill.tag, set |-> ifill.set, way |-> ifill.way, count |-> c,
                         line |-> l, requested |-> r, uncached |-> ifill.uncached]
        PROVE  /\ FillKept' /\ ifill'.tag = ifill.tag /\ ifill'.set = ifill.set
               /\ ifill'.uncached = ifill.uncached
    <3>1. /\ ifill'.tag = ifill.tag /\ ifill'.set = ifill.set /\ ifill'.way = ifill.way
          /\ ifill'.count = c /\ ifill'.line = l /\ ifill'.requested = r
          /\ ifill'.uncached = ifill.uncached
      BY Zenon, <2>2
    <3> QED BY Zenon, <2>2, <3>1 DEF FillKept
  <2>3. CASE bus.resp = "none"
    <3>1. ifill' = [ifill EXCEPT !.requested = @ \/ ifillIssue(bus)]
      BY <1>2, <2>3 DEF IFill
    <3>2. PICK r : r = (ifill.requested \/ ifillIssue(bus))
      OBVIOUS
    <3>3. ifill' = [ifill EXCEPT !.requested = r]
      BY Zenon, <3>1, <3>2
    <3>4. ifill' = [tag |-> ifill.tag, set |-> ifill.set, way |-> ifill.way, count |-> ifill.count,
                    line |-> ifill.line, requested |-> r, uncached |-> ifill.uncached]
      BY <2>1, <3>3 DEF FillKept
    <3> QED BY <2>1, <2>2, <2>3, <3>4 DEF itag_fill_write, lastBeat
  <2>4. CASE bus.resp = "beat" /\ ifill.count # LastWord
    <3>1. ifill' = [ifill EXCEPT !.count = @ + 1, !.line = fill_line_next(patch, data)]
      BY <1>2, <2>4 DEF IFill
    <3>2. ifill' = [tag |-> ifill.tag, set |-> ifill.set, way |-> ifill.way, count |-> ifill.count + 1,
                    line |-> fill_line_next(patch, data), requested |-> ifill.requested,
                    uncached |-> ifill.uncached]
      BY <2>1, <3>1 DEF FillKept
    <3> QED BY <2>1, <2>2, <2>4, <3>2 DEF itag_fill_write, lastBeat
  <2>5. CASE bus.resp = "line" \/ (bus.resp = "beat" /\ ifill.count = LastWord)
    BY <1>2, <2>5 DEF IFill, IFillDone
  <2> QED BY <1>2, <2>3, <2>4, <2>5 DEF IFill
<1>3. CASE IResetInit(fetch)
  BY <1>3 DEF IResetInit
<1>4. CASE IIdle(fetch)
  BY <1>4 DEF IIdle
<1>5. CASE ILookupHit(fetch, patch)
  BY <1>5 DEF ILookupHit
<1> QED BY <1>1, <1>2, <1>3, <1>4, <1>5 DEF IMachine

\* A lookup is of the line the prefetch unit asks for.
LEMMA LookupSource ==
    ASSUME RegsInv, NEW patch, NEW fetch \in Offered, NEW bus \in Bus, NEW data,
           IMachine(fetch, patch, bus, data), istate' = "LOOKUP"
    PROVE  /\ istate = "IDLE" /\ fetch # None /\ iready_r
           /\ fetch.tag \in Tag /\ fetch.set \in 0..LastSet
           /\ ireq' \in Request /\ ireq'.tag = fetch.tag /\ ireq'.set = fetch.set
           /\ ireq'.conflict = (isnoop.valid /\ LineOf(isnoop.addr) = LineOf(fetch))
<1>1. IIdle(fetch) /\ istate = "IDLE" /\ fetch # None /\ iready_r
  BY DEF IMachine, IResetInit, IIdle, ILookupHit, ILookupMiss, IFill, IFillDone, ilookup_hit_now
<1>2. fetch \in Fetch
  BY <1>1 DEF Offered
<1>3. fetch.tag \in Tag /\ fetch.set \in 0..LastSet /\ fetch.uncacheable \in BOOLEAN
  BY <1>2, UnitAssumption DEF Fetch
<1>4. PICK c : c = (isnoop.valid /\ LineOf(isnoop.addr) = LineOf(fetch))
  OBVIOUS
<1>5. c \in BOOLEAN
  BY Zenon, <1>4
<1>6. ireq' = [tag |-> fetch.tag, set |-> fetch.set, uncacheable |-> fetch.uncacheable,
               conflict |-> c]
  BY Zenon, <1>1, <1>4 DEF IIdle
<1>7. ireq' \in Request /\ ireq'.tag = fetch.tag /\ ireq'.set = fetch.set
  BY <1>3, <1>5, <1>6 DEF Request
<1>8. ireq'.conflict = c
  BY Zenon, <1>6
<1> QED BY Zenon, <1>1, <1>3, <1>4, <1>7, <1>8

LEMMA ResetSource ==
    ASSUME RegsInv, NEW patch, NEW fetch, NEW bus, NEW data,
           IMachine(fetch, patch, bus, data)
    PROVE  /\ istate' = "RESET" => istate = "RESET" /\ iinit_set' = iinit_set + 1
           /\ istate = "RESET" /\ istate' # "RESET" => iinit_set = LastSet
           /\ iinit_set' \in 0..LastSet
<1>1. iinit_set \in 0..LastSet /\ LastSet \in Nat
  BY IndexAssumption DEF RegsInv, TypeOK
<1>2. CASE IResetInit(fetch)
  BY <1>1, <1>2 DEF IResetInit
<1>3. CASE IIdle(fetch)
  BY <1>1, <1>3 DEF IIdle
<1>4. CASE ILookupHit(fetch, patch)
  BY <1>1, <1>4 DEF ILookupHit, ilookup_hit_now
<1>5. CASE ILookupMiss(fetch, patch)
  BY <1>1, <1>5 DEF ILookupMiss
<1>6. CASE IFill(fetch, patch, bus, data)
  BY <1>1, <1>6 DEF IFill, IFillDone
<1> QED BY <1>2, <1>3, <1>4, <1>5, <1>6 DEF IMachine

LEMMA MachineTypes ==
    ASSUME RegsInv, NEW patch, NEW fetch \in Offered, NEW bus \in Bus, NEW data,
           IMachine(fetch, patch, bus, data)
    PROVE  /\ istate' \in {"RESET", "IDLE", "LOOKUP", "FILL"}
           /\ ireq' \in {NoFetch} \cup Request
           /\ iready_r' \in BOOLEAN
           /\ imemport' \in {None} \cup [tag : Tag, set : 0..LastSet]
           /\ istate' = "LOOKUP" => ireq' \in Request
           /\ istate' = "FILL" => FillKept' /\ ifill'.tag \in Tag /\ ifill'.set \in 0..LastSet
<1>0. /\ ireq \in {NoFetch} \cup Request /\ iready_r \in BOOLEAN
      /\ imemport \in {None} \cup [tag : Tag, set : 0..LastSet]
      /\ istate \in {"RESET", "IDLE", "LOOKUP", "FILL"}
  BY DEF RegsInv, TypeOK, Request
<1>1. ASSUME istate' = "FILL" PROVE ifill'.tag \in Tag /\ ifill'.set \in 0..LastSet
  BY <1>1, FillSource DEF RegsInv, Request
<1>2. ASSUME istate' = "FILL" PROVE FillKept'
  BY <1>2, FillSource
<1>3. ASSUME istate' = "LOOKUP" PROVE ireq' \in Request
  BY <1>3, LookupSource
<1>4. imemport' \in {None} \cup [tag : Tag, set : 0..LastSet]
  <2>1. istate = "FILL" => FillLine \in [tag : Tag, set : 0..LastSet]
    BY DEF RegsInv, FillLine, LineOf
  <2>2. imemport' = imemport \/ imemport' = None \/ (istate = "FILL" /\ imemport' = FillLine)
    BY DEF IMachine, IResetInit, IIdle, ILookupHit, ILookupMiss, IFill, IMemPort
  <2> QED BY <1>0, <2>1, <2>2
<1>5. ireq' \in {NoFetch} \cup Request
  <2>1. ireq' = ireq \/ ireq' = NoFetch \/ istate' = "LOOKUP"
    BY DEF IMachine, IResetInit, IIdle, ILookupHit, ILookupMiss, IFill
  <2> QED BY <1>0, <1>3, <2>1
<1>6. iready_r' \in BOOLEAN /\ istate' \in {"RESET", "IDLE", "LOOKUP", "FILL"}
  BY <1>0 DEF IMachine, IResetInit, IIdle, ILookupHit, ILookupMiss, IFill, IFillDone
<1> QED BY <1>1, <1>2, <1>3, <1>4, <1>5, <1>6

-----------------------------------------------------------------------------
\* The tag RAMs.

\* A tag stays, is cleared, or is the one a fill installs.
LEMMA TagStep ==
    ASSUME RegsInv, NEW patch, NEW inv, NEW bus, ITagRams(patch, inv, bus),
           NEW w \in Way, NEW s \in 0..LastSet
    PROVE  \/ itags'[w][s] = itags[w][s]
           \/ itags'[w][s] = None
           \/ /\ installs(patch, inv, bus) /\ w = ifill.way /\ s = ifill.set
              /\ itags'[w][s] = ifill.tag
<1>1. itags[w] \in [0..LastSet -> Tag \cup {None}]
  BY DEF RegsInv, TypeOK
<1> DEFINE mine == installs(patch, inv, bus) /\ w = ifill.way
<1>2. itags'[w] = CASE istate = "RESET" -> [itags[w] EXCEPT ![iinit_set] = None]
                    [] istate # "RESET" /\ mine -> [itags[w] EXCEPT ![ifill.set] = ifill.tag]
                    [] istate # "RESET" /\ ~mine /\ ISnoopMatch(w)
                         -> [itags[w] EXCEPT ![isnoop.addr.set] = None]
                    [] OTHER -> itags[w]
  BY Zenon DEF ITagRams
<1>3. mine => installs(patch, inv, bus) /\ w = ifill.way
  OBVIOUS
<1> HIDE DEF mine
<1>4. CASE istate = "RESET"
  <2>1. itags'[w] = [itags[w] EXCEPT ![iinit_set] = None]
    BY <1>2, <1>4
  <2> QED BY <1>1, <2>1
<1>5. CASE istate # "RESET" /\ mine
  <2>1. itags'[w] = [itags[w] EXCEPT ![ifill.set] = ifill.tag]
    BY <1>2, <1>5
  <2> QED BY <1>1, <1>3, <1>5, <2>1
<1>6. CASE istate # "RESET" /\ ~mine /\ ISnoopMatch(w)
  <2>1. itags'[w] = [itags[w] EXCEPT ![isnoop.addr.set] = None]
    BY <1>2, <1>6
  <2> QED BY <1>1, <2>1
<1>7. CASE istate # "RESET" /\ ~mine /\ ~ISnoopMatch(w)
  BY <1>2, <1>7
<1> QED BY <1>4, <1>5, <1>6, <1>7

\* The clear of the registered snoop reaches every way it matches.
LEMMA SnoopClears ==
    ASSUME RegsInv, NEW patch, NEW inv, NEW bus, ITagRams(patch, inv, bus),
           NEW w \in Way, istate # "RESET", ISnoopMatch(w),
           ~(installs(patch, inv, bus) /\ w = ifill.way)
    PROVE  itags'[w][isnoop.addr.set] = None
<1>1. itags[w] \in [0..LastSet -> Tag \cup {None}] /\ isnoop.addr.set \in 0..LastSet
  BY DEF RegsInv, TypeOK, Addr
<1>2. itags'[w] = [itags[w] EXCEPT ![isnoop.addr.set] = None]
  BY Zenon DEF ITagRams
<1> QED BY <1>1, <1>2

LEMMA ResetClears ==
    ASSUME RegsInv, WaysInv, NEW patch, NEW inv, NEW bus, ITagRams(patch, inv, bus),
           istate = "RESET", NEW w \in Way, NEW s \in 0..LastSet, s <= iinit_set
    PROVE  itags'[w][s] = None
<1>1. itags[w] \in [0..LastSet -> Tag \cup {None}] /\ iinit_set \in 0..LastSet
  BY DEF RegsInv, TypeOK
<1>2. itags'[w] = [itags[w] EXCEPT ![iinit_set] = None]
  BY DEF ITagRams
<1>3. s # iinit_set => s < iinit_set
  BY <1>1, IndexAssumption
<1> QED BY <1>1, <1>2, <1>3 DEF WaysInv

LEMMA TagTypes ==
    ASSUME RegsInv, NEW patch, NEW inv, NEW bus, ITagRams(patch, inv, bus)
    PROVE  itags' \in [Way -> [0..LastSet -> Tag \cup {None}]]
<1>1. itags \in [Way -> [0..LastSet -> Tag \cup {None}]]
  BY DEF RegsInv, TypeOK
<1>2. installs(patch, inv, bus) => ifill.tag \in Tag
  BY DEF installs, itag_fill_write, RegsInv
<1>3. ASSUME NEW w \in Way
      PROVE  \/ itags'[w] = itags[w]
             \/ \E k : \E t \in Tag \cup {None} : itags'[w] = [itags[w] EXCEPT ![k] = t]
  <2> DEFINE mine == installs(patch, inv, bus) /\ w = ifill.way
  <2>1. itags'[w] = CASE istate = "RESET" -> [itags[w] EXCEPT ![iinit_set] = None]
                      [] istate # "RESET" /\ mine -> [itags[w] EXCEPT ![ifill.set] = ifill.tag]
                      [] istate # "RESET" /\ ~mine /\ ISnoopMatch(w)
                           -> [itags[w] EXCEPT ![isnoop.addr.set] = None]
                      [] OTHER -> itags[w]
    BY Zenon DEF ITagRams
  <2>2. mine => ifill.tag \in Tag
    BY <1>2
  <2> HIDE DEF mine
  <2>3. CASE istate = "RESET"
    BY <2>1, <2>3
  <2>4. CASE istate # "RESET" /\ mine
    BY <2>1, <2>2, <2>4
  <2>5. CASE istate # "RESET" /\ ~mine /\ ISnoopMatch(w)
    BY <2>1, <2>5
  <2>6. CASE istate # "RESET" /\ ~mine /\ ~ISnoopMatch(w)
    BY <2>1, <2>6
  <2> QED BY <2>3, <2>4, <2>5, <2>6
<1>4. ASSUME NEW w \in Way PROVE itags'[w] \in [0..LastSet -> Tag \cup {None}]
  <2>1. itags[w] \in [0..LastSet -> Tag \cup {None}]
    BY <1>1
  <2>2. ASSUME NEW k, NEW t \in Tag \cup {None}, itags'[w] = [itags[w] EXCEPT ![k] = t]
        PROVE  itags'[w] \in [0..LastSet -> Tag \cup {None}]
    BY <2>1, <2>2
  <2> QED BY <1>3, <2>1, <2>2
<1>5. itags' = [w \in Way |-> itags'[w]]
  BY Zenon DEF ITagRams
<1> QED BY <1>4, <1>5

-----------------------------------------------------------------------------
\* One clock keeps the types.

LEMMA SnoopTypes ==
    ASSUME RegsInv, SnoopNext
    PROVE  snoop' \in Addr \cup {None} /\ held' \in 0..MaxHold
<1>1. snoop \in Addr \cup {None} /\ held \in 0..MaxHold /\ MaxHold \in Nat
  BY UnitAssumption DEF RegsInv, TypeOK
<1>2. CASE snoop' = None /\ held' = 0
  BY <1>1, <1>2
<1>3. CASE snoop # None /\ held < MaxHold /\ snoop' = snoop /\ held' = held + 1
  BY <1>1, <1>3
<1>4. CASE /\ snoop = None /\ MaxHold > 0
           /\ \E a \in Addr : WriterFree(a) /\ snoop' = a
           /\ held' = 1
  BY <1>1, <1>4
<1> QED BY <1>2, <1>3, <1>4 DEF SnoopNext

LEMMA RegsStep ==
    ASSUME RegsInv, NEW bus \in Bus, NEW fetch \in Offered, NEW x \in Written, Clock(fetch, bus, x)
    PROVE  RegsInv'
<1>1. PICK patch : patch = icache_write_patch
  OBVIOUS
<1>2. PICK data : data = returned(bus)
  OBVIOUS
<1>3. patch \in Store \cup {None} /\ snoop \in Addr \cup {None}
  BY <1>1, PatchType DEF RegsInv, TypeOK
<1>4. IMachine(fetch, patch, bus, data) /\ IDatapath(fetch, patch, snoop, bus, data)
  BY Zenon, <1>1, <1>2 DEF Clock, IClock
<1>5. ISnoopRegister(patch, snoop) /\ PatchQueue /\ ITagRams(patch, snoop, bus)
  BY Zenon, <1>4 DEF IDatapath
<1>6. PatchSlot /\ DcacheStores(bus) /\ SnoopNext /\ MemoryNext(bus, x) /\ ReadingNext(bus)
  BY DEF Clock
<1>7. reading' \in BOOLEAN
  BY <1>6, Zenon DEF ReadingNext
<1>8. iinit_set' \in 0..LastSet
  BY <1>4, ResetSource
<1>9. /\ istate' \in {"RESET", "IDLE", "LOOKUP", "FILL"}
      /\ ireq' \in {NoFetch} \cup Request
      /\ iready_r' \in BOOLEAN
      /\ imemport' \in {None} \cup [tag : Tag, set : 0..LastSet]
      /\ istate' = "LOOKUP" => ireq' \in Request
      /\ istate' = "FILL" => FillKept' /\ ifill'.tag \in Tag /\ ifill'.set \in 0..LastSet
  BY <1>4, MachineTypes
<1>10. itags' \in [Way -> [0..LastSet -> Tag \cup {None}]]
  BY <1>5, TagTypes
<1>11. /\ isnoop'.addr \in Addr
       /\ isnoop'.valid /\ isnoop'.patch => isnoop'.data \in Dword /\ isnoop'.be \in Mask
  BY <1>3, <1>5, SnoopStep
<1>12. /\ patchq' \in [0..PatchqDepth - 1 -> Store \cup {None}]
       /\ patchq_head' \in 0..PatchqDepth - 1
  BY <1>5, PatchQueueTypes
<1>13. /\ dstore' \in Store \cup {None} /\ slot' \in Store \cup {None}
       /\ posted' \in Seq(Store) /\ Len(posted') <= MaxPosted
       /\ dstore' # None => Len(posted') < MaxPosted
  BY <1>6, StoresTypes
<1>14. mem' \in [Addr -> Dword]
  BY <1>6, MemoryType
<1>15. snoop' \in Addr \cup {None} /\ held' \in 0..MaxHold
  BY <1>6, SnoopTypes
<1>16. \A p \in 0..PatchqDepth - 1 : patchq'[p] \in Store \cup {None}
  BY <1>12
<1>17. TypeOK'
  BY <1>7, <1>8, <1>9, <1>10, <1>12, <1>13, <1>14, <1>15, <1>16 DEF TypeOK, Request
<1> QED BY <1>9, <1>11, <1>12, <1>13, <1>17 DEF RegsInv

-----------------------------------------------------------------------------
\* One clock keeps every line in one way.

\* A way holds a line after a clock only if it held it before, and no snoop of it
\* was registered unless a fill took the write port, or the fill installs it.
LEMMA HolderStep ==
    ASSUME RegsInv, WaysInv, istate # "RESET", NEW patch, NEW inv, NEW bus,
           ITagRams(patch, inv, bus),
           NEW w \in Way, NEW s \in 0..LastSet, NEW t \in Tag, itags'[w][s] = t
    PROVE  \/ /\ itags[w][s] = t
              /\ \/ installs(patch, inv, bus)
                 \/ ~(isnoop.valid /\ isnoop.addr.set = s /\ isnoop.addr.tag = t)
           \/ installs(patch, inv, bus) /\ w = ifill.way /\ s = ifill.set /\ t = ifill.tag
<1>1. t # None
  BY NoneAssumption
<1>2. \/ itags[w][s] = t
      \/ installs(patch, inv, bus) /\ w = ifill.way /\ s = ifill.set /\ t = ifill.tag
  BY <1>1, TagStep
<1>3. ASSUME itags[w][s] = t, isnoop.valid, isnoop.addr.set = s, isnoop.addr.tag = t,
             ~installs(patch, inv, bus)
      PROVE  FALSE
  <2>1. ISnoopMatch(w)
    BY <1>3 DEF WaysInv
  <2> QED BY <1>1, <1>3, <2>1, SnoopClears
<1> QED BY <1>2, <1>3

LEMMA WaysStep ==
    ASSUME RegsInv, WaysInv, NEW bus \in Bus, NEW fetch \in Offered, NEW x \in Written,
           Clock(fetch, bus, x)
    PROVE  WaysInv'
<1>1. PICK patch : patch = icache_write_patch
  OBVIOUS
<1>2. PICK data : data = returned(bus)
  OBVIOUS
<1>3. /\ patch \in Store \cup {None} /\ snoop \in Addr \cup {None}
      /\ snoop # None => patch = None
  BY <1>1, PatchType DEF RegsInv, TypeOK, icache_write_patch
<1>4. IMachine(fetch, patch, bus, data) /\ IDatapath(fetch, patch, snoop, bus, data)
  BY Zenon, <1>1, <1>2 DEF Clock, IClock
<1>5. ISnoopRegister(patch, snoop) /\ ITagRams(patch, snoop, bus) /\ ITagRead(fetch, patch, snoop)
  BY Zenon, <1>4 DEF IDatapath
<1>6. RegsInv'
  BY RegsStep
<1>7. installs(patch, snoop, bus) => /\ istate = "FILL" /\ itag_fill_write(bus)
                                     /\ ~ifill.uncached
                                     /\ ~(snoop_capture(patch, snoop) /\ LineOf(captured(patch, snoop)) = FillLine)
                                     /\ ~Clearing(FillLine)
  BY DEF installs, itag_fill_write, fill_install_allowed, Clearing
<1>8. ASSUME istate' = "RESET", NEW w \in Way, NEW s \in 0..LastSet, s < iinit_set'
      PROVE  itags'[w][s] = None
  <2>1. istate = "RESET" /\ s <= iinit_set
    BY <1>4, <1>8, ResetSource, IndexAssumption DEF RegsInv, TypeOK
  <2> QED BY <1>5, <2>1, ResetClears
<1>9. ASSUME isnoop'.valid, NEW w \in Way, itags'[w][isnoop'.addr.set] = isnoop'.addr.tag
      PROVE  isnoop_tags'[w] # None /\ isnoop_tags'[w] = isnoop'.addr.tag
  <2>1. /\ isnoop'.addr \in Addr /\ isnoop'.addr = captured(patch, snoop)
        /\ snoop_capture(patch, snoop)
    BY <1>3, <1>5, <1>9, SnoopStep
  <2> DEFINE s == isnoop'.addr.set
             t == isnoop'.addr.tag
  <2>2. s \in 0..LastSet /\ t \in Tag /\ t # None
    BY <2>1, NoneAssumption DEF Addr
  <2>3. isnoop_tags'[w] = itags[w][s]
    BY <1>5, <2>1 DEF ITagRead
  <2>4. ~(installs(patch, snoop, bus) /\ s = ifill.set /\ t = ifill.tag)
    BY <1>7, <2>1 DEF LineOf, FillLine
  <2> HIDE DEF s, t
  <2>5. itags'[w][s] = t
    BY <1>9 DEF s, t
  <2>6. itags[w][s] = t
    BY <1>5, <2>2, <2>4, <2>5, TagStep
  <2> QED BY <2>2, <2>3, <2>6 DEF t
<1>10. ASSUME istate' = "LOOKUP", NEW w \in Way, itags'[w][ireq'.set] = ireq'.tag
       PROVE  ird'.tag[w] = ireq'.tag /\ ~ireq'.conflict
  <2>1. /\ istate = "IDLE" /\ fetch # None /\ iready_r
        /\ fetch.tag \in Tag /\ fetch.set \in 0..LastSet
        /\ ireq'.tag = fetch.tag /\ ireq'.set = fetch.set
        /\ ireq'.conflict = (isnoop.valid /\ LineOf(isnoop.addr) = LineOf(fetch))
    BY <1>4, <1>10, LookupSource
  <2>2. /\ itags[w][fetch.set] = fetch.tag
        /\ ~(isnoop.valid /\ isnoop.addr.set = fetch.set /\ isnoop.addr.tag = fetch.tag)
    BY <1>5, <1>7, <1>10, <2>1, HolderStep
  <2>3. ird'.tag = [y \in Way |-> itags[y][fetch.set]]
    BY <1>5, <2>1 DEF ITagRead
  <2>4. LineOf(isnoop.addr) = LineOf(fetch) =>
          isnoop.addr.set = fetch.set /\ isnoop.addr.tag = fetch.tag
    BY DEF LineOf
  <2>5. ireq'.conflict = FALSE
    BY <2>1, <2>2, <2>4
  <2> QED BY <2>1, <2>2, <2>3, <2>5
<1>11. ASSUME istate' = "FILL", ~ifill'.uncached, NEW w \in Way, itags'[w][ifill'.set] = ifill'.tag
       PROVE  isnoop'.valid /\ LineOf(isnoop'.addr) = LineOf(ifill')
  <2>1. ifill'.set \in 0..LastSet /\ ifill'.tag \in Tag
    BY <1>6, <1>11 DEF RegsInv
  <2>2. CASE /\ istate = "FILL" /\ ~itag_fill_write(bus)
             /\ ifill'.tag = ifill.tag /\ ifill'.set = ifill.set
             /\ ifill'.uncached = ifill.uncached
    <3>1. /\ itags[w][ifill.set] = ifill.tag
          /\ ~(isnoop.valid /\ isnoop.addr.set = ifill.set /\ isnoop.addr.tag = ifill.tag)
      BY <1>5, <1>7, <1>11, <2>1, <2>2, HolderStep
    <3>2. Clearing(FillLine)
      BY <1>11, <2>2, <3>1 DEF WaysInv
    <3> QED BY <3>1, <3>2 DEF Clearing, FillLine, LineOf
  <2>3. CASE /\ istate = "LOOKUP" /\ ~ilookup_hit_now(patch)
             /\ ifill'.tag = ireq.tag /\ ifill'.set = ireq.set
             /\ ifill'.uncached = ireq.uncacheable
    <3>1. /\ itags[w][ireq.set] = ireq.tag
          /\ ~(isnoop.valid /\ isnoop.addr.set = ireq.set /\ isnoop.addr.tag = ireq.tag)
      BY <1>5, <1>7, <1>11, <2>1, <2>3, HolderStep
    <3>2. ird.tag[w] = ireq.tag /\ ~ireq.conflict
      BY <2>3, <3>1 DEF WaysInv
    <3>3. ird.tag[w] # None
      BY <2>1, <2>3, <3>2, NoneAssumption
    <3>4. w \in ihit_ways
      BY <3>2, <3>3 DEF ihit_ways
    <3>5. lookup_snoop_conflict(patch)
      BY <1>11, <2>3, <3>4 DEF ilookup_hit_now, lookup_hit_usable
    <3>6. patch # None /\ LineOf(patch.addr) = LineOf(ireq)
      BY <3>1, <3>2, <3>5 DEF lookup_snoop_conflict, LineOf
    <3>7. snoop_capture(patch, snoop) = TRUE /\ captured(patch, snoop) = patch.addr
      BY <1>3, <3>6 DEF snoop_capture, captured
    <3>8. isnoop'.valid = TRUE /\ isnoop'.addr = patch.addr
      BY <1>3, <1>5, <3>7, SnoopStep
    <3> QED BY <2>3, <3>6, <3>8 DEF LineOf
  <2> QED BY <1>4, <1>11, <2>2, <2>3, FillSource
<1>12. ASSUME istate' # "RESET", NEW s \in 0..LastSet, NEW v \in Way, NEW w \in Way,
              itags'[v][s] # None, itags'[v][s] = itags'[w][s]
       PROVE  v = w
  <2>1. CASE istate = "RESET"
    <3>1. s <= iinit_set
      BY <1>4, <1>12, <2>1, ResetSource, IndexAssumption
    <3> QED BY <1>5, <1>12, <2>1, <3>1, ResetClears
  <2>2. CASE istate # "RESET"
    <3>1. PICK t : t = itags'[v][s]
      OBVIOUS
    <3>0. itags' \in [Way -> [0..LastSet -> Tag \cup {None}]]
      BY <1>5, TagTypes
    <3>2. t \in Tag
      BY <1>12, <3>0, <3>1
    <3> DEFINE kept(y) == itags[y][s] = t
               installed(y) == installs(patch, snoop, bus) /\ y = ifill.way /\ s = ifill.set
                               /\ t = ifill.tag
    <3>3. (kept(v) \/ installed(v)) /\ (kept(w) \/ installed(w))
      BY <1>5, <1>12, <2>2, <3>1, <3>2, HolderStep
    <3>4. ASSUME NEW y \in Way, NEW z, kept(y), installed(z) PROVE FALSE
      <4>1. itags[y][ifill.set] = ifill.tag
        BY <3>4
      <4>2. Clearing(FillLine)
        BY <1>7, <3>4, <4>1 DEF WaysInv
      <4> QED BY <1>7, <3>4, <4>2
    <3>5. kept(v) /\ kept(w) => v = w
      BY <2>2, <3>2, NoneAssumption DEF WaysInv
    <3>6. installed(v) /\ installed(w) => v = w
      OBVIOUS
    <3> HIDE DEF kept, installed
    <3> QED BY <3>3, <3>4, <3>5, <3>6
  <2> QED BY <2>1, <2>2
<1> QED
  <2>1. (istate = "RESET" => \A w \in Way : \A s \in 0..LastSet : s < iinit_set => itags[w][s] = None)'
    BY <1>8
  <2>2. (isnoop.valid => \A w \in Way : itags[w][isnoop.addr.set] = isnoop.addr.tag => ISnoopMatch(w))'
    BY <1>9 DEF ISnoopMatch
  <2>3. (istate = "LOOKUP" => \A w \in Way : itags[w][ireq.set] = ireq.tag =>
                                ird.tag[w] = ireq.tag /\ ~ireq.conflict)'
    BY <1>10
  <2>4. (istate = "FILL" /\ ~ifill.uncached =>
           \A w \in Way : itags[w][ifill.set] = ifill.tag => Clearing(FillLine))'
    BY <1>11 DEF Clearing, FillLine
  <2>5. (\A s \in 0..LastSet : \A v, w \in Way :
           istate # "RESET" /\ itags[v][s] # None /\ itags[v][s] = itags[w][s] => v = w)'
    BY <1>12
  <2> QED BY <2>1, <2>2, <2>3, <2>4, <2>5 DEF WaysInv

-----------------------------------------------------------------------------

LEMMA RegsInit == Init => RegsInv /\ WaysInv
<1> SUFFICES ASSUME Init PROVE RegsInv /\ WaysInv
  OBVIOUS
<1>1. IInit
  BY DEF Init
<1>2. /\ istate = "RESET" /\ iinit_set = 0 /\ ireq = NoFetch /\ iready_r = FALSE
      /\ imemport = None /\ itags \in [Way -> [0..LastSet -> Tag \cup {None}]]
      /\ patchq = [p \in 0..PatchqDepth - 1 |-> None] /\ patchq_head = 0
  BY <1>1 DEF IInit, ISet
<1>3. PICK t \in Tag : isnoop = [valid |-> FALSE, addr |-> AddrOf([tag |-> t, set |-> 0], 0)]
  BY <1>1 DEF IInit
<1>4. isnoop.valid = FALSE /\ isnoop.addr = [tag |-> t, set |-> 0, word |-> 0]
  BY <1>3 DEF AddrOf
<1>5. isnoop.addr \in Addr
  BY <1>4, IndexAssumption DEF Addr
<1>6. /\ dstore = None /\ posted = << >> /\ slot = None /\ snoop = None /\ held = 0
      /\ reading = FALSE
  BY DEF Init
<1>7. mem \in [Addr -> Dword]
  BY DEF Init
<1>8. posted \in Seq(Store) /\ Len(posted) = 0
  BY <1>6, EmptySeq
<1>9. patchq \in [0..PatchqDepth - 1 -> Store \cup {None}] /\ patchq_head \in 0..PatchqDepth - 1
  BY <1>2, PatchqAssumption
<1>10. TypeOK
  <2>1. MaxHold \in Nat /\ MaxPosted \in Nat
    BY UnitAssumption
  <2>2. held \in 0..MaxHold /\ Len(posted) <= MaxPosted
    BY <1>6, <1>8, <2>1
  <2>3. iinit_set \in 0..LastSet
    BY <1>2, IndexAssumption
  <2>4. \A p \in 0..PatchqDepth - 1 : patchq[p] \in Store \cup {None}
    BY <1>9
  <2> QED BY <1>2, <1>6, <1>7, <1>8, <1>9, <2>2, <2>3, <2>4 DEF TypeOK
<1>11. RegsInv
  BY <1>2, <1>4, <1>5, <1>6, <1>9, <1>10 DEF RegsInv
<1>12. \A s \in 0..LastSet : ~(s < iinit_set)
  BY <1>2, IndexAssumption
<1>13. WaysInv
  BY <1>2, <1>4, <1>12 DEF WaysInv
<1> QED BY <1>11, <1>13

LEMMA LinesStep == RegsInv /\ WaysInv /\ [Next]_vars => (RegsInv /\ WaysInv)'
<1> SUFFICES ASSUME RegsInv, WaysInv, [Next]_vars PROVE RegsInv' /\ WaysInv'
  OBVIOUS
<1>1. CASE Next
  <2>1. PICK bus \in Bus, fetch \in Offered, x \in Written : Clock(fetch, bus, x)
    BY <1>1 DEF Next
  <2> QED BY <2>1, RegsStep, WaysStep
<1>2. CASE UNCHANGED vars
  <2>1. UNCHANGED <<istate, iinit_set, ireq, iready_r, ifill, imemport, itags, ird, isnoop,
                    isnoop_tags, patchq, patchq_head, dstore, posted, slot, snoop, held, mem,
                    reading>>
    BY <1>2 DEF vars, ivars
  <2>2. RegsInv'
    BY <2>1 DEF RegsInv, TypeOK, FillKept
  <2>3. WaysInv'
    BY <2>1 DEF WaysInv, ISnoopMatch, Clearing, FillLine
  <2> QED BY <2>2, <2>3
<1> QED BY <1>1, <1>2

\* A line of code is never valid in two ways of its set, whatever stores and
\* external writers hit it while it is looked up, refilled or cleared: the clear of a
\* snoop reaches it before the fill that replaces it ends (l1_icache: snoop_*_r,
\* fill_install_allowed, the reset clears).  Every register has its type.
THEOREM ILinesHaveOneWay == Spec => []OneWayPerILine
<1>1. RegsInv /\ WaysInv => OneWayPerILine
  BY DEF RegsInv, WaysInv, OneWayPerILine
<1> QED BY <1>1, LinesStep, RegsInit, PTL DEF Spec

\* The clear of a registered snoop takes its line out of every way that holds it,
\* with one exception: while the fill of another set writes its tag into the same
\* way (l1_icache: the tag write of a fill comes first).  Nothing else delays a clear;
\* what the delay does to a fetch is FetchesFreshUnlessLate below.
THEOREM ClearsYieldOnlyToFills ==
    Spec => [][istate # "RESET" /\ isnoop.valid =>
                 \A w \in Way : itags[w][isnoop.addr.set] = isnoop.addr.tag =>
                   \/ itags'[w][isnoop.addr.set] # isnoop.addr.tag
                   \/ istate = "FILL" /\ ifill.way = w /\ ifill.set # isnoop.addr.set]_vars
<1> DEFINE Cleared == istate # "RESET" /\ isnoop.valid =>
                        \A w \in Way : itags[w][isnoop.addr.set] = isnoop.addr.tag =>
                          \/ itags'[w][isnoop.addr.set] # isnoop.addr.tag
                          \/ istate = "FILL" /\ ifill.way = w /\ ifill.set # isnoop.addr.set
<1>1. RegsInv /\ WaysInv /\ Next => Cleared
  <2> SUFFICES ASSUME RegsInv, WaysInv, Next, istate # "RESET", isnoop.valid,
                      NEW w \in Way, itags[w][isnoop.addr.set] = isnoop.addr.tag,
                      itags'[w][isnoop.addr.set] = isnoop.addr.tag
               PROVE  istate = "FILL" /\ ifill.way = w /\ ifill.set # isnoop.addr.set
    OBVIOUS
  <2>1. PICK bus \in Bus, fetch \in Offered, x \in Written : Clock(fetch, bus, x)
    BY DEF Next
  <2>2. PICK patch : patch = icache_write_patch
    OBVIOUS
  <2>3. PICK data : data = returned(bus)
    OBVIOUS
  <2>4. IDatapath(fetch, patch, snoop, bus, data)
    BY Zenon, <2>1, <2>2, <2>3 DEF Clock, IClock
  <2>5. ITagRams(patch, snoop, bus)
    BY <2>4, Zenon DEF IDatapath
  <2>6. ISnoopMatch(w)
    BY DEF WaysInv
  <2>0. isnoop.addr.tag # None
    BY NoneAssumption DEF RegsInv, Addr
  <2>7. installs(patch, snoop, bus) /\ ifill.way = w
    BY <2>0, <2>5, <2>6, SnoopClears
  <2>8. istate = "FILL" /\ ~ifill.uncached /\ ~Clearing(FillLine)
    BY <2>7 DEF installs, itag_fill_write, fill_install_allowed, Clearing
  <2>9. ASSUME ifill.set = isnoop.addr.set PROVE FALSE
    <3>1. itags'[w][isnoop.addr.set] = ifill.tag
      <4>1. itags[w] \in [0..LastSet -> Tag \cup {None}] /\ isnoop.addr.set \in 0..LastSet
        BY DEF RegsInv, TypeOK, Addr
      <4>2. itags'[w] = [itags[w] EXCEPT ![ifill.set] = ifill.tag]
        BY <2>5, <2>7 DEF ITagRams
      <4> QED BY <2>9, <4>1, <4>2
    <3>2. isnoop.addr.tag # ifill.tag
      BY <2>8, <2>9 DEF Clearing, FillLine, LineOf
    <3> QED BY <3>1, <3>2
  <2> QED BY <2>7, <2>8, <2>9
<1>2. RegsInv /\ WaysInv /\ [Next]_vars => [Cleared]_vars
  BY <1>1
<1> HIDE DEF Cleared
<1>3. Spec => [][Cleared]_vars
  BY <1>2, LinesStep, RegsInit, PTL DEF Spec
<1> QED BY <1>3 DEF Cleared

-----------------------------------------------------------------------------
\* Why a fetch is fresh.  The I-cache is told of every store of the core on the
\* clock after its lookup in the D-cache, and memory learns of it some time
\* later; what the I-cache was told of is memory under the posted stores.

Told(a)      == Forward(posted, a, mem[a])
NextTold(a)  == Forward(posted', a, mem'[a])
Holds(row, l) == \A d \in 0..LastWord : row[d] = Told(AddrOf(l, d))

\* No external writer (no board has one), and the beats of a line on consecutive
\* clocks (a store between two beats is lost to the words already received).
Alone == MaxHold = 0 /\ Backend # "gaps"

\* Only stores of the core reach the I-cache, each on the clock of its lookup.
QuietInv ==
    /\ snoop = None /\ slot = None /\ wrote = {}
    /\ isnoop.valid => isnoop.patch

\* The bus reads for a fill that asked for it, and a fill has words only while
\* the rest of its line is on the way: memory takes no store meanwhile.
BusInv ==
    /\ imemport # None => istate = "FILL" /\ ifill.requested /\ ~reading
    /\ reading => istate = "FILL" /\ ifill.requested /\ imemport = None
    /\ istate = "FILL" => ifill.count \in 0..LastWord /\ (ifill.count # 0 => reading)

\* The patches hold what the I-cache was told of, the registered one first; and
\* a lane of a posted store is in one of them.
Covers(a, l) ==
    \/ \E p \in 0..PatchqDepth - 1 : patchq[p] # None /\ Touches(patchq[p], a, l)
    \/ isnoop.valid /\ Touches(isnoop, a, l)
PatchInv ==
    /\ isnoop.valid => \A l \in isnoop.be : isnoop.data[l] = Told(isnoop.addr)[l]
    /\ \A p \in 0..PatchqDepth - 1 : patchq[p] # None => \A l \in patchq[p].be :
         \/ patchq[p].data[l] = Told(patchq[p].addr)[l]
         \/ isnoop.valid /\ Touches(isnoop, patchq[p].addr, l)
    /\ \A k \in DOMAIN posted : \A l \in posted[k].be : Covers(posted[k].addr, l)

\* A valid line holds it unless its clear is one clock away, and so does the line
\* a lookup read unless the lookup knows better; a fill holds it in the words it
\* has, and a response in all of them.
RowsInv ==
    /\ DOMAIN ilines = Way /\ \A w \in Way : DOMAIN ilines[w] = 0..LastSet
    /\ istate # "RESET" => \A w \in Way : \A s \in 0..LastSet :
         LET l == [tag |-> itags[w][s], set |-> s]
         IN  itags[w][s] # None /\ ~Clearing(l) => Holds(ilines[w][s], l)
ReadInv ==
    istate = "LOOKUP" /\ ~ireq.conflict /\ ~Clearing(LineOf(ireq)) =>
      \A w \in ihit_ways : Holds(ird.line[w], LineOf(ireq))
FillInv ==
    istate = "FILL" => \A d \in 0..LastWord : d < ifill.count =>
                         ifill.line[d] = Told(AddrOf(FillLine, d))
ResponseInv ==
    /\ iresp.valid => /\ istate = "IDLE" /\ fetching \in [tag : Tag, set : 0..LastSet]
                      /\ Holds(iresp.line, fetching)
    /\ istate = "LOOKUP" => fetching = LineOf(ireq)
    /\ istate = "FILL" => fetching = FillLine

FreshInv == /\ RegsInv /\ WaysInv /\ QuietInv /\ BusInv /\ PatchInv
            /\ RowsInv /\ ReadInv /\ FillInv /\ ResponseInv

\* The two ways out that the runs CacheUnitLateClear and CacheUnitPatchQueue take:
\* a clear that comes too late or never, and a patch that leaves the queue before
\* its store leaves for memory.
Clears == istate # "RESET" /\ isnoop.valid =>
            \A w \in Way : itags'[w][isnoop.addr.set] # isnoop.addr.tag
SnoopsClear == [][Clears]_vars
PatchesOutlive ==
    isnoop.valid /\ isnoop.patch /\ patchqHits = {} /\ patchq[patchq_head] # None =>
      \A k \in DOMAIN posted : posted[k].addr # patchq[patchq_head].addr

\* A store that joins the queue is put over what the queue forwards, in a slot of
\* its own or in the youngest; and no lane of the queue comes from elsewhere.
LEMMA EnqueueForwards ==
    ASSUME NEW p \in Seq(Store), NEW e \in Store \cup {None}, NEW q \in Enqueue(p, e)
    PROVE  /\ q \in Seq(Store)
           /\ \A a, value : Forward(q, a, value)
                = IF e # None /\ e.addr = a THEN Merge(Forward(p, a, value), e.data, e.be)
                                            ELSE Forward(p, a, value)
           /\ \A k \in DOMAIN q : \A l \in q[k].be :
                \/ e # None /\ Touches(e, q[k].addr, l)
                \/ \E j \in DOMAIN p : Touches(p[j], q[k].addr, l)
<1>1. CASE e = None
  <2>1. q = p
    BY <1>1 DEF Enqueue
  <2> QED BY <1>1, <2>1 DEF Touches
<1>2. CASE e # None /\ q = Append(p, e)
  <2>1. e \in Store
    BY <1>2
  <2>2. /\ Len(p) \in Nat /\ DOMAIN p = 1..Len(p) /\ q \in Seq(Store)
        /\ DOMAIN q = 1..Len(p) + 1 /\ q[Len(p) + 1] = e
        /\ \A k \in 1..Len(p) : q[k] = p[k]
    BY <1>2, <2>1, LenProperties, AppendProperties
  <2>3. \A a, value : Forward(q, a, value) = IF e.addr = a THEN Merge(Forward(p, a, value), e.data, e.be)
                                                            ELSE Forward(p, a, value)
    BY <1>2, <2>1, ForwardAppend
  <2>4. ASSUME NEW k \in DOMAIN q, NEW l \in q[k].be
        PROVE  Touches(e, q[k].addr, l) \/ \E j \in DOMAIN p : Touches(p[j], q[k].addr, l)
    <3>1. CASE k = Len(p) + 1
      BY <2>2, <3>1 DEF Touches
    <3>2. CASE k # Len(p) + 1
      <4>1. k \in DOMAIN p /\ q[k] = p[k]
        BY <2>2, <3>2
      <4> QED BY <4>1 DEF Touches
    <3> QED BY <3>1, <3>2
  <2> QED BY <1>2, <2>2, <2>3, <2>4
<1>3. CASE e # None /\ q # Append(p, e)
  <2> DEFINE n == Len(p)
             f == p[n]
             r == [f EXCEPT !.data = Merge(@, e.data, e.be), !.be = @ \cup e.be]
  <2>0. e \in Store
    BY <1>3
  <2>1. p # << >> /\ f.addr = e.addr
        /\ q = [p EXCEPT ![n].data = Merge(@, e.data, e.be), ![n].be = @ \cup e.be]
    BY <1>3 DEF Enqueue
  <2>2. n \in Nat /\ n \in 1..n /\ DOMAIN p = 1..n /\ p \in [1..n -> Store]
    BY <2>1, EmptySeq, LenProperties, SeqDef
  <2>3. q = [p EXCEPT ![n] = r]
    BY <2>1, <2>2
  <2>4. f \in Store
    BY <2>2
  <2>5. /\ r \in Store /\ r.addr = f.addr /\ r.be = f.be \cup e.be
        /\ r.data = Merge(f.data, e.data, e.be) /\ r.be \subseteq DOMAIN f.data
    <3>1. f.data \in Dword /\ f.be \in Mask /\ e.data \in Dword /\ e.be \in Mask
      BY <2>0, <2>4 DEF Store
    <3>2. Merge(f.data, e.data, e.be) \in Dword /\ f.be \cup e.be \in Mask
      BY <3>1, MergeType, MaskUnion
    <3>3. f.be \cup e.be \subseteq DOMAIN f.data
      BY <3>1 DEF Mask, Dword
    <3> QED BY <2>4, <3>2, <3>3 DEF Store
  <2> HIDE DEF r
  <2>6. q \in Seq(Store) /\ Len(q) = n /\ DOMAIN q = 1..n /\ q[n] = r
        /\ \A k \in 1..n : k # n => q[k] = p[k]
    <3>1. q \in Seq(Store) /\ Len(q) = n
      BY <2>2, <2>3, <2>5, ExceptSeq
    <3> QED BY <2>2, <2>3, <3>1
  <2>7. Coalesces(p, q, e)
    BY <2>1, <2>5, <2>6 DEF Coalesces
  <2>8. \A a, value : Forward(q, a, value) = IF e.addr = a THEN Merge(Forward(p, a, value), e.data, e.be)
                                                            ELSE Forward(p, a, value)
    <3>1. q \in Seq(Store)
      BY <2>6
    <3> HIDE DEF n, f
    <3> QED BY <3>1, <2>7, ForwardCoalesced
  <2>9. ASSUME NEW k \in DOMAIN q, NEW l \in q[k].be
        PROVE  Touches(e, q[k].addr, l) \/ \E j \in DOMAIN p : Touches(p[j], q[k].addr, l)
    <3>1. CASE k = n
      BY <2>1, <2>2, <2>5, <2>6, <3>1 DEF Touches
    <3>2. CASE k # n
      BY <2>2, <2>6, <3>2 DEF Touches
    <3> QED BY <3>1, <3>2
  <2> QED BY <1>3, <2>6, <2>8, <2>9
<1> QED BY <1>1, <1>2, <1>3

\* What is left of the queue after a drain, and memory with the drained store:
\* the same is told.
Remaining(bus) == IF bus.drain THEN Tail(posted) ELSE posted

LEMMA DrainForwards ==
    ASSUME RegsInv, NEW bus \in Bus, MemoryNext(bus, None)
    PROVE  /\ Remaining(bus) \in Seq(Store)
           /\ \A a \in Addr : Forward(Remaining(bus), a, mem'[a]) = Told(a)
           /\ \A k \in DOMAIN Remaining(bus) : \E j \in DOMAIN posted : Remaining(bus)[k] = posted[j]
<1>1. posted \in Seq(Store) /\ mem \in [Addr -> Dword]
  BY DEF RegsInv, TypeOK
<1>2. CASE ~bus.drain
  <2>1. mem' = mem /\ Remaining(bus) = posted
    BY <1>2 DEF MemoryNext, Remaining
  <2> QED BY <1>1, <2>1 DEF Told
<1>3. CASE bus.drain
  <2> DEFINE h == Head(posted)
             t == Tail(posted)
  <2>1. posted # << >> /\ Remaining(bus) = t
    BY <1>3 DEF Bus, Remaining
  <2>2. mem' = [mem EXCEPT ![h.addr] = Merge(mem[h.addr], h.data, h.be)]
    BY <1>3 DEF MemoryNext
  <2>3. h \in Store /\ t \in Seq(Store) /\ Len(t) \in Nat /\ Len(posted) = Len(t) + 1
        /\ DOMAIN posted = 1..Len(t) + 1 /\ DOMAIN t = 1..Len(t)
        /\ \A k \in 1..Len(t) : t[k] = posted[k + 1]
    BY <1>1, <2>1, HeadTailProperties, LenProperties
  <2>4. \A a \in Addr : mem'[a] = IF h.addr = a THEN Merge(mem[a], h.data, h.be) ELSE mem[a]
    BY <1>1, <2>2
  <2>5. \A a, value : Forward(posted, a, value)
                        = Forward(t, a, IF h.addr = a THEN Merge(value, h.data, h.be) ELSE value)
    BY <1>1, <2>1, ForwardTail
  <2> HIDE DEF h, t
  <2>6. \A a \in Addr : Forward(t, a, mem'[a]) = Told(a)
    BY <2>4, <2>5 DEF Told
  <2>7. ASSUME NEW k \in DOMAIN t PROVE \E j \in DOMAIN posted : t[k] = posted[j]
    <3>1. k + 1 \in DOMAIN posted /\ t[k] = posted[k + 1]
      BY <2>3
    <3> QED BY <3>1
  <2> QED BY <2>1, <2>3, <2>6, <2>7
<1> QED BY <1>2, <1>3

-----------------------------------------------------------------------------
\* What the I-cache is told on a clock.

LEMMA DwordsEqual ==
    ASSUME NEW f \in Dword, NEW g \in Dword, \A l \in Lane : f[l] = g[l]
    PROVE  f = g
BY DEF Dword

LEMMA ForwardedDword ==
    ASSUME NEW q \in Seq(Store), NEW a, NEW value \in Dword
    PROVE  Forward(q, a, value) \in Dword
<1>1. \A e \in Store : e.data \in [Lane -> Byte]
  BY DEF Store, Dword
<1> QED BY <1>1, ForwardKeepsType DEF Dword

LEMMA ToldType == ASSUME RegsInv, NEW a \in Addr PROVE Told(a) \in Dword
<1>1. posted \in Seq(Store) /\ mem[a] \in Dword
  BY DEF RegsInv, TypeOK
<1> QED BY <1>1, ForwardedDword DEF Told

\* One store over a dword, or none, lane by lane.
LEMMA LiveLanes ==
    ASSUME NEW e \in Store \cup {None}, NEW a, NEW value \in Dword
    PROVE  /\ Live(e) \in Seq(Store)
           /\ Forward(Live(e), a, value) \in Dword
           /\ \A l \in Lane : Forward(Live(e), a, value)[l]
                = IF e # None /\ Touches(e, a, l) THEN e.data[l] ELSE value[l]
<1>1. CASE e = None
  <2>1. Live(e) = << >>
    BY <1>1 DEF Live
  <2>2. Forward(<< >>, a, value) = value
    BY ForwardNone DEF Dword
  <2> QED BY <1>1, <2>1, <2>2, EmptySeq
<1>2. CASE e # None
  <2>1. Live(e) = << e >> /\ e \in Store
    BY <1>2 DEF Live
  <2>2. Live(e) \in Seq(Store)
    BY <2>1
  <2>3. Forward(<< e >>, a, value) = IF e.addr = a THEN Merge(value, e.data, e.be) ELSE value
    BY ForwardOne DEF Dword
  <2>4. Forward(Live(e), a, value) = IF e.addr = a THEN Merge(value, e.data, e.be) ELSE value
    BY <2>1, <2>3
  <2>5. Merge(value, e.data, e.be) \in Dword
    BY <2>1, MergeType DEF Store
  <2>6. \A l \in Lane : Merge(value, e.data, e.be)[l] = IF l \in e.be THEN e.data[l] ELSE value[l]
    BY DEF Merge, Dword
  <2> QED BY <1>2, <2>2, <2>4, <2>5, <2>6 DEF Touches
<1> QED BY <1>1, <1>2

\* A clock with no external writer: the patch is the store in the D-cache's lookup.
LEMMA ClockFacts ==
    ASSUME RegsInv, QuietInv, NEW bus \in Bus, NEW fetch \in Offered, NEW x \in Written,
           Clock(fetch, bus, x)
    PROVE  /\ dstore \in Store \cup {None}
           /\ IMachine(fetch, dstore, bus, returned(bus))
           /\ ITagRead(fetch, dstore, None) /\ ITagRams(dstore, None, bus)
           /\ IDataRams(dstore, None, bus, returned(bus))
           /\ ISnoopRegister(dstore, None) /\ PatchQueue
           /\ PatchSlot /\ DcacheStores(bus) /\ SnoopNext /\ MemoryNext(bus, None)
           /\ ReadingNext(bus) /\ FetchingNext(fetch)
           /\ icache_write_patch = dstore
<1>1. icache_write_patch = dstore /\ snoop = None /\ dstore \in Store \cup {None}
  BY DEF icache_write_patch, QuietInv, RegsInv, TypeOK
<1>2. x = None
  BY DEF Written, QuietInv
<1>3. PICK patch : patch = icache_write_patch
  OBVIOUS
<1>4. PICK data : data = returned(bus)
  OBVIOUS
<1>5. PICK inv : inv = snoop
  OBVIOUS
<1>6. IMachine(fetch, patch, bus, data) /\ IDatapath(fetch, patch, inv, bus, data)
  BY Zenon, <1>3, <1>4, <1>5 DEF Clock, IClock
<1>7. patch = dstore /\ inv = None
  BY <1>1, <1>3, <1>5
<1>8. IMachine(fetch, dstore, bus, data) /\ IDatapath(fetch, dstore, None, bus, data)
  BY Zenon, <1>6, <1>7
<1>9. IMachine(fetch, dstore, bus, returned(bus)) /\ IDatapath(fetch, dstore, None, bus, returned(bus))
  BY Zenon, <1>8, <1>4
<1>10. /\ PatchSlot /\ DcacheStores(bus) /\ SnoopNext /\ MemoryNext(bus, x)
       /\ ReadingNext(bus) /\ FetchingNext(fetch)
  BY Zenon DEF Clock
<1>11. MemoryNext(bus, None)
  BY Zenon, <1>2, <1>10
<1> QED BY <1>1, <1>9, <1>10, <1>11, Zenon DEF IDatapath

\* What it is told is what it was told under the store of this clock.
LEMMA ToldStep ==
    ASSUME RegsInv, NEW bus \in Bus, DcacheStores(bus), MemoryNext(bus, None), NEW a \in Addr
    PROVE  /\ NextTold(a) = Forward(Live(dstore), a, Told(a))
           /\ NextTold(a) \in Dword
           /\ \A l \in Lane : NextTold(a)[l]
                = IF dstore # None /\ Touches(dstore, a, l) THEN dstore.data[l] ELSE Told(a)[l]
<1>1. dstore \in Store \cup {None}
  BY DEF RegsInv, TypeOK
<1>2. Remaining(bus) \in Seq(Store) /\ Forward(Remaining(bus), a, mem'[a]) = Told(a)
  BY DrainForwards
<1>3. posted' \in Enqueue(Remaining(bus), dstore)
  BY DEF DcacheStores, Remaining
<1>4. NextTold(a) = IF dstore # None /\ dstore.addr = a THEN Merge(Told(a), dstore.data, dstore.be)
                                                       ELSE Told(a)
  BY <1>1, <1>2, <1>3, EnqueueForwards DEF NextTold
<1>5. /\ Forward(Live(dstore), a, Told(a)) \in Dword
      /\ \A l \in Lane : Forward(Live(dstore), a, Told(a))[l]
           = IF dstore # None /\ Touches(dstore, a, l) THEN dstore.data[l] ELSE Told(a)[l]
  BY <1>1, ToldType, LiveLanes
<1>6. Told(a) \in Dword
  BY ToldType
<1>7. dstore # None => Merge(Told(a), dstore.data, dstore.be) \in Dword
  BY <1>1, <1>6, MergeType DEF Store
<1>8. NextTold(a) \in Dword
  BY <1>4, <1>6, <1>7
<1>9. ASSUME NEW l \in Lane
      PROVE  NextTold(a)[l] = IF dstore # None /\ Touches(dstore, a, l) THEN dstore.data[l]
                                                                      ELSE Told(a)[l]
  <2>1. CASE dstore # None /\ dstore.addr = a
    <3>1. NextTold(a) = Merge(Told(a), dstore.data, dstore.be)
      BY <1>4, <2>1
    <3> QED BY <1>6, <2>1, <3>1 DEF Merge, Dword, Touches
  <2>2. CASE ~(dstore # None /\ dstore.addr = a)
    BY <1>4, <2>2 DEF Touches
  <2> QED BY <2>1, <2>2
<1>10. NextTold(a) = Forward(Live(dstore), a, Told(a))
  BY <1>5, <1>8, <1>9, DwordsEqual
<1> QED BY <1>8, <1>9, <1>10

\* The store of this clock is in the snoop registers on the next.
LEMMA SnoopNow ==
    ASSUME ISnoopRegister(dstore, None)
    PROVE  /\ dstore # None => /\ isnoop'.valid = TRUE /\ isnoop'.patch = TRUE
                               /\ isnoop'.addr = dstore.addr /\ isnoop'.data = dstore.data
                               /\ isnoop'.be = dstore.be
           /\ dstore = None => isnoop'.valid = FALSE
<1>1. CASE dstore # None
  <2>1. isnoop' = [valid |-> TRUE, addr |-> dstore.addr, patch |-> TRUE,
                   data |-> dstore.data, be |-> dstore.be]
    BY <1>1 DEF ISnoopRegister
  <2> QED BY Zenon, <1>1, <2>1
<1>2. CASE dstore = None
  <2>1. isnoop' = [valid |-> FALSE, addr |-> isnoop.addr]
    BY <1>2 DEF ISnoopRegister
  <2> QED BY Zenon, <1>2, <2>1
<1> QED BY <1>1, <1>2

-----------------------------------------------------------------------------
\* The patches.

LEMMA QueuedSlots ==
    ASSUME RegsInv
    PROVE  /\ Queued \in Seq(Store \cup {NoPatch})
           /\ DOMAIN Queued = 1..PatchqDepth
           /\ \A k \in 1..PatchqDepth : Queued[k] = IF patchq[k - 1] = None THEN NoPatch ELSE patchq[k - 1]
<1>1. PatchqDepth \in Nat /\ patchq \in [0..PatchqDepth - 1 -> Store \cup {None}]
  BY PatchqAssumption DEF RegsInv
<1>2. ASSUME NEW k \in 1..PatchqDepth
      PROVE  (IF patchq[k - 1] = None THEN NoPatch ELSE patchq[k - 1]) \in Store \cup {NoPatch}
  <2>1. k - 1 \in 0..PatchqDepth - 1
    BY <1>1
  <2> QED BY <1>1, <2>1
<1>3. Queued \in [1..PatchqDepth -> Store \cup {NoPatch}]
  BY <1>2 DEF Queued
<1>4. Queued \in Seq(Store \cup {NoPatch})
  BY <1>1, <1>3, SeqDef
<1> QED BY <1>4 DEF Queued

LEMMA RegisteredLanes ==
    ASSUME RegsInv, QuietInv, NEW a, NEW value \in Dword
    PROVE  /\ Registered \in Seq(Store)
           /\ \A l \in Lane : Forward(Registered, a, value)[l]
                = IF isnoop.valid /\ Touches(isnoop, a, l) THEN isnoop.data[l] ELSE value[l]
<1> DEFINE e == [addr |-> isnoop.addr, data |-> isnoop.data, be |-> isnoop.be]
<1>1. CASE isnoop.valid
  <2>1. isnoop.patch
    BY <1>1 DEF QuietInv
  <2>2. e \in Store /\ e.addr = isnoop.addr /\ e.data = isnoop.data /\ e.be = isnoop.be
    BY <1>1, <2>1 DEF RegsInv, Store
  <2>3. Registered = << e >>
    BY <1>1, <2>1 DEF Registered
  <2> HIDE DEF e
  <2>4. Registered = Live(e)
    BY <2>2, <2>3, AbsentAssumption DEF Live
  <2>5. /\ Live(e) \in Seq(Store)
        /\ \A l \in Lane : Forward(Live(e), a, value)[l]
             = IF e # None /\ Touches(e, a, l) THEN e.data[l] ELSE value[l]
    BY <2>2, LiveLanes
  <2>6. e # None
    BY <2>2, AbsentAssumption
  <2> QED BY <1>1, <2>2, <2>4, <2>5, <2>6 DEF Touches
<1>2. CASE ~isnoop.valid
  <2>1. Registered = << >>
    BY <1>2 DEF Registered
  <2>2. Forward(<< >>, a, value) = value
    BY ForwardNone DEF Dword
  <2> QED BY <1>2, <2>1, <2>2, EmptySeq
<1> QED BY <1>1, <1>2

\* Memory under the patches is what the I-cache was told, whatever of it memory
\* has by now; and so is, under the registered patch, a word that was it already.
LEMMA PatchesTold ==
    ASSUME RegsInv, QuietInv, PatchInv, NEW a \in Addr
    PROVE  /\ Forward(Queued \o Registered, a, mem[a]) = Told(a)
           /\ Forward(Registered, a, Told(a)) = Told(a)
           /\ Queued \o Registered \in Seq(Store \cup {NoPatch})
<1> DEFINE f == Forward(Queued, a, mem[a])
<1>1. mem[a] \in Dword /\ posted \in Seq(Store) /\ Told(a) \in Dword
  BY ToldType DEF RegsInv, TypeOK
<1>2. Queued \in Seq(Store \cup {NoPatch}) /\ DOMAIN Queued = 1..PatchqDepth
      /\ PatchqDepth \in Nat
  BY QueuedSlots, PatchqAssumption
<1>3. DOMAIN f = Lane
  BY <1>1 DEF Forward, Dword
<1>4. ASSUME NEW l \in Lane
      PROVE  \/ /\ f[l] = mem[a][l]
                /\ \A p \in 0..PatchqDepth - 1 : patchq[p] # None => ~Touches(patchq[p], a, l)
             \/ \E p \in 0..PatchqDepth - 1 : /\ patchq[p] # None /\ Touches(patchq[p], a, l)
                                              /\ f[l] = patchq[p].data[l]
  <2>1. CASE Touching(Queued, a, l) = {}
    <3>1. f[l] = mem[a][l]
      BY <1>1, <1>2, <2>1, ForwardLane DEF Dword
    <3>2. ASSUME NEW p \in 0..PatchqDepth - 1, patchq[p] # None, Touches(patchq[p], a, l) PROVE FALSE
      <4>1. p + 1 \in 1..PatchqDepth /\ (p + 1) - 1 = p
        BY PatchqAssumption
      <4>2. Queued[p + 1] = patchq[p]
        BY <3>2, <4>1, QueuedSlots
      <4>3. p + 1 \in Touching(Queued, a, l)
        BY <1>2, <3>2, <4>1, <4>2 DEF Touching
      <4> QED BY <2>1, <4>3
    <3> QED BY <3>1, <3>2
  <2>2. CASE Touching(Queued, a, l) # {}
    <3>1. Touching(Queued, a, l) \in SUBSET (1..PatchqDepth)
      BY <1>2 DEF Touching
    <3>2. PICK m \in Touching(Queued, a, l) : \A k \in Touching(Queued, a, l) : k <= m
      BY <1>2, <2>2, <3>1, GreatestExists
    <3>3. f[l] = Queued[m].data[l]
      BY <1>1, <1>2, <3>2, ForwardLane DEF Dword
    <3>4. m \in 1..PatchqDepth /\ m - 1 \in 0..PatchqDepth - 1
      BY <1>2, <3>1, PatchqAssumption
    <3>5. Touches(Queued[m], a, l)
      BY <3>2 DEF Touching
    <3>6. patchq[m - 1] # None /\ Queued[m] = patchq[m - 1]
      BY <3>4, <3>5, QueuedSlots DEF Touches, NoPatch
    <3> QED BY <3>3, <3>4, <3>5, <3>6
  <2> QED BY <2>1, <2>2
<1> HIDE DEF f
<1>5. f \in Dword
  <2>1. \A l \in Lane : f[l] \in Byte
    BY <1>1, <1>4 DEF RegsInv, Store, Dword
  <2>2. f = [l \in Lane |-> f[l]]
    BY <1>3 DEF f, Forward
  <2> QED BY <2>1, <2>2 DEF Dword
<1>6. ASSUME NEW l \in Lane, isnoop.valid, Touches(isnoop, a, l)
      PROVE  isnoop.data[l] = Told(a)[l]
  BY <1>6 DEF PatchInv, Touches
<1>7. ASSUME NEW l \in Lane, ~(isnoop.valid /\ Touches(isnoop, a, l))
      PROVE  f[l] = Told(a)[l]
  <2>1. CASE /\ f[l] = mem[a][l]
             /\ \A p \in 0..PatchqDepth - 1 : patchq[p] # None => ~Touches(patchq[p], a, l)
    <3>1. ~Covers(a, l)
      BY <1>7, <2>1 DEF Covers
    <3>2. Touching(posted, a, l) = {}
      BY <3>1 DEF PatchInv, Touching, Touches
    <3> QED BY <1>1, <2>1, <3>2, ForwardLane DEF Told, Dword
  <2>2. CASE \E p \in 0..PatchqDepth - 1 : /\ patchq[p] # None /\ Touches(patchq[p], a, l)
                                          /\ f[l] = patchq[p].data[l]
    BY <1>7, <2>2 DEF PatchInv, Touches
  <2> QED BY <1>4, <2>1, <2>2
<1>8. Registered \in Seq(Store) /\ Registered \in Seq(Store \cup {NoPatch})
  <2>1. Registered \in Seq(Store)
    BY <1>1, RegisteredLanes
  <2> QED BY <2>1
<1>9. Forward(Queued \o Registered, a, mem[a]) = Forward(Registered, a, f)
  BY <1>2, <1>8, ForwardConcat DEF f
<1>10. ASSUME NEW v \in Dword, \A l \in Lane : ~(isnoop.valid /\ Touches(isnoop, a, l)) => v[l] = Told(a)[l]
       PROVE  Forward(Registered, a, v) = Told(a)
  <2>1. Forward(Registered, a, v) \in Dword
    BY <1>8, ForwardedDword
  <2>2. \A l \in Lane : Forward(Registered, a, v)[l] = Told(a)[l]
    BY <1>6, <1>10, RegisteredLanes
  <2> QED BY <1>1, <2>1, <2>2, DwordsEqual
<1>11. Forward(Registered, a, f) = Told(a)
  BY <1>5, <1>7, <1>10
<1>12. Forward(Registered, a, Told(a)) = Told(a)
  BY <1>1, <1>10
<1>13. Queued \o Registered \in Seq(Store \cup {NoPatch})
  BY <1>2, <1>8, ConcatProperties
<1> QED BY <1>9, <1>11, <1>12, <1>13

\* The registered store in the queue: the slots hold what the I-cache was told,
\* and no lane of a posted store leaves them.
LEMMA SlotsTold ==
    ASSUME RegsInv, QuietInv, PatchInv, PatchQueue,
           NEW p \in 0..PatchqDepth - 1, patchq'[p] # None
    PROVE  \A l \in patchq'[p].be : patchq'[p].data[l] = Told(patchq'[p].addr)[l]
<1>1. /\ patchq \in [0..PatchqDepth - 1 -> Store \cup {None}] /\ DOMAIN patchq = 0..PatchqDepth - 1
      /\ patchq_head \in 0..PatchqDepth - 1
  BY DEF RegsInv, TypeOK
<1>2. CASE ~isnoop.valid
  <2>1. patchq' = patchq
    BY <1>2 DEF PatchQueue
  <2> QED BY <1>2, <2>1 DEF PatchInv
<1>3. CASE isnoop.valid /\ patchqHits # {}
  <2>1. patchq' = [i \in DOMAIN patchq |-> IF i \in patchqHits THEN PatchMerged(patchq[i]) ELSE patchq[i]]
    BY <1>3 DEF PatchQueue, QuietInv
  <2>2. CASE p \in patchqHits
    <3> DEFINE e == patchq[p]
    <3>1. e # None /\ e \in Store /\ e.addr = isnoop.addr
      BY <1>1, <2>2 DEF patchqHits
    <3>2. patchq'[p] = PatchMerged(e)
      BY <1>1, <2>1, <2>2
    <3>3. isnoop.be \in Mask /\ isnoop.data \in Dword
      BY <1>3 DEF RegsInv, QuietInv
    <3>4. /\ patchq'[p].addr = isnoop.addr
          /\ patchq'[p].data = Merge(e.data, isnoop.data, isnoop.be)
          /\ patchq'[p].be = e.be \cup isnoop.be
      BY <3>1, <3>2 DEF PatchMerged, Store
    <3>5. ASSUME NEW l \in e.be \cup isnoop.be
          PROVE  Merge(e.data, isnoop.data, isnoop.be)[l] = Told(isnoop.addr)[l]
      <4>1. l \in DOMAIN e.data
        BY <3>1, <3>3 DEF Store, Mask, Dword
      <4>2. CASE l \in isnoop.be
        BY <1>3, <4>1, <4>2 DEF PatchInv, Merge
      <4>3. CASE l \notin isnoop.be
        <5>1. e.data[l] = Told(e.addr)[l]
          BY <3>1, <4>3 DEF PatchInv, Touches
        <5> QED BY <3>1, <4>1, <4>3, <5>1 DEF Merge
      <4> QED BY <4>2, <4>3
    <3> QED BY <3>4, <3>5
  <2>3. CASE p \notin patchqHits
    <3>1. patchq'[p] = patchq[p]
      BY <1>1, <2>1, <2>3
    <3>2. patchq[p].addr # isnoop.addr
      BY <1>1, <2>3, <3>1 DEF patchqHits
    <3> QED BY <3>1, <3>2 DEF PatchInv, Touches
  <2> QED BY <2>2, <2>3
<1>4. CASE isnoop.valid /\ patchqHits = {}
  <2> DEFINE e == [addr |-> isnoop.addr, data |-> isnoop.data, be |-> isnoop.be]
  <2>1. patchq' = [patchq EXCEPT ![patchq_head] = e]
    BY <1>4 DEF PatchQueue, QuietInv
  <2>2. CASE p = patchq_head
    <3>1. patchq'[p] = e
      BY <1>1, <2>1, <2>2
    <3>2. patchq'[p].addr = isnoop.addr /\ patchq'[p].data = isnoop.data /\ patchq'[p].be = isnoop.be
      BY <3>1
    <3> QED BY <1>4, <3>2 DEF PatchInv
  <2>3. CASE p # patchq_head
    <3>1. patchq'[p] = patchq[p]
      BY <1>1, <2>1, <2>3
    <3>2. patchq[p].addr # isnoop.addr
      BY <1>1, <1>4, <3>1 DEF patchqHits
    <3> QED BY <3>1, <3>2 DEF PatchInv, Touches
  <2> QED BY <2>2, <2>3
<1> QED BY <1>2, <1>3, <1>4

LEMMA SlotsCover ==
    ASSUME RegsInv, QuietInv, PatchesOutlive, PatchQueue,
           NEW k \in DOMAIN posted, NEW l, Covers(posted[k].addr, l)
    PROVE  \E p \in 0..PatchqDepth - 1 : patchq'[p] # None /\ Touches(patchq'[p], posted[k].addr, l)
<1> DEFINE a == posted[k].addr
<1>1. /\ patchq \in [0..PatchqDepth - 1 -> Store \cup {None}] /\ DOMAIN patchq = 0..PatchqDepth - 1
      /\ patchq_head \in 0..PatchqDepth - 1
  BY DEF RegsInv, TypeOK
<1>2. \/ \E p \in 0..PatchqDepth - 1 : patchq[p] # None /\ Touches(patchq[p], a, l)
      \/ isnoop.valid /\ Touches(isnoop, a, l)
  BY DEF Covers
<1> HIDE DEF a
<1>3. CASE ~isnoop.valid
  <2>1. patchq' = patchq
    BY <1>3 DEF PatchQueue
  <2> QED BY <1>2, <1>3, <2>1 DEF a
<1>4. CASE isnoop.valid /\ patchqHits # {}
  <2>1. patchq' = [i \in DOMAIN patchq |-> IF i \in patchqHits THEN PatchMerged(patchq[i]) ELSE patchq[i]]
    BY <1>4 DEF PatchQueue, QuietInv
  <2>2. ASSUME NEW p \in 0..PatchqDepth - 1, p \in patchqHits
        PROVE  patchq'[p] # None /\ patchq'[p].addr = isnoop.addr
               /\ patchq'[p].be = patchq[p].be \cup isnoop.be /\ patchq[p].addr = isnoop.addr
    <3>1. patchq[p] \in Store /\ patchq[p].addr = isnoop.addr /\ patchq'[p] = PatchMerged(patchq[p])
      BY <1>1, <2>1, <2>2 DEF patchqHits
    <3>2. patchq'[p] \in Store
      <4>1. isnoop.data \in Dword /\ isnoop.be \in Mask
        BY <1>4 DEF RegsInv, QuietInv
      <4>2. /\ Merge(patchq[p].data, isnoop.data, isnoop.be) \in Dword
            /\ patchq[p].be \cup isnoop.be \in Mask
        BY <3>1, <4>1, MergeType, MaskUnion DEF Store
      <4> QED BY <3>1, <4>2 DEF PatchMerged, Store
    <3>3. patchq'[p] # None
      BY <3>2, AbsentAssumption
    <3> QED BY <3>1, <3>3 DEF PatchMerged, Store
  <2>3. CASE isnoop.valid /\ Touches(isnoop, a, l)
    <3>1. PICK p \in 0..PatchqDepth - 1 : p \in patchqHits
      BY <1>1, <1>4 DEF patchqHits
    <3>2. patchq'[p] # None /\ Touches(patchq'[p], a, l)
      BY <2>2, <2>3, <3>1 DEF Touches
    <3> QED BY <3>2 DEF a
  <2>4. ASSUME NEW p \in 0..PatchqDepth - 1, patchq[p] # None, Touches(patchq[p], a, l)
        PROVE  patchq'[p] # None /\ Touches(patchq'[p], a, l)
    <3>1. CASE p \in patchqHits
      BY <2>2, <2>4, <3>1 DEF Touches
    <3>2. CASE p \notin patchqHits
      <4>1. patchq'[p] = patchq[p]
        BY <1>1, <2>1, <3>2
      <4> QED BY <2>4, <4>1
    <3> QED BY <3>1, <3>2
  <2> QED BY <1>2, <2>3, <2>4 DEF a
<1>5. CASE isnoop.valid /\ patchqHits = {}
  <2> DEFINE e == [addr |-> isnoop.addr, data |-> isnoop.data, be |-> isnoop.be]
  <2>1. patchq' = [patchq EXCEPT ![patchq_head] = e]
    BY <1>5 DEF PatchQueue, QuietInv
  <2>2. e \in Store /\ e # None
    <3>1. e \in Store
      BY <1>5 DEF RegsInv, QuietInv, Store
    <3> HIDE DEF e
    <3> QED BY <3>1, AbsentAssumption
  <2>3. CASE isnoop.valid /\ Touches(isnoop, a, l)
    <3>1. patchq'[patchq_head] = e /\ Touches(e, a, l)
      BY <1>1, <2>1, <2>3 DEF Touches
    <3> QED BY <1>1, <2>2, <3>1 DEF a
  <2>4. ASSUME NEW p \in 0..PatchqDepth - 1, patchq[p] # None, Touches(patchq[p], a, l)
        PROVE  patchq'[p] # None /\ Touches(patchq'[p], a, l)
    <3>1. p # patchq_head
      BY <1>5, <2>4 DEF PatchesOutlive, QuietInv, Touches, a
    <3>2. patchq'[p] = patchq[p]
      BY <1>1, <2>1, <3>1
    <3> QED BY <2>4, <3>2
  <2> QED BY <1>2, <2>3, <2>4 DEF a
<1> QED BY <1>3, <1>4, <1>5

LEMMA PatchStep ==
    ASSUME RegsInv, QuietInv, PatchInv, PatchesOutlive, NEW bus \in Bus,
           DcacheStores(bus), MemoryNext(bus, None), ISnoopRegister(dstore, None), PatchQueue
    PROVE  PatchInv'
<1>1. dstore \in Store \cup {None} /\ (dstore # None => dstore.addr \in Addr /\ dstore.be \subseteq Lane)
  BY DEF RegsInv, TypeOK, Store, Mask
<1>2. ASSUME isnoop'.valid, NEW l \in isnoop'.be
      PROVE  isnoop'.data[l] = NextTold(isnoop'.addr)[l]
  <2>1. dstore # None
    BY <1>2, SnoopNow
  <2>2. isnoop'.addr = dstore.addr /\ isnoop'.data = dstore.data /\ isnoop'.be = dstore.be
    BY <2>1, SnoopNow
  <2>3. l \in Lane /\ Touches(dstore, dstore.addr, l)
    BY <1>1, <1>2, <2>1, <2>2 DEF Touches
  <2>4. NextTold(dstore.addr)[l] = dstore.data[l]
    BY <1>1, <2>1, <2>3, ToldStep
  <2> QED BY <2>2, <2>4
<1>3. ASSUME NEW p \in 0..PatchqDepth - 1, patchq'[p] # None, NEW l \in patchq'[p].be
      PROVE  \/ patchq'[p].data[l] = NextTold(patchq'[p].addr)[l]
             \/ isnoop'.valid /\ Touches(isnoop', patchq'[p].addr, l)
  <2>1. patchq' \in [0..PatchqDepth - 1 -> Store \cup {None}]
    BY PatchQueueTypes
  <2>2. patchq'[p].addr \in Addr /\ l \in Lane
    BY <1>3, <2>1 DEF Store, Mask
  <2>3. patchq'[p].data[l] = Told(patchq'[p].addr)[l]
    BY <1>3, SlotsTold
  <2>4. CASE dstore # None /\ Touches(dstore, patchq'[p].addr, l)
    BY <2>4, SnoopNow DEF Touches
  <2>5. CASE ~(dstore # None /\ Touches(dstore, patchq'[p].addr, l))
    <3>1. NextTold(patchq'[p].addr)[l] = Told(patchq'[p].addr)[l]
      BY <2>2, <2>5, ToldStep
    <3> QED BY <2>3, <3>1
  <2> QED BY <2>4, <2>5
<1>4. ASSUME NEW k \in DOMAIN posted', NEW l \in posted'[k].be
      PROVE  \/ \E p \in 0..PatchqDepth - 1 : patchq'[p] # None /\ Touches(patchq'[p], posted'[k].addr, l)
             \/ isnoop'.valid /\ Touches(isnoop', posted'[k].addr, l)
  <2>1. /\ Remaining(bus) \in Seq(Store)
        /\ \A i \in DOMAIN Remaining(bus) : \E j \in DOMAIN posted : Remaining(bus)[i] = posted[j]
    BY DrainForwards
  <2>2. posted' \in Enqueue(Remaining(bus), dstore)
    BY DEF DcacheStores, Remaining
  <2>3. \/ dstore # None /\ Touches(dstore, posted'[k].addr, l)
        \/ \E i \in DOMAIN Remaining(bus) : Touches(Remaining(bus)[i], posted'[k].addr, l)
    BY <1>1, <1>4, <2>1, <2>2, EnqueueForwards
  <2>4. CASE dstore # None /\ Touches(dstore, posted'[k].addr, l)
    BY <2>4, SnoopNow DEF Touches
  <2>5. CASE \E i \in DOMAIN Remaining(bus) : Touches(Remaining(bus)[i], posted'[k].addr, l)
    <3>1. PICK j \in DOMAIN posted : Touches(posted[j], posted'[k].addr, l)
      BY <2>1, <2>5
    <3>2. posted[j].addr = posted'[k].addr /\ l \in posted[j].be
      BY <3>1 DEF Touches
    <3>3. Covers(posted[j].addr, l)
      BY <3>2 DEF PatchInv
    <3>4. \E p \in 0..PatchqDepth - 1 : patchq'[p] # None /\ Touches(patchq'[p], posted[j].addr, l)
      BY <3>3, SlotsCover
    <3> QED BY <3>2, <3>4
  <2> QED BY <2>3, <2>4, <2>5
<1> QED BY <1>2, <1>3, <1>4 DEF PatchInv, Covers, Told, NextTold

-----------------------------------------------------------------------------
\* The bus and the fill.

LEMMA QuietStep ==
    ASSUME QuietInv, MaxHold = 0, NEW bus \in Bus, PatchSlot, SnoopNext, MemoryNext(bus, None),
           ISnoopRegister(dstore, None)
    PROVE  QuietInv'
<1>1. snoop' = None
  BY DEF SnoopNext, QuietInv
<1>2. slot' = None
  BY DEF PatchSlot, QuietInv
<1>3. wrote' = {}
  BY DEF MemoryNext, QuietInv
<1>4. isnoop'.valid => isnoop'.patch
  BY SnoopNow
<1> QED BY <1>1, <1>2, <1>3, <1>4 DEF QuietInv

\* The fill of a clock: begun by a lookup, waiting, or one beat further.
LEMMA FillNext ==
    ASSUME RegsInv, NEW patch, NEW fetch \in Offered, NEW bus \in Bus, NEW data,
           IMachine(fetch, patch, bus, data), istate' = "FILL"
    PROVE  \/ /\ istate = "LOOKUP" /\ ifill'.count = 0 /\ FillLine' = LineOf(ireq)
              /\ imemport' = imemport
           \/ /\ istate = "FILL" /\ bus.resp = "none" /\ FillLine' = FillLine
              /\ ifill'.count = ifill.count /\ ifill'.line = ifill.line
              /\ ifill.requested \/ ifillIssue(bus) => ifill'.requested
              /\ IMemPort(bus)
           \/ /\ istate = "FILL" /\ bus.resp = "beat" /\ ifill.count # LastWord /\ FillLine' = FillLine
              /\ ifill'.count = ifill.count + 1 /\ ifill'.line = fill_line_next(patch, data)
              /\ ifill.requested => ifill'.requested
              /\ IMemPort(bus)
<1>1. CASE ILookupMiss(fetch, patch)
  <2>1. PICK victim \in Way :
          ifill' = [tag |-> ireq.tag, set |-> ireq.set, way |-> victim, count |-> 0,
                    line |-> Zero, requested |-> FALSE, uncached |-> ireq.uncacheable]
    BY <1>1 DEF ILookupMiss
  <2>2. ifill'.tag = ireq.tag /\ ifill'.set = ireq.set /\ ifill'.count = 0
    BY Zenon, <2>1
  <2> QED BY <1>1, <2>2 DEF ILookupMiss, FillLine, LineOf
<1>2. CASE IFill(fetch, patch, bus, data)
  <2>1. istate = "FILL" /\ FillKept /\ IMemPort(bus)
    BY <1>2 DEF IFill, RegsInv
  <2>2. CASE bus.resp = "none"
    <3>1. ifill' = [ifill EXCEPT !.requested = @ \/ ifillIssue(bus)]
      BY <1>2, <2>2 DEF IFill
    <3>2. PICK r : r = (ifill.requested \/ ifillIssue(bus))
      OBVIOUS
    <3>3. ifill' = [ifill EXCEPT !.requested = r]
      BY Zenon, <3>1, <3>2
    <3>4. ifill' = [tag |-> ifill.tag, set |-> ifill.set, way |-> ifill.way, count |-> ifill.count,
                    line |-> ifill.line, requested |-> r, uncached |-> ifill.uncached]
      BY <2>1, <3>3 DEF FillKept
    <3>5. /\ ifill'.tag = ifill.tag /\ ifill'.set = ifill.set /\ ifill'.count = ifill.count
          /\ ifill'.line = ifill.line /\ ifill'.requested = r
      BY Zenon, <3>4
    <3>6. ifill.requested \/ ifillIssue(bus) => ifill'.requested
      BY Zenon, <3>2, <3>5
    <3>7. FillLine' = FillLine
      BY <3>5 DEF FillLine, LineOf
    <3> QED BY Zenon, <2>1, <2>2, <3>5, <3>6, <3>7
  <2>3. CASE bus.resp = "beat" /\ ifill.count # LastWord
    <3>1. ifill' = [ifill EXCEPT !.count = @ + 1, !.line = fill_line_next(patch, data)]
      BY <1>2, <2>3 DEF IFill
    <3>2. ifill' = [tag |-> ifill.tag, set |-> ifill.set, way |-> ifill.way, count |-> ifill.count + 1,
                    line |-> fill_line_next(patch, data), requested |-> ifill.requested,
                    uncached |-> ifill.uncached]
      BY <2>1, <3>1 DEF FillKept
    <3>3. /\ ifill'.tag = ifill.tag /\ ifill'.set = ifill.set /\ ifill'.count = ifill.count + 1
          /\ ifill'.line = fill_line_next(patch, data) /\ ifill'.requested = ifill.requested
      BY Zenon, <3>2
    <3>4. FillLine' = FillLine
      BY <3>3 DEF FillLine, LineOf
    <3>5. ifill.requested => ifill'.requested
      BY Zenon, <3>3
    <3> QED BY Zenon, <2>1, <2>3, <3>3, <3>4, <3>5
  <2>4. CASE bus.resp = "line" \/ (bus.resp = "beat" /\ ifill.count = LastWord)
    BY <1>2, <2>4 DEF IFill, IFillDone
  <2> QED BY <1>2, <2>2, <2>3, <2>4 DEF IFill
<1>3. CASE IResetInit(fetch)
  BY <1>3 DEF IResetInit
<1>4. CASE IIdle(fetch)
  BY <1>4 DEF IIdle
<1>5. CASE ILookupHit(fetch, patch)
  BY <1>5 DEF ILookupHit
<1> QED BY <1>1, <1>2, <1>3, <1>4, <1>5 DEF IMachine

LEMMA BusStep ==
    ASSUME RegsInv, BusInv, Backend # "gaps", NEW patch, NEW fetch \in Offered, NEW bus \in Bus,
           NEW data, IMachine(fetch, patch, bus, data), ReadingNext(bus)
    PROVE  BusInv'
<1>0. /\ bus.ready => imemport # None
      /\ bus.resp # "none" => reading
      /\ bus.resp = "line" => ifill.count = 0
      /\ bus.resp = "none" /\ reading => ifill.count = 0
      /\ bus.resp \in {"none", "beat", "line"}
  BY DEF Bus
<1>1. LastWord \in Nat /\ (istate = "FILL" => ifill.count \in 0..LastWord)
  BY IndexAssumption DEF BusInv
<1>2. bus.ready => /\ istate = "FILL" /\ ifill.requested /\ ~reading /\ bus.resp = "none"
  BY <1>0 DEF BusInv
<1>3. reading' = IF bus.ready THEN TRUE ELSE reading /\ ~lastBeat(bus)
  BY Zenon DEF ReadingNext
<1>4. CASE istate # "FILL"
  <2>1. imemport = None /\ ~reading /\ ~bus.ready
    BY <1>2, <1>4 DEF BusInv
  <2>2. imemport' = None
    BY <1>4, <2>1 DEF IMachine, IResetInit, IIdle, ILookupHit, ILookupMiss, IFill
  <2>3. ~reading'
    BY <1>3, <2>1
  <2>4. istate' = "FILL" => ifill'.count = 0
    BY <1>4, FillNext
  <2> QED BY <1>1, <2>2, <2>3, <2>4 DEF BusInv
<1>5. CASE istate = "FILL"
  <2>1. IFill(fetch, patch, bus, data) /\ IMemPort(bus)
    BY <1>5 DEF IMachine, IResetInit, IIdle, ILookupHit, ILookupMiss, ilookup_hit_now, IFill
  <2>2. CASE bus.resp = "none"
    <3>1. istate' = "FILL"
      BY <1>5, <2>1, <2>2 DEF IFill
    <3>2. ifill'.count = ifill.count /\ (ifill.requested \/ ifillIssue(bus) => ifill'.requested)
      BY <1>5, <2>2, <3>1, FillNext
    <3>3. ~lastBeat(bus)
      BY <2>2 DEF lastBeat
    <3>4. CASE bus.ready
      <4>1. reading' = TRUE
        BY <1>3, <3>4
      <4>2. ifill'.requested
        BY <1>2, <3>2, <3>4
      <4>3. imemport' = None
        BY <1>2, <2>1, <3>4 DEF IMemPort, ifillIssue
      <4> QED BY <1>1, <1>5, <3>1, <3>2, <4>1, <4>2, <4>3 DEF BusInv
    <3>5. CASE ~bus.ready
      <4>1. reading' <=> reading
        BY <1>3, <3>3, <3>5
      <4>2. CASE ifillIssue(bus)
        <5>1. imemport = None /\ ~ifill.requested /\ ~reading /\ ifill.count = 0
          BY <1>5, <4>2 DEF ifillIssue, BusInv
        <5>2. ifill'.requested
          BY <3>2, <4>2
        <5> QED BY <1>1, <3>1, <3>2, <4>1, <5>1, <5>2 DEF BusInv
      <4>3. CASE ~ifillIssue(bus)
        <5>1. imemport' = imemport
          BY <2>1, <3>5, <4>3 DEF IMemPort
        <5>2. ifill.requested => ifill'.requested
          BY <3>2
        <5> QED BY <1>1, <1>5, <3>1, <3>2, <4>1, <5>1, <5>2 DEF BusInv
      <4> QED BY <4>2, <4>3
    <3> QED BY <3>4, <3>5
  <2>3. CASE bus.resp # "none"
    <3>1. reading /\ ifill.requested /\ imemport = None /\ ~bus.ready
      BY <1>0, <2>3 DEF BusInv
    <3>2. imemport' = None
      BY <2>1, <3>1 DEF IMemPort, ifillIssue
    <3>3. CASE lastBeat(bus)
      <4>1. istate' = "IDLE"
        BY <2>1, <2>3, <3>3 DEF IFill, IFillDone, lastBeat
      <4>2. ~reading'
        BY <1>3, <3>1, <3>3
      <4> QED BY <3>2, <4>1, <4>2 DEF BusInv
    <3>4. CASE ~lastBeat(bus)
      <4>1. bus.resp = "beat" /\ ifill.count # LastWord
        BY <1>0, <2>3, <3>4 DEF lastBeat
      <4>2. istate' = "FILL"
        BY <1>5, <2>1, <4>1 DEF IFill
      <4>3. ifill'.count = ifill.count + 1 /\ (ifill.requested => ifill'.requested)
        BY <1>5, <4>1, <4>2, FillNext
      <4>4. reading'
        BY <1>3, <3>1, <3>4
      <4>5. ifill'.count \in 0..LastWord
        BY <1>1, <1>5, <4>1, <4>3
      <4> QED BY <3>1, <3>2, <4>2, <4>3, <4>4, <4>5 DEF BusInv
    <3> QED BY <3>3, <3>4
  <2> QED BY <2>2, <2>3
<1> QED BY <1>4, <1>5

-----------------------------------------------------------------------------
\* Lines, lookups, fills and responses on a clock.

\* What no store of this clock touches is told as before.
LEMMA ToldKept ==
    ASSUME RegsInv, NEW bus \in Bus, DcacheStores(bus), MemoryNext(bus, None),
           ISnoopRegister(dstore, None),
           NEW l \in [tag : Tag, set : 0..LastSet], ~(isnoop'.valid /\ LineOf(isnoop'.addr) = l),
           NEW d \in 0..LastWord
    PROVE  AddrOf(l, d) \in Addr /\ NextTold(AddrOf(l, d)) = Told(AddrOf(l, d))
<1> DEFINE a == AddrOf(l, d)
<1>1. a \in Addr /\ LineOf(a) = l
  BY DEF AddrOf, Addr, LineOf
<1> HIDE DEF a
<1>2. dstore # None => dstore.addr # a
  BY <1>1, SnoopNow
<1>3. \A m \in Lane : NextTold(a)[m] = Told(a)[m]
  BY <1>1, <1>2, ToldStep DEF Touches
<1>4. NextTold(a) = Told(a)
  BY <1>1, <1>3, ToldStep, ToldType, DwordsEqual
<1> QED BY <1>1, <1>4 DEF a

\* A word of memory under all the patches, and a word received under the last.
LEMMA FillWords ==
    ASSUME RegsInv, QuietInv, PatchInv, istate = "FILL", NEW bus \in Bus,
           DcacheStores(bus), MemoryNext(bus, None), NEW d \in 0..LastWord
    PROVE  /\ AddrOf(FillLine, d) \in Addr
           /\ Patched(Queued \o Registered \o Live(dstore), d, mem[AddrOf(FillLine, d)])
                = NextTold(AddrOf(FillLine, d))
           /\ Patched(Registered \o Live(dstore), d, Told(AddrOf(FillLine, d)))
                = NextTold(AddrOf(FillLine, d))
<1> DEFINE a == AddrOf(FillLine, d)
<1>1. a \in Addr
  BY DEF RegsInv, AddrOf, FillLine, LineOf, Addr
<1> HIDE DEF a
<1>2. Told(a) \in Dword /\ dstore \in Store \cup {None}
  BY <1>1, ToldType DEF RegsInv, TypeOK
<1>3. /\ Forward(Queued \o Registered, a, mem[a]) = Told(a)
      /\ Forward(Registered, a, Told(a)) = Told(a)
      /\ Queued \o Registered \in Seq(Store \cup {NoPatch})
  BY <1>1, PatchesTold
<1>4. Live(dstore) \in Seq(Store) /\ Registered \in Seq(Store)
  BY <1>2, LiveLanes, RegisteredLanes
<1>5. Live(dstore) \in Seq(Store \cup {NoPatch})
  BY <1>4
<1>6. Forward((Queued \o Registered) \o Live(dstore), a, mem[a]) = Forward(Live(dstore), a, Told(a))
  <2>1. PICK q : q = Queued \o Registered
    OBVIOUS
  <2>2. q \in Seq(Store \cup {NoPatch})
    BY <1>3, <2>1
  <2>3. Forward(q \o Live(dstore), a, mem[a]) = Forward(Live(dstore), a, Forward(q, a, mem[a]))
    BY <1>5, <2>2, ForwardConcat
  <2> QED BY <1>3, <2>1, <2>3
<1>7. Forward(Registered \o Live(dstore), a, Told(a)) = Forward(Live(dstore), a, Told(a))
  BY <1>3, <1>4, ForwardConcat
<1>8. Forward(Live(dstore), a, Told(a)) = NextTold(a)
  BY <1>1, ToldStep
<1> QED BY <1>1, <1>6, <1>7, <1>8 DEF Patched, a

LEMMA FillRows ==
    ASSUME RegsInv, QuietInv, PatchInv, FillInv, istate = "FILL", NEW bus \in Bus,
           DcacheStores(bus), MemoryNext(bus, None), NEW d \in 0..LastWord
    PROVE  /\ bus.resp = "line" => wide_line_next(dstore, returned(bus))[d] = NextTold(AddrOf(FillLine, d))
           /\ bus.resp = "beat" /\ (d = ifill.count \/ d < ifill.count) =>
                fill_line_next(dstore, returned(bus))[d] = NextTold(AddrOf(FillLine, d))
<1> DEFINE a == AddrOf(FillLine, d)
<1>0. d \in IWord
  BY DEF IWord
<1>1. a = [tag |-> ifill.tag, set |-> ifill.set, word |-> d]
  BY DEF AddrOf, FillLine, LineOf
<1>2. ASSUME bus.resp = "line"
      PROVE  wide_line_next(dstore, returned(bus))[d] = NextTold(a)
  <2>1. returned(bus) = line
    BY <1>2 DEF returned
  <2>2. line[d] = mem[a]
    BY <1>1 DEF line
  <2>3. wide_line_next(dstore, line)[d] = Patched(Queued \o Registered \o Live(dstore), d, line[d])
    BY <1>0 DEF wide_line_next
  <2> HIDE DEF a
  <2>4. Patched(Queued \o Registered \o Live(dstore), d, mem[a]) = NextTold(a)
    BY FillWords DEF a
  <2> QED BY <2>1, <2>2, <2>3, <2>4
<1>3. ASSUME bus.resp = "beat", d = ifill.count
      PROVE  fill_line_next(dstore, returned(bus))[d] = NextTold(a)
  <2>1. returned(bus) = beat
    BY <1>3 DEF returned
  <2>2. beat = mem[a]
    BY <1>1, <1>3 DEF beat
  <2>3. fill_line_next(dstore, beat)[d] = Patched(Queued \o Registered \o Live(dstore), d, beat)
    BY <1>0, <1>3 DEF fill_line_next, fill_word_next
  <2> HIDE DEF a
  <2>4. Patched(Queued \o Registered \o Live(dstore), d, mem[a]) = NextTold(a)
    BY FillWords DEF a
  <2> QED BY <2>1, <2>2, <2>3, <2>4
<1>4. ASSUME bus.resp = "beat", d < ifill.count, d # ifill.count
      PROVE  fill_line_next(dstore, returned(bus))[d] = NextTold(a)
  <2>1. ifill.line[d] = Told(a)
    BY <1>4 DEF FillInv
  <2>2. fill_line_next(dstore, returned(bus))[d] = Patched(Registered \o Live(dstore), d, ifill.line[d])
    BY <1>0, <1>4 DEF fill_line_next
  <2> HIDE DEF a
  <2>3. Patched(Registered \o Live(dstore), d, Told(a)) = NextTold(a)
    BY FillWords DEF a
  <2> QED BY <2>1, <2>2, <2>3
<1> QED BY <1>2, <1>3, <1>4

\* The line of a fill that ends, in the data RAM or on its way to the prefetch unit.
filled(bus) == IF bus.resp = "line" THEN wide_line_next(dstore, returned(bus))
                                    ELSE fill_line_next(dstore, returned(bus))
LEMMA FilledRow ==
    ASSUME RegsInv, QuietInv, PatchInv, FillInv, BusInv, istate = "FILL", NEW bus \in Bus,
           DcacheStores(bus), MemoryNext(bus, None), lastBeat(bus), NEW d \in 0..LastWord
    PROVE  filled(bus)[d] = NextTold(AddrOf(FillLine, d))
<1>1. CASE bus.resp = "line"
  BY <1>1, FillRows DEF filled
<1>2. CASE bus.resp = "beat" /\ ifill.count = LastWord
  <2>1. d = ifill.count \/ d < ifill.count
    BY <1>2, IndexAssumption
  <2>2. bus.resp # "line"
    BY <1>2
  <2> QED BY <1>2, <2>1, <2>2, FillRows DEF filled
<1> QED BY <1>1, <1>2 DEF lastBeat

LEMMA RowsStep ==
    ASSUME RegsInv, WaysInv, QuietInv, PatchInv, BusInv, RowsInv, FillInv,
           istate # "RESET" /\ isnoop.valid => \A w \in Way : itags'[w][isnoop.addr.set] # isnoop.addr.tag,
           NEW bus \in Bus, NEW fetch \in Offered,
           IMachine(fetch, dstore, bus, returned(bus)), ITagRams(dstore, None, bus),
           IDataRams(dstore, None, bus, returned(bus)), ISnoopRegister(dstore, None),
           DcacheStores(bus), MemoryNext(bus, None)
    PROVE  RowsInv'
<1>1. DOMAIN ilines = Way /\ \A w \in Way : DOMAIN ilines[w] = 0..LastSet
  BY DEF RowsInv
<1>2. /\ installs(dstore, None, bus) => ilines' = [ilines EXCEPT ![ifill.way][ifill.set] = filled(bus)]
      /\ ~installs(dstore, None, bus) => ilines' = ilines
  BY Zenon DEF IDataRams, filled
<1>3. DOMAIN ilines' = Way /\ \A w \in Way : DOMAIN ilines'[w] = 0..LastSet
  BY <1>1, <1>2
<1>4. itags' \in [Way -> [0..LastSet -> Tag \cup {None}]]
  BY TagTypes
<1>5. ASSUME istate' # "RESET", NEW w \in Way, NEW s \in 0..LastSet, itags'[w][s] # None,
             NEW l, l = [tag |-> itags'[w][s], set |-> s],
             ~(isnoop'.valid /\ LineOf(isnoop'.addr) = l), NEW d \in 0..LastWord
      PROVE  ilines'[w][s][d] = NextTold(AddrOf(l, d))
  <2>1. PICK t \in Tag : t = itags'[w][s]
    BY <1>4, <1>5
  <2>2. l = [tag |-> t, set |-> s] /\ l \in [tag : Tag, set : 0..LastSet]
    BY <1>5, <2>1
  <2>3. istate # "RESET"
    <3>1. SUFFICES ASSUME istate = "RESET" PROVE FALSE
      OBVIOUS
    <3>2. iinit_set = LastSet /\ s <= iinit_set
      BY <1>5, <3>1, ResetSource, IndexAssumption
    <3> QED BY <1>5, <3>1, <3>2, ResetClears
  <2>4. CASE installs(dstore, None, bus) /\ w = ifill.way /\ s = ifill.set
    <3>1. ilines'[w][s] = filled(bus)
      BY <1>1, <1>2, <2>4
    <3>2. istate = "FILL" /\ lastBeat(bus)
      BY <2>4 DEF installs, itag_fill_write
    <3>3. t = ifill.tag
      <4>1. itags[w] \in [0..LastSet -> Tag \cup {None}]
        BY DEF RegsInv, TypeOK
      <4>2. itags'[w] = [itags[w] EXCEPT ![ifill.set] = ifill.tag]
        BY <2>3, <2>4 DEF ITagRams
      <4> QED BY <2>1, <2>4, <4>1, <4>2
    <3>4. l = FillLine
      BY <2>2, <2>4, <3>3 DEF FillLine, LineOf
    <3> QED BY <3>1, <3>2, <3>4, FilledRow
  <2>5. CASE ~(installs(dstore, None, bus) /\ w = ifill.way /\ s = ifill.set)
    <3>1. itags[w][s] = t
      BY <1>5, <2>1, <2>5, TagStep
    <3>2. ilines'[w][s] = ilines[w][s]
      <4>1. CASE installs(dstore, None, bus)
        <5>1. ilines' = [ilines EXCEPT ![ifill.way] = [ilines[ifill.way] EXCEPT ![ifill.set] = filled(bus)]]
          BY <1>2, <4>1
        <5>2. CASE w = ifill.way
          <6>1. ilines'[w] = [ilines[w] EXCEPT ![ifill.set] = filled(bus)]
            BY <1>1, <5>1, <5>2
          <6> QED BY <1>1, <2>5, <4>1, <5>2, <6>1
        <5>3. CASE w # ifill.way
          BY <1>1, <5>1, <5>3
        <5> QED BY <5>2, <5>3
      <4>2. CASE ~installs(dstore, None, bus)
        BY <1>2, <4>2
      <4> QED BY <4>1, <4>2
    <3>3. t # None
      BY <2>1, <1>5
    <3>4. ~Clearing(l)
      BY <2>1, <2>2, <2>3 DEF Clearing, LineOf
    <3>5. ilines[w][s][d] = Told(AddrOf(l, d))
      BY <2>2, <2>3, <3>1, <3>3, <3>4 DEF RowsInv, Holds
    <3>6. NextTold(AddrOf(l, d)) = Told(AddrOf(l, d))
      BY <1>5, <2>2, ToldKept
    <3> QED BY <3>2, <3>5, <3>6
  <2> QED BY <2>4, <2>5
<1> QED BY <1>3, <1>5 DEF RowsInv, Holds, Clearing, Told, NextTold

LEMMA ReadStep ==
    ASSUME RegsInv, RowsInv, NEW bus \in Bus, NEW fetch \in Offered,
           IMachine(fetch, dstore, bus, returned(bus)), ITagRead(fetch, dstore, None),
           ISnoopRegister(dstore, None), DcacheStores(bus), MemoryNext(bus, None)
    PROVE  ReadInv'
<1>1. ASSUME istate' = "LOOKUP", ~ireq'.conflict, ~(isnoop'.valid /\ LineOf(isnoop'.addr) = LineOf(ireq')),
             NEW w \in Way, ird'.tag[w] # None, ird'.tag[w] = ireq'.tag, NEW d \in 0..LastWord
      PROVE  ird'.line[w][d] = NextTold(AddrOf(LineOf(ireq'), d))
  <2> DEFINE s == fetch.set
             l == LineOf(fetch)
  <2>1. /\ istate = "IDLE" /\ fetch # None /\ iready_r
        /\ fetch.tag \in Tag /\ s \in 0..LastSet
        /\ ireq'.tag = fetch.tag /\ ireq'.set = s
        /\ ireq'.conflict = (isnoop.valid /\ LineOf(isnoop.addr) = l)
    BY <1>1, LookupSource
  <2>2. LineOf(ireq') = l /\ l = [tag |-> fetch.tag, set |-> s] /\ l \in [tag : Tag, set : 0..LastSet]
    BY <2>1 DEF LineOf
  <2>3. ~Clearing(l)
    BY <1>1, <2>1 DEF Clearing
  <2>4. ird' = [tag  |-> [v \in Way |-> itags[v][s]],
                line |-> [v \in Way |-> IF itags[v][s] = fetch.tag THEN ilines[v][s] ELSE Zero]]
    BY <2>1 DEF ITagRead
  <2>5. itags[w][s] = fetch.tag /\ itags[w][s] # None
    BY <1>1, <2>1, <2>4
  <2>6. ird'.line[w] = ilines[w][s]
    BY <2>4, <2>5
  <2> HIDE DEF l, s
  <2>7. ilines[w][s][d] = Told(AddrOf(l, d))
    BY <2>1, <2>2, <2>3, <2>5 DEF RowsInv, Holds, s
  <2>8. NextTold(AddrOf(l, d)) = Told(AddrOf(l, d))
    BY <1>1, <2>2, ToldKept
  <2> QED BY <2>2, <2>6, <2>7, <2>8
<1> QED BY <1>1 DEF ReadInv, ihit_ways, Holds, Clearing, Told, NextTold

LEMMA FillStep ==
    ASSUME RegsInv, QuietInv, PatchInv, BusInv, FillInv, Backend # "gaps",
           NEW bus \in Bus, NEW fetch \in Offered, IMachine(fetch, dstore, bus, returned(bus)),
           DcacheStores(bus), MemoryNext(bus, None)
    PROVE  FillInv'
<1>1. ASSUME istate' = "FILL", NEW d \in 0..LastWord, d < ifill'.count
      PROVE  ifill'.line[d] = NextTold(AddrOf(FillLine', d))
  <2>1. CASE istate = "LOOKUP" /\ ifill'.count = 0
    BY <1>1, <2>1
  <2>2. CASE istate = "FILL" /\ bus.resp = "none" /\ ifill'.count = ifill.count
    <3>1. ifill.count # 0
      BY <1>1, <2>2
    <3> QED BY <2>2, <3>1 DEF BusInv, Bus
  <2>3. CASE /\ istate = "FILL" /\ bus.resp = "beat" /\ FillLine' = FillLine
             /\ ifill'.count = ifill.count + 1 /\ ifill'.line = fill_line_next(dstore, returned(bus))
    <3>1. ifill.count \in Nat /\ d \in Nat
      BY <2>3, IndexAssumption DEF BusInv
    <3>2. d = ifill.count \/ d < ifill.count
      BY <1>1, <2>3, <3>1
    <3> QED BY <2>3, <3>2, FillRows
  <2> QED BY <1>1, <2>1, <2>2, <2>3, FillNext
<1> QED BY <1>1 DEF FillInv, Told, NextTold

LEMMA ResponseStep ==
    ASSUME RegsInv, QuietInv, PatchInv, BusInv, FillInv, ResponseInv,
           NEW bus \in Bus, NEW fetch \in Offered, IMachine(fetch, dstore, bus, returned(bus)),
           DcacheStores(bus), MemoryNext(bus, None), FetchingNext(fetch), icache_write_patch = dstore
    PROVE  ResponseInv'
<1>1. icpu_resp_valid(icache_write_patch) = (ilookup_hit_now(dstore) \/ iresp.valid)
  BY DEF icpu_resp_valid
<1>2. ASSUME istate = "FILL" PROVE fetching' = FillLine /\ FillLine \in [tag : Tag, set : 0..LastSet]
  <2>1. fetch = None
    BY <1>2 DEF IMachine, IResetInit, IIdle, ILookupHit, ILookupMiss, ilookup_hit_now, IFill
  <2>2. ~iresp.valid /\ fetching = FillLine
    BY <1>2 DEF ResponseInv
  <2>3. ~ilookup_hit_now(dstore)
    BY <1>2 DEF ilookup_hit_now
  <2>4. fetching' = fetching
    BY <1>1, <2>1, <2>2, <2>3 DEF FetchingNext
  <2> QED BY <1>2, <2>2, <2>4 DEF RegsInv, FillLine, LineOf
<1>3. ASSUME iresp'.valid
      PROVE  /\ istate' = "IDLE" /\ fetching' \in [tag : Tag, set : 0..LastSet]
             /\ \A d \in 0..LastWord : iresp'.line[d] = NextTold(AddrOf(fetching', d))
  <2>1. CASE istate = "FILL" /\ lastBeat(bus)
    <3>1. istate' = "IDLE" /\ iresp' = [valid |-> TRUE, line |-> filled(bus)]
      BY <2>1 DEF IMachine, IResetInit, IIdle, ILookupHit, ILookupMiss, ilookup_hit_now, IFill,
                  IFillDone, lastBeat, filled
    <3>2. fetching' = FillLine /\ fetching' \in [tag : Tag, set : 0..LastSet]
      BY <1>2, <2>1
    <3>3. iresp'.line = filled(bus)
      BY <3>1
    <3> QED BY <2>1, <3>1, <3>2, <3>3, FilledRow
  <2>2. CASE ~(istate = "FILL" /\ lastBeat(bus))
    <3>1. INoResponse
      BY <2>2 DEF IMachine, IResetInit, IIdle, ILookupHit, ILookupMiss, IFill, lastBeat
    <3> QED BY <1>3, <3>1 DEF INoResponse
  <2> QED BY <2>1, <2>2
<1>4. ASSUME istate' = "LOOKUP" PROVE fetching' = LineOf(ireq')
  <2>1. fetch # None /\ ireq'.tag = fetch.tag /\ ireq'.set = fetch.set
    BY <1>4, LookupSource
  <2> QED BY <2>1 DEF FetchingNext, LineOf
<1>5. ASSUME istate' = "FILL" PROVE fetching' = FillLine'
  <2>1. CASE istate = "FILL"
    <3>1. FillLine' = FillLine
      BY <1>5, <2>1, FillNext
    <3> QED BY <1>2, <2>1, <3>1
  <2>2. CASE istate # "FILL"
    <3>1. istate = "LOOKUP" /\ FillLine' = LineOf(ireq)
      BY <1>5, <2>2, FillNext
    <3>2. ILookupMiss(fetch, dstore)
      BY <1>5, <3>1 DEF IMachine, IResetInit, IIdle, ILookupHit, IFill
    <3>3. fetch = None /\ ~ilookup_hit_now(dstore)
      BY <3>2 DEF ILookupMiss
    <3>4. ~iresp.valid /\ fetching = LineOf(ireq)
      BY <3>1 DEF ResponseInv
    <3>5. fetching' = fetching
      BY <1>1, <3>3, <3>4 DEF FetchingNext
    <3> QED BY <3>1, <3>4, <3>5
  <2> QED BY <2>1, <2>2
<1> QED BY <1>3, <1>4, <1>5 DEF ResponseInv, Holds, Told, NextTold

-----------------------------------------------------------------------------
\* The invariant, and what it says of lines and fetches.

LEMMA FreshInit == Init => FreshInv
<1> SUFFICES ASSUME Init PROVE FreshInv
  OBVIOUS
<1>1. RegsInv /\ WaysInv
  BY RegsInit
<1>2. /\ istate = "RESET" /\ iresp = [valid |-> FALSE, line |-> Zero] /\ imemport = None
      /\ patchq = [p \in 0..PatchqDepth - 1 |-> None]
      /\ \E junk \in Byte : ilines = [w \in Way |-> [s \in ISet |-> [d \in IWord |-> [l \in Lane |-> junk]]]]
  BY DEF Init, IInit
<1>3. PICK t \in Tag : isnoop = [valid |-> FALSE, addr |-> AddrOf([tag |-> t, set |-> 0], 0)]
  BY DEF Init, IInit
<1>4. isnoop.valid = FALSE /\ iresp.valid = FALSE
  BY <1>2, <1>3
<1>5. /\ posted = << >> /\ slot = None /\ snoop = None /\ reading = FALSE /\ wrote = {}
  BY DEF Init
<1>6. QuietInv
  BY <1>4, <1>5 DEF QuietInv
<1>7. BusInv
  BY <1>2, <1>5 DEF BusInv
<1>8. PatchInv
  BY <1>2, <1>4, <1>5 DEF PatchInv
<1>9. RowsInv
  BY <1>2 DEF RowsInv, ISet
<1>10. ReadInv /\ FillInv /\ ResponseInv
  BY <1>2, <1>4 DEF ReadInv, FillInv, ResponseInv
<1> QED BY <1>1, <1>6, <1>7, <1>8, <1>9, <1>10 DEF FreshInv

\* A clock keeps it, but for the two ways out.
LEMMA FreshStep ==
    ASSUME Alone, FreshInv, PatchesOutlive, [Clears]_vars, [Next]_vars
    PROVE  FreshInv'
<1>1. CASE Next
  <2>1. PICK bus \in Bus, fetch \in Offered, x \in Written : Clock(fetch, bus, x)
    BY <1>1 DEF Next
  <2>2. /\ RegsInv /\ WaysInv /\ QuietInv /\ BusInv /\ PatchInv
        /\ RowsInv /\ ReadInv /\ FillInv /\ ResponseInv
    BY DEF FreshInv
  <2>3. RegsInv' /\ WaysInv'
    BY <2>1, <2>2, RegsStep, WaysStep
  <2>4. /\ dstore \in Store \cup {None}
        /\ IMachine(fetch, dstore, bus, returned(bus))
        /\ ITagRead(fetch, dstore, None) /\ ITagRams(dstore, None, bus)
        /\ IDataRams(dstore, None, bus, returned(bus))
        /\ ISnoopRegister(dstore, None) /\ PatchQueue
        /\ PatchSlot /\ DcacheStores(bus) /\ SnoopNext /\ MemoryNext(bus, None)
        /\ ReadingNext(bus) /\ FetchingNext(fetch)
        /\ icache_write_patch = dstore
    BY <2>1, <2>2, ClockFacts
  <2>5. MaxHold = 0 /\ Backend # "gaps"
    BY DEF Alone
  <2>6. QuietInv'
    BY <2>2, <2>4, <2>5, QuietStep
  <2>7. BusInv'
    BY <2>2, <2>4, <2>5, BusStep
  <2>8. PatchInv'
    BY <2>2, <2>4, PatchStep
  <2>9. RowsInv'
    <3>1. CASE Clears
      <4>1. istate # "RESET" /\ isnoop.valid => \A w \in Way : itags'[w][isnoop.addr.set] # isnoop.addr.tag
        BY <3>1 DEF Clears
      <4> QED BY <2>2, <2>4, <4>1, RowsStep
    <3>2. CASE UNCHANGED vars
      <4>1. UNCHANGED <<istate, itags, ilines, isnoop, posted, mem>>
        BY <3>2 DEF vars, ivars
      <4> QED BY <2>2, <4>1 DEF RowsInv, Holds, Told, Clearing
    <3> QED BY <3>1, <3>2
  <2>10. ReadInv'
    BY <2>2, <2>4, ReadStep
  <2>11. FillInv'
    BY <2>2, <2>4, <2>5, FillStep
  <2>12. ResponseInv'
    BY <2>2, <2>4, ResponseStep
  <2> QED BY <2>3, <2>6, <2>7, <2>8, <2>9, <2>10, <2>11, <2>12 DEF FreshInv
<1>2. CASE UNCHANGED vars
  <2>1. UNCHANGED <<istate, ireq, iresp, ifill, imemport, itags, ilines, ird, isnoop, patchq,
                    posted, slot, snoop, mem, reading, fetching, wrote>>
    BY <1>2 DEF vars, ivars
  <2>2. RegsInv' /\ WaysInv'
    BY <1>2, LinesStep DEF FreshInv
  <2>3. QuietInv' /\ BusInv'
    BY <2>1 DEF FreshInv, QuietInv, BusInv
  <2>4. PatchInv'
    BY <2>1 DEF FreshInv, PatchInv, Covers, Told
  <2>5. RowsInv'
    BY <2>1 DEF FreshInv, RowsInv, Holds, Told, Clearing
  <2>6. ReadInv'
    BY <2>1 DEF FreshInv, ReadInv, Holds, Told, Clearing, ihit_ways
  <2>7. FillInv' /\ ResponseInv'
    BY <2>1 DEF FreshInv, FillInv, ResponseInv, Holds, Told, FillLine
  <2> QED BY <2>2, <2>3, <2>4, <2>5, <2>6, <2>7 DEF FreshInv
<1> QED BY <1>1, <1>2

\* The program's value of a dword is what the I-cache was told, or a store it was
\* not yet told of.
LEMMA ToldOrUntold ==
    ASSUME RegsInv, NEW a \in Addr
    PROVE  arch(a) = Told(a) \/ (dstore # None /\ dstore.addr = a)
<1>1. posted \in Seq(Store) /\ dstore \in Store \cup {None}
  BY DEF RegsInv, TypeOK
<1>2. CASE dstore = None
  BY <1>2 DEF arch, Told
<1>3. CASE dstore # None
  <2>1. dstore \in Store
    BY <1>1, <1>3
  <2>2. arch(a) = Forward(Append(posted, dstore), a, mem[a])
    BY <1>3 DEF arch
  <2>3. dstore.addr # a => Forward(Append(posted, dstore), a, mem[a]) = Forward(posted, a, mem[a])
    BY <1>1, <2>1, ForwardAppend
  <2> QED BY <1>3, <2>2, <2>3 DEF Told
<1> QED BY <1>2, <1>3

LEMMA FreshLines == ASSUME FreshInv PROVE NoStaleILine
<1> SUFFICES ASSUME NEW w \in Way, NEW s \in 0..LastSet, itags[w][s] # None, istate # "RESET",
                    NEW l, l = [tag |-> itags[w][s], set |-> s], ~Clearing(l), NEW d \in 0..LastWord,
                    NEW a, a = [tag |-> itags[w][s], set |-> s, word |-> d]
             PROVE  ilines[w][s][d] = arch(a) \/ Untold(a)
  BY DEF NoStaleILine
<1>0. itags \in [Way -> [0..LastSet -> Tag \cup {None}]]
  BY DEF FreshInv, RegsInv, TypeOK
<1>1. itags[w][s] \in Tag
  BY <1>0
<1>2. a \in Addr /\ a = AddrOf(l, d)
  BY <1>1 DEF Addr, AddrOf
<1>3. ilines[w][s][d] = Told(a)
  BY <1>2 DEF FreshInv, RowsInv, Holds
<1>4. arch(a) = Told(a) \/ (dstore # None /\ dstore.addr = a)
  BY <1>2, ToldOrUntold DEF FreshInv
<1> QED BY <1>3, <1>4 DEF Untold

LEMMA FreshFetches == ASSUME FreshInv PROVE FetchesReturnStores
<1> SUFFICES ASSUME icpu_resp_valid(icache_write_patch)
             PROVE  /\ fetching # None
                    /\ \A d \in 0..LastWord : \A a : a = [tag |-> fetching.tag, set |-> fetching.set, word |-> d] =>
                         \/ icpu_line(icache_write_patch)[d] = arch(a)
                         \/ Untold(a) /\ (ilookup_hit_now(icache_write_patch) => icache_write_patch = None)
  BY DEF FetchesReturnStores
<1>1. icache_write_patch = dstore /\ dstore \in Store \cup {None}
  BY DEF icache_write_patch, FreshInv, QuietInv, RegsInv, TypeOK
<1>2. CASE ilookup_hit_now(dstore)
  <2> DEFINE w == Least(ihit_ways)
  <2>1. istate = "LOOKUP" /\ ihit_ways # {} /\ ~lookup_snoop_conflict(dstore)
    BY <1>2 DEF ilookup_hit_now, lookup_hit_usable
  <2>2. ihit_ways \in SUBSET Nat
    BY IndexAssumption DEF ihit_ways
  <2>3. w \in ihit_ways
    BY <2>1, <2>2, LeastMember
  <2> HIDE DEF w
  <2>4. icpu_line(icache_write_patch) = ird.line[w]
    BY <1>1, <1>2 DEF icpu_line, w
  <2>5. /\ ~ireq.conflict /\ ~Clearing(LineOf(ireq))
        /\ ~(dstore # None /\ LineOf(dstore.addr) = LineOf(ireq))
    BY <2>1 DEF lookup_snoop_conflict, Clearing
  <2>6. fetching = LineOf(ireq) /\ ireq \in Request /\ Holds(ird.line[w], fetching)
    BY <2>1, <2>3, <2>5 DEF FreshInv, ResponseInv, ReadInv, RegsInv
  <2>7. fetching \in [tag : Tag, set : 0..LastSet] /\ fetching # None
    BY <2>6, AbsentAssumption DEF Request, LineOf
  <2>8. ASSUME NEW d \in 0..LastWord, NEW a, a = [tag |-> fetching.tag, set |-> fetching.set, word |-> d]
        PROVE  icpu_line(icache_write_patch)[d] = arch(a)
    <3>1. a \in Addr /\ a = AddrOf(fetching, d) /\ LineOf(a) = fetching
      BY <2>7, <2>8 DEF Addr, AddrOf, LineOf
    <3>2. ~(dstore # None /\ dstore.addr = a)
      BY <2>5, <2>6, <3>1
    <3>3. arch(a) = Told(a)
      BY <3>1, <3>2, ToldOrUntold DEF FreshInv
    <3>4. ird.line[w][d] = Told(a)
      BY <2>6, <3>1 DEF Holds
    <3> QED BY <2>4, <3>3, <3>4
  <2> QED BY <2>7, <2>8
<1>3. CASE ~ilookup_hit_now(dstore)
  <2>1. iresp.valid /\ icpu_line(icache_write_patch) = iresp.line
    BY <1>1, <1>3 DEF icpu_resp_valid, icpu_line
  <2>2. /\ fetching \in [tag : Tag, set : 0..LastSet] /\ fetching # None
        /\ Holds(iresp.line, fetching)
    BY <2>1, AbsentAssumption DEF FreshInv, ResponseInv
  <2> QED
    <3>1. ASSUME NEW d \in 0..LastWord, NEW a, a = [tag |-> fetching.tag, set |-> fetching.set, word |-> d]
          PROVE  icpu_line(icache_write_patch)[d] = arch(a) \/ Untold(a)
      <4>1. iresp.line[d] = Told(a)
        BY <2>2, <3>1 DEF Holds, AddrOf
      <4>2. a \in Addr
        BY <2>2, <3>1 DEF Addr
      <4>3. arch(a) = Told(a) \/ (dstore # None /\ dstore.addr = a)
        BY <4>2, ToldOrUntold DEF FreshInv
      <4> QED BY <2>1, <4>1, <4>3 DEF Untold
    <3> QED BY <1>1, <1>3, <2>2, <3>1
<1> QED BY <1>2, <1>3

\* Without external writers, the I-cache is stale in two ways and in no other: a
\* clear comes late or never because a fill's tag took its write port (l1_icache:
\* tag_snoop_match after tag_fill_write), or a patch leaves the patch queue before
\* its store leaves the D-cache's queue (patchq_head).  While neither happens, a
\* line the next fetch can hit holds every store, for every number of sets, ways,
\* words, lanes, patches and posted stores.
THEOREM LinesFreshUnlessLate ==
    ASSUME Alone
    PROVE  Spec /\ SnoopsClear /\ []PatchesOutlive => []NoStaleILine
<1>1. FreshInv /\ PatchesOutlive /\ [Clears]_vars /\ [Next]_vars => FreshInv'
  BY FreshStep
<1>2. FreshInv => NoStaleILine
  BY FreshLines
<1> QED BY <1>1, <1>2, FreshInit, PTL DEF Spec, SnoopsClear

\* And every fetch returns every store the I-cache was told of, from the line or
\* from memory and the patches over it, while a fetch waits (cpu_resp_valid,
\* lookup_snoop_conflict, fill_word_next, fill_line_next, wide_line_next).
THEOREM FetchesFreshUnlessLate ==
    ASSUME Alone
    PROVE  Spec /\ SnoopsClear /\ []PatchesOutlive => []FetchesReturnStores
<1>1. FreshInv /\ PatchesOutlive /\ [Clears]_vars /\ [Next]_vars => FreshInv'
  BY FreshStep
<1>2. FreshInv => FetchesReturnStores
  BY FreshFetches
<1> QED BY <1>1, <1>2, FreshInit, PTL DEF Spec, SnoopsClear

-----------------------------------------------------------------------------
\* Where neither can happen.

\* In one set a fill's tag takes the port of a clear only to replace its line.
LEMMA OneSetClears == ASSUME LastSet = 0 PROVE Spec => SnoopsClear
<1>1. RegsInv /\ WaysInv /\ Next => Clears
  <2> SUFFICES ASSUME RegsInv, WaysInv, Next, istate # "RESET", isnoop.valid, NEW w \in Way,
                      itags'[w][isnoop.addr.set] = isnoop.addr.tag
               PROVE  FALSE
    BY DEF Clears
  <2>1. PICK bus \in Bus, fetch \in Offered, x \in Written : Clock(fetch, bus, x)
    BY DEF Next
  <2>2. PICK patch : patch = icache_write_patch
    OBVIOUS
  <2>3. PICK data : data = returned(bus)
    OBVIOUS
  <2>4. IDatapath(fetch, patch, snoop, bus, data)
    BY Zenon, <2>1, <2>2, <2>3 DEF Clock, IClock
  <2>5. ITagRams(patch, snoop, bus)
    BY <2>4, Zenon DEF IDatapath
  <2>6. /\ isnoop.addr.tag \in Tag /\ isnoop.addr.set \in 0..LastSet /\ isnoop.addr.set = 0
        /\ isnoop.addr.tag # None
    BY NoneAssumption DEF RegsInv, Addr
  <2>7. itags[w][isnoop.addr.set] = isnoop.addr.tag \/ installs(patch, snoop, bus)
    BY <2>5, <2>6, TagStep
  <2>8. installs(patch, snoop, bus) /\ w = ifill.way
    <3>1. CASE itags[w][isnoop.addr.set] = isnoop.addr.tag
      <4>1. ISnoopMatch(w)
        BY <3>1 DEF WaysInv
      <4> QED BY <2>5, <2>6, <4>1, SnoopClears
    <3>2. CASE itags[w][isnoop.addr.set] # isnoop.addr.tag
      BY <2>5, <2>6, <3>2, TagStep
    <3> QED BY <3>1, <3>2
  <2>9. istate = "FILL" /\ ~Clearing(FillLine)
    BY <2>8 DEF installs, itag_fill_write, fill_install_allowed, Clearing
  <2>10. ifill.set \in 0..LastSet /\ ifill.set = 0
    BY <2>9 DEF RegsInv
  <2>11. itags'[w][isnoop.addr.set] = ifill.tag
    <3>1. itags[w] \in [0..LastSet -> Tag \cup {None}]
      BY DEF RegsInv, TypeOK
    <3>2. itags'[w] = [itags[w] EXCEPT ![ifill.set] = ifill.tag]
      BY <2>5, <2>8 DEF ITagRams
    <3> QED BY <2>6, <2>10, <3>1, <3>2
  <2> QED BY <2>6, <2>9, <2>10, <2>11 DEF Clearing, FillLine, LineOf
<1>2. RegsInv /\ WaysInv /\ [Next]_vars => [Clears]_vars
  BY <1>1
<1> QED BY <1>2, LinesStep, RegsInit, PTL DEF Spec, SnoopsClear

\* A queue of one store holds the store that is registered, or none.
OnePosted == isnoop.valid => \A k \in DOMAIN posted : posted[k].addr = isnoop.addr

LEMMA OnePostedOutlives == ASSUME MaxHold = 0, MaxPosted = 1 PROVE Spec => []PatchesOutlive
<1>1. Init => RegsInv /\ WaysInv /\ QuietInv /\ OnePosted
  <2>1. Init => RegsInv /\ WaysInv /\ QuietInv
    BY FreshInit DEF FreshInv
  <2>2. Init => posted = << >>
    BY DEF Init
  <2> QED BY <2>1, <2>2 DEF OnePosted
<1>2. RegsInv /\ QuietInv /\ OnePosted /\ [Next]_vars => QuietInv' /\ OnePosted'
  <2> SUFFICES ASSUME RegsInv, QuietInv, OnePosted, [Next]_vars PROVE QuietInv' /\ OnePosted'
    OBVIOUS
  <2>1. CASE Next
    <3>1. PICK bus \in Bus, fetch \in Offered, x \in Written : Clock(fetch, bus, x)
      BY <2>1 DEF Next
    <3>2. /\ dstore \in Store \cup {None} /\ ISnoopRegister(dstore, None)
          /\ PatchSlot /\ DcacheStores(bus) /\ SnoopNext /\ MemoryNext(bus, None)
      BY <3>1, ClockFacts
    <3>3. QuietInv'
      BY <3>2, QuietStep
    <3>4. ASSUME isnoop'.valid PROVE \A k \in DOMAIN posted' : posted'[k].addr = isnoop'.addr
      <4>1. dstore # None /\ isnoop'.addr = dstore.addr
        BY <3>2, <3>4, SnoopNow
      <4>2. posted = << >>
        <5>1. posted \in Seq(Store) /\ Len(posted) < 1 /\ Len(posted) \in Nat
          BY <4>1, LenProperties DEF RegsInv, TypeOK
        <5> QED BY <5>1, EmptySeq
      <4>3. posted' \in Enqueue(posted, dstore)
        BY <3>2, <4>2 DEF DcacheStores, Bus
      <4>4. posted' = << dstore >>
        BY <4>1, <4>2, <4>3 DEF Enqueue
      <4> QED BY <4>1, <4>4
    <3> QED BY <3>3, <3>4 DEF OnePosted
  <2>2. CASE UNCHANGED vars
    BY <2>2 DEF vars, ivars, QuietInv, OnePosted
  <2> QED BY <2>1, <2>2
<1>3. RegsInv /\ OnePosted => PatchesOutlive
  <2> SUFFICES ASSUME RegsInv, OnePosted, isnoop.valid, isnoop.patch, patchqHits = {},
                      patchq[patchq_head] # None, NEW k \in DOMAIN posted,
                      posted[k].addr = patchq[patchq_head].addr
               PROVE  FALSE
    BY DEF PatchesOutlive
  <2>1. patchq_head \in DOMAIN patchq
    BY DEF RegsInv, TypeOK
  <2>2. patchq[patchq_head].addr # isnoop.addr
    BY <2>1 DEF patchqHits
  <2> QED BY <2>2 DEF OnePosted
<1> QED BY <1>1, <1>2, <1>3, LinesStep, PTL DEF Spec

\* With one set and one posted store, every line and every fetch is fresh: what the
\* run CacheUnit checks, for every number of ways, words, lanes, bytes and patches.
THEOREM OneSetFresh ==
    ASSUME Alone, LastSet = 0, MaxPosted = 1
    PROVE  Spec => [](NoStaleILine /\ FetchesReturnStores)
<1>1. Spec => SnoopsClear
  BY OneSetClears
<1>2. Spec => []PatchesOutlive
  BY OnePostedOutlives DEF Alone
<1> QED BY <1>1, <1>2, LinesFreshUnlessLate, FetchesFreshUnlessLate, PTL

=============================================================================
