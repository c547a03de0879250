------------------------- MODULE L1CacheData_proofs -------------------------
(* What the D-cache of module L1Cache gives the core is what the program's     *)
(* stores made of memory, for every size of the cache, its lines and its       *)
(* queue: valid lines, loads and probes are fresh, and the cache with its      *)
(* queue and memory implements AtomicMemory.                                   *)
EXTENDS L1Cache_proofs

\* External writers keep away from memory while a line is being read; with a
\* writer that does not, a fill can install a dword the snoop came too early for.
FillsUndisturbed == ExternalWrites \in {"never", "outside fills"}

\* Memory under the queued stores: what a read of the RAMs must agree with.
Value(a)     == Forward(storeq, a, mem[a])
NextValue(a) == Forward(storeq', a, mem'[a])

\* A valid line that no fill is overwriting agrees with it.
LinesInv ==
    state # "RESET" =>
      \A s \in CacheSet : \A w \in Way : tags[w][s] # None /\ ~Filling(w, s) =>
        \A d \in Word : ways[w][s][d] = Value(Loc(tags[w][s], s, d))

\* So do the words a fill has written, and the line it holds to be written.
FillLoc(d) == Loc(fill.tag, fill.set, d)
FillInv ==
    state = "FILL" =>
      /\ ~req.write /\ fill.tag = req.addr.tag /\ fill.set = req.addr.set
      /\ fill.target = req.addr.word
      /\ \A d \in Word : d < fill.count => ways[fill.way][fill.set][d] = Value(FillLoc(d))
      /\ fill.install => \A d \in Word : fill.line[d] = Value(FillLoc(d))

\* What was read on the last clock agrees with it on this one, the patch of the
\* store that raced the read included, or a writer wrote the dword on that clock.
\* A writer spares the dword of the request the core presents.
ReadFresh(s, d) ==
    \A w \in Way : LET a == Loc(rd.tag[w], s, d)
                   IN  rd.tag[w] # None => WayData(w, s, d) = Value(a) \/ wrote = a
RdInv ==
    /\ \A v, w \in Way : rd.tag[v] # None /\ rd.tag[v] = rd.tag[w] => v = w
    /\ req_valid_r => ReadFresh(req.addr.set, req.addr.word) /\ wrote # req.addr
    /\ probe # None => ReadFresh(probe.set, probe.word)

\* A probe resolves beside an idle cache or a store.
ProbeBeside == state = "IDLE" \/ (state = "LOOKUP" /\ req_valid_r /\ req.write)
ProbeInv    == probe # None => ProbeBeside

\* The load the cache is working on is the one the core waits for.
LoadUnderWay ==
    \/ state = "LOOKUP" /\ ~req.write
    \/ state = "BYPASS"
    \/ state = "FILL" /\ ~fill.install /\ fill.count <= fill.target
AnswerInv ==
    /\ LoadUnderWay => pending = req.addr /\ ~resp.valid
    /\ ~LoadUnderWay => pending = None \/ resp.valid
    /\ resp.valid => pending # None /\ (resp.data = arch[pending] \/ wrote = pending)
    /\ state = "LOOKUP" /\ ~req.write /\ ~req.uncacheable => req_valid_r

DataInv == LinesInv /\ FillInv /\ RdInv /\ ProbeInv /\ AnswerInv
Inv     == TypesInv /\ WaysInv /\ DataInv

-----------------------------------------------------------------------------
\* Memory as the program order of stores defines it is Value under the store in
\* S_LOOKUP.
LEMMA ArchIsValue ==
    ASSUME TypesInv, NEW a \in Addr
    PROVE  /\ Value(a) \in Dword /\ arch[a] \in Dword
           /\ arch[a] = IF storeLookup /\ req.addr = a
                        THEN Merge(Value(a), req.data, req.be) ELSE Value(a)
<1>1. /\ mem \in [Addr -> Dword] /\ arch \in [Addr -> Dword] /\ storeq \in Seq(Slot)
      /\ Forward(Posted, a, mem[a]) = arch[a]
      /\ storeLookup => req \in Store
  BY DEF TypesInv, StoresInv, QueueInv, PostedStoresComplete
<1>2. Value(a) \in Dword /\ arch[a] \in Dword
  BY <1>1, ForwardType DEF Value
<1>3. CASE storeLookup
  <2> DEFINE e == [addr |-> req.addr, data |-> req.data, be |-> req.be]
  <2>1. e \in Slot /\ e.addr = req.addr /\ e.data = req.data /\ e.be = req.be
    BY <1>1, <1>3 DEF Store, Slot
  <2>2. Posted = Append(storeq, e)
    BY <1>3 DEF Posted
  <2> HIDE DEF e
  <2>3. Forward(Append(storeq, e), a, mem[a]) =
          IF e.addr = a THEN Merge(Forward(storeq, a, mem[a]), e.data, e.be)
                        ELSE Forward(storeq, a, mem[a])
    BY <1>1, <2>1, ForwardAppend
  <2> QED BY <1>1, <1>2, <1>3, <2>1, <2>2, <2>3 DEF Value
<1>4. CASE ~storeLookup
  BY <1>1, <1>2, <1>4 DEF Posted, Value
<1> QED BY <1>3, <1>4

\* A clock makes that the next Value, under the write of an external writer.
LEMMA ValueStep ==
    ASSUME TypesInv, NEW bus \in Bus, NEW cpu \in Offered, NEW x \in Written(cpu),
           StoreQueue(bus), Memory(x, bus), NEW a \in Addr
    PROVE  NextValue(a) = IF x # None /\ x.addr = a THEN x.data ELSE arch[a]
<1>1. arch \in [Addr -> Dword] /\ StoresInv
  BY DEF TypesInv, StoresInv
<1>2. NextValue(a) = Committed(arch, x)[a]
  BY <1>1, DrainIsInvisible DEF NextValue
<1>3. Committed(arch, x)[a] = IF x # None /\ x.addr = a THEN x.data ELSE arch[a]
  BY <1>1 DEF Committed
<1> QED BY <1>2, <1>3

\* Where an external write cannot be.
LEMMA WriterKeepsAway ==
    ASSUME FillsUndisturbed, NEW cpu \in Offered, NEW x \in Written(cpu), x # None
    PROVE  /\ x.addr \in Addr /\ x.addr.set = snoop_r
           /\ state # "FILL"
           /\ req_valid_r => x.addr # req.addr
           /\ cpu # None => x.addr # cpu.addr
<1>1. x.addr \in Addr /\ x.addr.set = snoop_r /\ WriterFree(x.addr) /\ ~InFlight(x.addr, cpu)
  BY DEF Written
<1>2. WriterFree(x.addr) => state # "FILL"
  BY DEF WriterFree, FillsUndisturbed
<1> QED BY <1>1, <1>2 DEF InFlight

\* A location is an address, and names its line and its word.
LEMMA LocIs ==
    ASSUME NEW t \in Tag, NEW s \in CacheSet, NEW d \in Word
    PROVE  /\ Loc(t, s, d) \in Addr
           /\ Loc(t, s, d).tag = t /\ Loc(t, s, d).set = s /\ Loc(t, s, d).word = d
           /\ \A a \in Addr : a = Loc(t, s, d) <=> a.tag = t /\ a.set = s /\ a.word = d
BY DEF Loc, Addr

-----------------------------------------------------------------------------
\* Hits.

\* A tag that was read is the tag of the only way that hits it.
LEMMA HitWay ==
    ASSUME RdInv, NEW t, t # None, NEW w \in Way, rd.tag[w] = t
    PROVE  HitWays(t) = {w} /\ Least(HitWays(t)) = w
<1>1. HitWays(t) = {w}
  BY DEF HitWays, RdInv
<1>2. w \in Nat
  BY IndexAssumption
<1>3. Least({w}) = w
  BY <1>2 DEF Least
<1> QED BY <1>1, <1>3

\* A hit in the first cycle of a lookup is on the value the request must see.
LEMMA LookupHitFresh ==
    ASSUME TypesInv, RdInv, req_valid_r, lookup_hit
    PROVE  /\ lookup_way \in Way /\ rd.tag[lookup_way] = req.addr.tag
           /\ lookup_way_data = Value(req.addr)
<1>1. state = "LOOKUP" /\ req.addr \in Addr
  BY DEF TypesInv, StoresInv, QueueInv, StateInv, Load, Store
<1>2. req.addr.tag \in Tag /\ req.addr.set \in CacheSet /\ req.addr.word \in Word
  BY <1>1 DEF Addr
<1>3. PICK w \in Way : rd.tag[w] = req.addr.tag
  BY DEF lookup_hit, HitWays
<1>4. lookup_way = w
  BY <1>2, <1>3, HitWay, NoneAssumption DEF lookup_way
<1>5. Loc(rd.tag[w], req.addr.set, req.addr.word) = req.addr
  BY <1>1, <1>2, <1>3, LocIs
<1>6. WayData(w, req.addr.set, req.addr.word) = Value(req.addr)
  BY <1>2, <1>3, <1>5, NoneAssumption DEF RdInv, ReadFresh
<1> QED BY <1>3, <1>4, <1>6 DEF lookup_way_data

\* A store whose line is valid patches that line, and only a store of that line
\* patches it.
LEMMA StorePatchesItsLine ==
    ASSUME TypesInv, WaysInv, RdInv, NEW bus \in Bus, DataRams(bus), state # "FILL",
           NEW w \in Way, NEW s \in CacheSet, NEW d \in Word, tags[w][s] # None
    PROVE  LET a == Loc(tags[w][s], s, d)
           IN  ways'[w][s][d] = IF storeLookup /\ req.addr = a
                                THEN Merge(Value(a), req.data, req.be) ELSE ways[w][s][d]
<1> DEFINE a == Loc(tags[w][s], s, d)
           v == Merge(lookup_way_data, req.data, req.be)
<1>1. /\ ways \in [Way -> [CacheSet -> [Word -> Dword]]]
      /\ tags[w][s] \in Tag
      /\ a \in Addr /\ a.tag = tags[w][s] /\ a.set = s /\ a.word = d
      /\ \A b \in Addr : b = a <=> b.tag = tags[w][s] /\ b.set = s /\ b.word = d
  BY LocIs DEF TypesInv, TypeOK
<1>2. ~data_fill_write(bus)
  BY DEF data_fill_write
<1>3. CASE ~data_store_write
  <2>1. ways' = ways
    BY <1>2, <1>3 DEF DataRams
  <2>2. ASSUME storeLookup, req.addr = a PROVE FALSE
    <3>1. rd.tag[w] = req.addr.tag
      BY <1>1, <2>2 DEF storeLookup, WaysInv
    <3> QED BY <1>3, <2>2, <3>1 DEF data_store_write, lookup_hit, HitWays
  <2> QED BY <2>1, <2>2
<1>4. CASE data_store_write
  <2>1. /\ storeLookup /\ state = "LOOKUP" /\ req_valid_r /\ lookup_hit
    BY <1>4 DEF data_store_write, storeLookup
  <2>2. /\ lookup_way \in Way /\ rd.tag[lookup_way] = req.addr.tag
        /\ lookup_way_data = Value(req.addr)
    BY <2>1, LookupHitFresh
  <2>3. req.addr \in Addr /\ req.addr.tag \in Tag
    BY <2>1 DEF TypesInv, StoresInv, QueueInv, Store, Addr
  <2>4. ways' = [ways EXCEPT ![lookup_way][req.addr.set][req.addr.word] = v]
    BY <1>2, <1>4 DEF DataRams
  <2> HIDE DEF v
  <2>5. ways'[w][s][d] = IF w = lookup_way /\ s = req.addr.set /\ d = req.addr.word
                         THEN v ELSE ways[w][s][d]
    BY <1>1, <2>2, <2>3, <2>4 DEF Addr
  <2>6. s = req.addr.set => tags[w][s] = rd.tag[w]
    BY <1>1, <2>1, NoneAssumption DEF WaysInv
  <2>7. s = req.addr.set => (w = lookup_way <=> tags[w][s] = req.addr.tag)
    <3>1. s = req.addr.set /\ w = lookup_way => tags[w][s] = req.addr.tag
      BY <2>2, <2>6
    <3>2. ASSUME s = req.addr.set, tags[w][s] = req.addr.tag PROVE w = lookup_way
      <4>1. rd.tag[w] = req.addr.tag
        BY <2>6, <3>2
      <4> QED BY <2>3, <4>1, HitWay, NoneAssumption DEF lookup_way
    <3> QED BY <3>1, <3>2
  <2>8. (w = lookup_way /\ s = req.addr.set /\ d = req.addr.word) <=> req.addr = a
    BY <1>1, <2>3, <2>7
  <2>9. req.addr = a => v = Merge(Value(a), req.data, req.be)
    BY <2>2 DEF v
  <2> HIDE DEF a
  <2> QED BY <2>1, <2>5, <2>8, <2>9 DEF a
<1> QED BY <1>3, <1>4

\* So a valid line that no fill touches comes to hold what the core's stores
\* made of memory.
LEMMA LineAfter ==
    ASSUME Inv, NEW bus \in Bus, DataRams(bus), state \notin {"RESET", "FILL"},
           NEW w \in Way, NEW s \in CacheSet, NEW d \in Word, tags[w][s] # None
    PROVE  ways'[w][s][d] = arch[Loc(tags[w][s], s, d)]
<1> DEFINE a == Loc(tags[w][s], s, d)
<1>1. a \in Addr
  BY LocIs DEF Inv, TypesInv, TypeOK
<1>2. ways[w][s][d] = Value(a)
  BY DEF Inv, DataInv, LinesInv, Filling
<1>3. ways'[w][s][d] = IF storeLookup /\ req.addr = a
                       THEN Merge(Value(a), req.data, req.be) ELSE ways[w][s][d]
  BY StorePatchesItsLine DEF Inv, DataInv
<1> HIDE DEF a
<1>4. ways'[w][s][d] = arch[a]
  BY <1>1, <1>2, <1>3, ArchIsValue DEF Inv
<1> QED BY <1>4 DEF a

-----------------------------------------------------------------------------
\* Fills.

\* A clock of a fill writes the word it has, if any, and ends with the last one.
LEMMA FillStep ==
    ASSUME TypesInv, NEW bus \in Bus, NEW cpu \in Offered, Machine(cpu, bus), state = "FILL"
    PROVE  /\ cpu = None
           /\ tagFillWrite(bus) => state' = "IDLE"
           /\ ~tagFillWrite(bus) =>
                /\ state' = "FILL" /\ req' = req
                /\ fill'.way = fill.way /\ fill'.set = fill.set
                /\ fill'.tag = fill.tag /\ fill'.target = fill.target
                /\ data_fill_write(bus) => fill'.count = fill.count + 1
                /\ ~data_fill_write(bus) => fill'.count = fill.count
                /\ fill'.install =>
                     \/ fill.install /\ fill'.line = fill.line
                     \/ ~fill.install /\ bus.resp = "line" /\ fill'.line = wideLine
<1>1. fill \in FillRecord
  BY DEF TypesInv, StateInv
<1>2. bus.resp # "none" => ~fill.install
  BY DEF TypesInv, ReadInStep, Bus
<1>3. FillWait(cpu, bus) \/ FillBeat(cpu, bus) \/ FillLine(cpu, bus) \/ FillInstall(cpu, bus)
  BY DEF Machine, ResetInit, Idle, LookupProtected, LookupStore, LookupUncached, LookupHit,
         LookupMiss, BypassWait
<1>4. CASE FillWait(cpu, bus)
  <2>1. /\ cpu = None /\ state' = state /\ req' = req /\ bus.resp = "none" /\ ~fill.install
        /\ fill' = [fill EXCEPT !.requested = fill.requested \/ fillIssue(bus)]
    BY <1>4 DEF FillWait
  <2>2. ~tagFillWrite(bus) /\ ~data_fill_write(bus)
    BY <2>1 DEF tagFillWrite, data_fill_write
  <2>3. /\ fill'.way = fill.way /\ fill'.set = fill.set /\ fill'.tag = fill.tag
        /\ fill'.target = fill.target /\ fill'.count = fill.count /\ fill'.install = fill.install
    BY <1>1, <2>1 DEF FillRecord
  <2> QED BY <2>1, <2>2, <2>3
<1>5. ASSUME NEW line, NextFillWord(bus, line), data_fill_write(bus), cpu = None,
             fill.install => line = fill.line
      PROVE  /\ tagFillWrite(bus) => state' = "IDLE"
             /\ ~tagFillWrite(bus) =>
                  /\ state' = "FILL" /\ req' = req
                  /\ fill'.way = fill.way /\ fill'.set = fill.set
                  /\ fill'.tag = fill.tag /\ fill'.target = fill.target
                  /\ fill'.count = fill.count + 1
                  /\ fill'.install = fill.install /\ (fill.install => fill'.line = fill.line)
  <2>1. tagFillWrite(bus) <=> fill.count = LastWord
    BY <1>5 DEF tagFillWrite, data_fill_write
  <2>2. CASE fill.count = LastWord
    BY <1>5, <2>1, <2>2 DEF NextFillWord, Retire
  <2>3. CASE fill.count # LastWord
    <3>1. /\ fill' = [fill EXCEPT !.count = fill.count + 1, !.line = line]
          /\ state' = state /\ req' = req
      BY <1>5, <2>3 DEF NextFillWord
    <3>2. /\ fill'.way = fill.way /\ fill'.set = fill.set /\ fill'.tag = fill.tag
          /\ fill'.target = fill.target /\ fill'.count = fill.count + 1
          /\ fill'.install = fill.install /\ fill'.line = line
      BY <1>1, <3>1 DEF FillRecord
    <3> QED BY <1>5, <2>1, <2>3, <3>1, <3>2
  <2> QED BY <2>2, <2>3
<1>6. CASE FillBeat(cpu, bus)
  <2>1. NextFillWord(bus, None) /\ bus.resp = "beat" /\ ~fill.install /\ cpu = None
    BY <1>6 DEF FillBeat
  <2>2. data_fill_write(bus)
    BY <2>1 DEF data_fill_write
  <2> QED BY <1>5, <2>1, <2>2
<1>7. CASE FillInstall(cpu, bus)
  <2>1. NextFillWord(bus, fill.line) /\ fill.install /\ cpu = None
    BY <1>7 DEF FillInstall
  <2>2. data_fill_write(bus)
    BY <2>1 DEF data_fill_write
  <2> QED BY <1>5, <2>1, <2>2
<1>8. CASE FillLine(cpu, bus)
  <2>1. /\ cpu = None /\ state' = state /\ req' = req /\ bus.resp = "line" /\ ~fill.install
        /\ fill' = [fill EXCEPT !.install = TRUE, !.line = wideLine]
    BY <1>8 DEF FillLine
  <2>2. ~tagFillWrite(bus) /\ ~data_fill_write(bus)
    BY <2>1 DEF tagFillWrite, data_fill_write
  <2>3. /\ fill'.way = fill.way /\ fill'.set = fill.set /\ fill'.tag = fill.tag
        /\ fill'.target = fill.target /\ fill'.count = fill.count
        /\ fill'.install = TRUE /\ fill'.line = wideLine
    BY <1>1, <2>1 DEF FillRecord
  <2> QED BY <2>1, <2>2, <2>3
<1> QED BY <1>3, <1>4, <1>6, <1>7, <1>8

\* What the bus returns for a fill, with the queued stores over it, is the value
\* of the dword the fill takes it for.
LEMMA FillDataFresh ==
    ASSUME TypesInv, FillInv, state = "FILL", reading.left > 0
    PROVE  /\ fillWord = Value(FillLoc(fill.count))
           /\ \A d \in Word : wideLine[d] = Value(FillLoc(d))
           /\ \A d \in Word : [req.addr EXCEPT !.word = d] = FillLoc(d)
<1>1. /\ req.addr \in Addr /\ fill.count \in Word
      /\ fill.tag = req.addr.tag /\ fill.set = req.addr.set
  BY DEF TypesInv, StateInv, Load, Store, FillRecord, FillInv
<1>2. \A d \in Word : [req.addr EXCEPT !.word = d] = FillLoc(d)
  BY <1>1 DEF FillLoc, Loc, Addr
<1>3. reading.addr = FillLoc(fill.count) /\ fill_addr_dw = FillLoc(fill.count)
  BY <1>1, <1>2 DEF TypesInv, ReadInStep, fill_addr_dw
<1>4. \A d \in Word : [reading.addr EXCEPT !.word = d] = FillLoc(d)
  BY <1>3 DEF FillLoc, Loc
<1>5. fillWord = Value(FillLoc(fill.count))
  BY <1>3 DEF fillWord, mem_dout, Value
<1>6. \A d \in Word : wideLine[d] = Value(FillLoc(d))
  BY <1>2, <1>4 DEF wideLine, Value
<1> QED BY <1>2, <1>5, <1>6

\* The data RAMs change in the word the fill writes, to its value.
LEMMA FillWrites ==
    ASSUME TypesInv, FillInv, NEW bus \in Bus, DataRams(bus), state = "FILL",
           NEW w \in Way, NEW s \in CacheSet, NEW d \in Word
    PROVE  ways'[w][s][d] = IF data_fill_write(bus) /\ Filling(w, s) /\ d = fill.count
                            THEN Value(FillLoc(d)) ELSE ways[w][s][d]
<1>1. /\ ways \in [Way -> [CacheSet -> [Word -> Dword]]]
      /\ fill \in FillRecord
  BY DEF TypesInv, TypeOK, StateInv
<1>2. ~data_store_write
  BY DEF data_store_write, storeLookup
<1>3. CASE data_fill_write(bus)
  <2> DEFINE v == IF fill.install THEN fill.line[fill.count] ELSE fillWord
  <2>1. ways' = [ways EXCEPT ![fill.way][fill.set][fill.count] = v]
    BY <1>2, <1>3 DEF DataRams
  <2>2. v = Value(FillLoc(fill.count))
    <3>1. CASE fill.install
      BY <1>1, <3>1 DEF FillInv, FillRecord
    <3>2. CASE ~fill.install
      <4>1. reading.left > 0
        BY <1>3, <3>2 DEF data_fill_write, Bus
      <4> QED BY <3>2, <4>1, FillDataFresh
    <3> QED BY <3>1, <3>2
  <2> HIDE DEF v
  <2>3. ways'[w][s][d] = IF w = fill.way /\ s = fill.set /\ d = fill.count
                         THEN v ELSE ways[w][s][d]
    BY <1>1, <2>1 DEF FillRecord
  <2> QED BY <1>3, <2>2, <2>3 DEF Filling
<1>4. CASE ~data_fill_write(bus)
  BY <1>2, <1>4 DEF DataRams
<1> QED BY <1>3, <1>4

-----------------------------------------------------------------------------
\* Lines stay fresh.

\* No writer writes while a fill runs, so its clocks leave Value alone.
LEMMA FillKeepsValue ==
    ASSUME FillsUndisturbed, TypesInv, NEW bus \in Bus, NEW cpu \in Offered,
           NEW x \in Written(cpu), StoreQueue(bus), Memory(x, bus), state = "FILL",
           NEW a \in Addr
    PROVE  NextValue(a) = Value(a) /\ arch[a] = Value(a) /\ x = None
<1>1. x = None
  BY WriterKeepsAway
<1>2. arch[a] = Value(a)
  BY ArchIsValue DEF storeLookup
<1> QED BY <1>1, <1>2, ValueStep

\* The end of a fill makes a line of the words it wrote.
LEMMA LinesInvStep ==
    ASSUME FillsUndisturbed, Inv, NEW bus \in Bus, NEW cpu \in Offered, NEW x \in Written(cpu),
           Machine(cpu, bus), StoreQueue(bus), Memory(x, bus), TagRams(bus), DataRams(bus)
    PROVE  LinesInv'
<1> SUFFICES ASSUME state' # "RESET", NEW s \in CacheSet, NEW w \in Way,
                    tags'[w][s] # None, ~Filling(w, s)', NEW d \in Word
             PROVE  ways'[w][s][d] = NextValue(Loc(tags'[w][s], s, d))
  BY DEF LinesInv, Value, NextValue, Loc
<1> DEFINE a == Loc(tags'[w][s], s, d)
<1>1. TypesInv /\ WaysInv /\ LinesInv /\ FillInv /\ tags \in [Way -> [CacheSet -> Tag \cup {None}]]
  BY DEF Inv, DataInv, TypesInv, TypeOK
<1>2. \/ tags'[w][s] = tags[w][s]
      \/ tagFillWrite(bus) /\ w = fill.way /\ s = fill.set /\ tags'[w][s] = fill.tag
  BY <1>1, TagStep
<1>3. state = "FILL" => fill \in FillRecord
  BY <1>1 DEF TypesInv, StateInv
<1>4. tags'[w][s] \in Tag
  BY <1>1, <1>2, <1>3 DEF FillRecord, tagFillWrite
<1>5. a \in Addr /\ a.set = s
  BY <1>4, LocIs
<1>6. CASE state = "RESET"
  <2>1. init_set = LastSet
    BY <1>6 DEF Machine, ResetInit, Idle, LookupProtected, LookupStore, LookupUncached, LookupHit,
                LookupMiss, FillWait, FillBeat, FillLine, FillInstall, BypassWait
  <2>2. s <= init_set
    BY <2>1, IndexAssumption DEF CacheSet
  <2> QED BY <1>1, <1>6, <2>2, ResetClears
<1>7. CASE state = "FILL"
  <2>1. NextValue(a) = Value(a)
    BY <1>1, <1>5, <1>7, FillKeepsValue
  <2>2. ways'[w][s][d] = IF data_fill_write(bus) /\ Filling(w, s) /\ d = fill.count
                         THEN Value(FillLoc(d)) ELSE ways[w][s][d]
    BY <1>1, <1>7, FillWrites
  <2>3. CASE tagFillWrite(bus) /\ w = fill.way /\ s = fill.set
    <3>0. tags'[w][s] = fill.tag
      <4>1. tags'[w] = [tags[w] EXCEPT ![fill.set] = fill.tag]
        BY <2>3 DEF TagRams
      <4> QED BY <1>1, <2>3, <4>1
    <3>1. /\ Filling(w, s) /\ data_fill_write(bus) /\ fill.count = LastWord
          /\ a = FillLoc(d)
      BY <1>7, <2>3, <3>0 DEF Filling, tagFillWrite, data_fill_write, FillLoc
    <3>2. d # fill.count => d < fill.count
      BY <3>1, IndexAssumption DEF Word
    <3>3. ways'[w][s][d] = Value(FillLoc(d))
      BY <1>1, <1>7, <2>2, <2>3, <3>1, <3>2 DEF FillInv
    <3> QED BY <2>1, <3>1, <3>3
  <2>4. CASE ~(tagFillWrite(bus) /\ w = fill.way /\ s = fill.set)
    <3>1. tags'[w][s] = tags[w][s]
      BY <1>2, <2>4
    <3>2. ~Filling(w, s)
      <4>1. ASSUME Filling(w, s) PROVE ~tagFillWrite(bus) => Filling(w, s)'
        BY <1>1, <1>7, <4>1, FillStep DEF Filling
      <4> QED BY <2>4, <4>1 DEF Filling
    <3>3. ways[w][s][d] = Value(a)
      BY <1>1, <1>7, <3>1, <3>2 DEF LinesInv
    <3>4. ways'[w][s][d] = ways[w][s][d]
      BY <2>2, <3>2
    <3> HIDE DEF a
    <3>5. ways'[w][s][d] = NextValue(a)
      BY <2>1, <3>3, <3>4
    <3> QED BY <3>5 DEF a
  <2> QED BY <2>3, <2>4
<1>8. CASE state \notin {"RESET", "FILL"}
  <2>1. ~tagFillWrite(bus) /\ tags'[w][s] = tags[w][s]
    BY <1>2, <1>8 DEF tagFillWrite
  <2>2. ways'[w][s][d] = arch[a]
    BY <1>8, <2>1, LineAfter
  <2>3. s # snoop_r
    <3>1. tags'[w] = [r \in CacheSet |-> IF r = snoop_r THEN None ELSE tags[w][r]]
      BY <1>8, <2>1 DEF TagRams
    <3> QED BY <3>1
  <2>4. ~(x # None /\ x.addr = a)
    BY <1>5, <2>3, WriterKeepsAway
  <2>5. NextValue(a) = arch[a]
    BY <1>1, <1>5, <2>4, ValueStep
  <2> QED BY <2>2, <2>5
<1> QED BY <1>6, <1>7, <1>8

\* A fill goes on writing, and holding, the values of its line.
LEMMA FillInvStep ==
    ASSUME FillsUndisturbed, Inv, NEW bus \in Bus, NEW cpu \in Offered, NEW x \in Written(cpu),
           Machine(cpu, bus), StoreQueue(bus), Memory(x, bus), DataRams(bus)
    PROVE  FillInv'
<1> SUFFICES ASSUME state' = "FILL" PROVE FillInv'
  BY DEF FillInv
<1>1. TypesInv /\ FillInv
  BY DEF Inv, DataInv
<1>2. CASE state = "FILL"
  <2>1. fill \in FillRecord /\ fill.count \in Word /\ req.addr \in Addr
    BY <1>1, <1>2 DEF TypesInv, StateInv, FillRecord, Load, Store
  <2>2. /\ req' = req /\ fill'.way = fill.way /\ fill'.set = fill.set
        /\ fill'.tag = fill.tag /\ fill'.target = fill.target
        /\ data_fill_write(bus) => fill'.count = fill.count + 1
        /\ ~data_fill_write(bus) => fill'.count = fill.count
        /\ fill'.install =>
             \/ fill.install /\ fill'.line = fill.line
             \/ ~fill.install /\ bus.resp = "line" /\ fill'.line = wideLine
    BY <1>1, <1>2, FillStep
  <2>3. ASSUME NEW d \in Word PROVE Value(FillLoc(d))' = Value(FillLoc(d))
    <3>1. FillLoc(d) \in Addr
      BY <2>1, LocIs DEF FillLoc, FillRecord
    <3>2. Value(FillLoc(d))' = NextValue(FillLoc(d))
      BY <2>2 DEF Value, NextValue, FillLoc, Loc
    <3> QED BY <1>1, <1>2, <3>1, <3>2, FillKeepsValue
  <2>4. ASSUME NEW d \in Word, d < fill'.count
        PROVE  ways'[fill'.way][fill'.set][d] = Value(FillLoc(d))'
    <3>1. /\ Filling(fill.way, fill.set) /\ fill.way \in Way /\ fill.set \in CacheSet
      BY <1>2, <2>1 DEF Filling, FillRecord
    <3>2. ways'[fill.way][fill.set][d] =
            IF data_fill_write(bus) /\ d = fill.count
            THEN Value(FillLoc(d)) ELSE ways[fill.way][fill.set][d]
      BY <1>1, <1>2, <3>1, FillWrites
    <3>3. ~(data_fill_write(bus) /\ d = fill.count) => d < fill.count
      BY <2>1, <2>2, <2>4, IndexAssumption DEF Word
    <3>4. ways'[fill.way][fill.set][d] = Value(FillLoc(d))
      BY <1>1, <1>2, <3>2, <3>3 DEF FillInv
    <3> QED BY <2>2, <2>3, <3>4
  <2>5. ASSUME fill'.install, NEW d \in Word PROVE fill'.line[d] = Value(FillLoc(d))'
    <3>1. CASE fill.install /\ fill'.line = fill.line
      BY <1>1, <1>2, <2>3, <3>1 DEF FillInv
    <3>2. CASE ~fill.install /\ bus.resp = "line" /\ fill'.line = wideLine
      <4>1. reading.left > 0
        BY <3>2 DEF Bus
      <4> QED BY <1>1, <1>2, <2>3, <3>2, <4>1, FillDataFresh
    <3> QED BY <2>2, <2>5, <3>1, <3>2
  <2> QED BY <1>1, <1>2, <2>2, <2>4, <2>5 DEF FillInv
<1>3. CASE state # "FILL"
  <2>1. LookupMiss(cpu)
    BY <1>3 DEF Machine, ResetInit, Idle, LookupProtected, LookupStore, LookupUncached, LookupHit,
                FillWait, FillBeat, FillLine, FillInstall, BypassWait, Retire
  <2>2. /\ ~req.write /\ req' = req /\ fill'.tag = req.addr.tag /\ fill'.set = req.addr.set
        /\ fill'.target = req.addr.word /\ fill'.count = 0 /\ fill'.install = FALSE
    BY <2>1 DEF LookupMiss
  <2>3. \A d \in Word : ~(d < 0)
    BY IndexAssumption DEF Word
  <2> QED BY <2>2, <2>3 DEF FillInv
<1> QED BY <1>2, <1>3

-----------------------------------------------------------------------------
\* Reads stay fresh.

\* What the core presents is what S_LOOKUP works on next, and the RAMs are read
\* outside resets and fills only.
LEMMA Accepted ==
    ASSUME TypesInv, NEW bus \in Bus, NEW cpu \in Offered, NEW p \in ProbeTaken(cpu),
           Machine(cpu, bus)
    PROVE  /\ req_valid_r' => cpu # None /\ req' = cpu
           /\ cpu # None => state \in {"IDLE", "LOOKUP"} /\ cpu.addr \in Addr
           /\ p # None => state \in {"IDLE", "LOOKUP"} /\ p \in [set : CacheSet, word : Word]
           /\ cpu # None /\ p # None => p.set = cpu.addr.set /\ p.word = cpu.addr.word
<1>1. cpu # None => state \in {"IDLE", "LOOKUP"} /\ cpu.addr \in Addr
  BY OfferedType DEF Machine, ResetInit, Idle, LookupProtected, LookupStore, LookupUncached,
         LookupHit, LookupMiss, FillWait, FillBeat, FillLine, FillInstall, BypassWait
<1>2. req_valid_r => state = "LOOKUP"
  BY DEF TypesInv, StoresInv, QueueInv
<1>3. req_valid_r' => cpu # None /\ req' = cpu
  BY <1>2 DEF Machine, ResetInit, Idle, LookupProtected, LookupStore, LookupUncached, LookupHit,
         LookupMiss, FillWait, FillBeat, FillLine, FillInstall, BypassWait, NextFillWord, Retire
<1>4. p # None => state \in {"IDLE", "LOOKUP"} /\ p \in [set : CacheSet, word : Word]
  BY DEF ProbeTaken, idle_preread, storeLookup
<1>5. cpu # None /\ p # None => p.set = cpu.addr.set /\ p.word = cpu.addr.word
  BY DEF ProbeTaken
<1> QED BY <1>1, <1>3, <1>4, <1>5

\* The patch register makes up for the store that the read raced.
LEMMA PatchMakesUp ==
    ASSUME TypesInv, RdInv, NEW bus \in Bus, DataRams(bus), PatchForward, state # "FILL",
           NEW s \in CacheSet, NEW d \in Word,
           rd'.data = [w \in Way |-> ways[w][s][d]],
           NEW w \in Way
    PROVE  WayData(w, s, d)' = ways'[w][s][d]
<1>1. /\ ways \in [Way -> [CacheSet -> [Word -> Dword]]]
      /\ rd'.data[w] = ways[w][s][d] /\ ~data_fill_write(bus)
  BY DEF TypesInv, TypeOK, data_fill_write
<1>2. CASE data_store_write
  <2> DEFINE v == Merge(lookup_way_data, req.data, req.be)
  <2>1. /\ lookup_way \in Way /\ req.addr.set \in CacheSet /\ req.addr.word \in Word
    BY <1>2, PatchedDword
  <2>2. ways' = [ways EXCEPT ![lookup_way][req.addr.set][req.addr.word] = v]
    BY <1>1, <1>2 DEF DataRams
  <2>3. patch_fwd' = [valid |-> TRUE, way |-> lookup_way, set |-> req.addr.set,
                      word |-> req.addr.word, data |-> v]
    BY <1>2 DEF PatchForward
  <2>4. /\ patch_fwd'.valid /\ patch_fwd'.way = lookup_way /\ patch_fwd'.set = req.addr.set
        /\ patch_fwd'.word = req.addr.word /\ patch_fwd'.data = v
    BY <2>3
  <2> HIDE DEF v
  <2>5. ways'[w][s][d] = IF w = lookup_way /\ s = req.addr.set /\ d = req.addr.word
                         THEN v ELSE ways[w][s][d]
    BY <1>1, <2>1, <2>2
  <2> QED BY <1>1, <2>4, <2>5 DEF WayData
<1>3. CASE ~data_store_write
  <2>1. ways' = ways /\ patch_fwd' = NoPatch
    BY <1>1, <1>3 DEF DataRams, PatchForward
  <2>2. ~NoPatch.valid
    BY DEF NoPatch
  <2> QED BY <1>1, <2>1, <2>2 DEF WayData
<1> QED BY <1>2, <1>3

\* A read of a valid line reads its value, or what it was before an external
\* write of the same clock.
LEMMA PrereadFresh ==
    ASSUME Inv, NEW bus \in Bus, NEW cpu \in Offered, NEW x \in Written(cpu),
           StoreQueue(bus), Memory(x, bus), DataRams(bus), PatchForward, History(cpu, x),
           state \notin {"RESET", "FILL"}, NEW s \in CacheSet, NEW d \in Word,
           rd' = [tag  |-> [w \in Way |-> tags[w][s]],
                  data |-> [w \in Way |-> ways[w][s][d]]]
    PROVE  ReadFresh(s, d)'
<1> SUFFICES ASSUME NEW w \in Way, rd'.tag[w] # None
             PROVE  \/ WayData(w, s, d)' = NextValue(Loc(rd'.tag[w], s, d))
                    \/ wrote' = Loc(rd'.tag[w], s, d)
  BY DEF ReadFresh, Value, NextValue, Loc
<1> DEFINE a == Loc(tags[w][s], s, d)
<1>1. rd'.tag[w] = tags[w][s] /\ tags[w][s] # None
      /\ rd'.data = [v \in Way |-> ways[v][s][d]]
  OBVIOUS
<1>2. TypesInv /\ RdInv /\ a \in Addr
  <2>1. TypesInv /\ RdInv /\ tags \in [Way -> [CacheSet -> Tag \cup {None}]]
    BY DEF Inv, DataInv, TypesInv, TypeOK
  <2>2. tags[w][s] \in Tag
    BY <1>1, <2>1
  <2> QED BY <2>1, <2>2, LocIs
<1>3. WayData(w, s, d)' = ways'[w][s][d]
  BY <1>1, <1>2, PatchMakesUp
<1>4. ways'[w][s][d] = arch[a]
  BY <1>1, LineAfter
<1>5. NextValue(a) = IF x # None /\ x.addr = a THEN x.data ELSE arch[a]
  BY <1>2, ValueStep
<1>6. x # None => wrote' = x.addr
  BY DEF History
<1> HIDE DEF a
<1>7. WayData(w, s, d)' = NextValue(a) \/ wrote' = a
  BY <1>3, <1>4, <1>5, <1>6
<1> QED BY <1>1, <1>7 DEF a

\* A probe is launched on the clock on which the cache idles, beside nothing or beside the store
\* whose read it shares, or on which a store leaves S_LOOKUP with nothing behind it.
LEMMA ProbeInvStep ==
    ASSUME TypesInv, NEW bus \in Bus, NEW cpu \in Offered, NEW p \in ProbeTaken(cpu),
           Machine(cpu, bus), probe' = p
    PROVE  ProbeInv'
<1> SUFFICES ASSUME p # None
             PROVE  state' = "IDLE" \/ (state' = "LOOKUP" /\ req_valid_r' /\ req'.write)
  BY DEF ProbeInv, ProbeBeside
<1>1. CASE state = "IDLE"
  <2>1. Idle(cpu, bus)
    BY <1>1 DEF Machine, ResetInit, LookupProtected, LookupStore, LookupUncached,
           LookupHit, LookupMiss, FillWait, FillBeat, FillLine, FillInstall, BypassWait
  <2>2. cpu # None => cpu.write
    BY <1>1 DEF ProbeTaken, storeLookup
  <2> QED BY <2>1, <2>2 DEF Idle, Retire
<1>2. CASE state # "IDLE"
  <2>1. cpu = None /\ storeLookup
    BY <1>2 DEF ProbeTaken, idle_preread
  <2>2. LookupStore(cpu, bus)
    BY <2>1 DEF storeLookup, Machine, ResetInit, Idle, LookupProtected, LookupUncached,
           LookupHit, LookupMiss, FillWait, FillBeat, FillLine, FillInstall, BypassWait
  <2> QED BY <2>1, <2>2 DEF LookupStore, Retire
<1> QED BY <1>1, <1>2

LEMMA RdInvStep ==
    ASSUME FillsUndisturbed, Inv, NEW bus \in Bus, NEW cpu \in Offered,
           NEW p \in ProbeTaken(cpu), NEW x \in Written(cpu),
           Machine(cpu, bus), StoreQueue(bus), Memory(x, bus), DataRams(bus), PatchForward,
           Preread(cpu, p), probe' = p, History(cpu, x)
    PROVE  RdInv'
<1>1. TypesInv /\ WaysInv /\ RdInv
  BY DEF Inv, DataInv
<1>2. /\ req_valid_r' => cpu # None /\ req' = cpu
      /\ cpu # None => state \in {"IDLE", "LOOKUP"} /\ cpu.addr \in Addr
      /\ p # None => state \in {"IDLE", "LOOKUP"} /\ p \in [set : CacheSet, word : Word]
      /\ cpu # None /\ p # None => p.set = cpu.addr.set /\ p.word = cpu.addr.word
  BY <1>1, Accepted
<1> DEFINE RdOf(s, d) == [tag  |-> [w \in Way |-> tags[w][s]],
                          data |-> [w \in Way |-> ways[w][s][d]]]
<1>3. /\ p # None => rd' = RdOf(p.set, p.word)
      /\ cpu # None /\ p = None => rd' = RdOf(cpu.addr.set, cpu.addr.word)
      /\ cpu = None /\ p = None => rd' \in {rd, NoRd}
  BY DEF Preread
<1>4. ASSUME NEW s \in CacheSet, NEW d \in Word, state \in {"IDLE", "LOOKUP"}, rd' = RdOf(s, d)
      PROVE  /\ \A v, w \in Way : rd'.tag[v] # None /\ rd'.tag[v] = rd'.tag[w] => v = w
             /\ ReadFresh(s, d)'
  <2>1. \A w \in Way : rd'.tag[w] = tags[w][s]
    BY <1>4
  <2>2. \A v, w \in Way : rd'.tag[v] # None /\ rd'.tag[v] = rd'.tag[w] => v = w
    BY <1>1, <1>4, <2>1 DEF WaysInv, OneWayPerLine
  <2>3. ReadFresh(s, d)'
    BY <1>4, PrereadFresh
  <2> QED BY <2>2, <2>3
<1>5. cpu # None => cpu.addr.set \in CacheSet /\ cpu.addr.word \in Word
  BY <1>2 DEF Addr
<1>6. \A v, w \in Way : rd'.tag[v] # None /\ rd'.tag[v] = rd'.tag[w] => v = w
  <2>1. CASE cpu = None /\ p = None
    BY <1>1, <1>3, <2>1 DEF RdInv, NoRd
  <2>2. CASE p # None
    BY <1>2, <1>3, <1>4, <2>2
  <2>3. CASE cpu # None /\ p = None
    BY <1>2, <1>3, <1>4, <1>5, <2>3
  <2> QED BY <2>1, <2>2, <2>3
<1>7. ASSUME req_valid_r'
      PROVE  ReadFresh(req.addr.set, req.addr.word)' /\ wrote' # req'.addr
  <2>1. cpu # None /\ req' = cpu /\ state \in {"IDLE", "LOOKUP"} /\ cpu.addr \in Addr
    BY <1>2, <1>7
  <2> DEFINE s == cpu.addr.set
             d == cpu.addr.word
  <2>2. rd' = RdOf(s, d)
    BY <1>2, <1>3, <2>1
  <2>3. s \in CacheSet /\ d \in Word
    BY <1>5, <2>1
  <2>4. ReadFresh(s, d)'
    BY <1>4, <2>1, <2>2, <2>3
  <2>5. wrote' # cpu.addr
    BY <2>1, WriterKeepsAway, NoneAssumption DEF History
  <2>6. ReadFresh(req.addr.set, req.addr.word)'
    BY <2>1, <2>4 DEF ReadFresh, WayData, Value, Loc
  <2> QED BY <2>1, <2>5, <2>6
<1>8. ASSUME probe' # None PROVE ReadFresh(probe.set, probe.word)'
  <2>1. p # None
    BY <1>8
  <2>2. ReadFresh(p.set, p.word)'
    BY <1>2, <1>3, <1>4, <2>1
  <2> QED BY <2>2 DEF ReadFresh, WayData, Value, Loc
<1> QED BY <1>6, <1>7, <1>8 DEF RdInv

-----------------------------------------------------------------------------
\* The core gets one answer, to the load it waits for.

\* An answer the bus brings is the value of its dword, unless a writer writes
\* that dword on the same clock.
LEMMA BusAnswer ==
    ASSUME TypesInv, NEW x, History(None, x), state \in {"FILL", "BYPASS"},
           LoadUnderWay, AnswerInv, req.addr \in Addr, resp'.data = Value(req.addr)
    PROVE  /\ pending' = req.addr /\ pending' # None
           /\ resp'.data = arch'[pending'] \/ wrote' = pending'
<1>1. pending = req.addr /\ ~cpu_resp_valid
  BY DEF AnswerInv, cpu_resp_valid, lookup_read_hit_now
<1>2. pending' = req.addr /\ pending' # None
  BY <1>1, NoneAssumption DEF History
<1>3. arch \in [Addr -> Dword] /\ arch[req.addr] = Value(req.addr)
  BY ArchIsValue DEF TypesInv, StoresInv, storeLookup
<1>4. arch' = IF x = None THEN arch ELSE [arch EXCEPT ![x.addr] = x.data]
  BY DEF History
<1>5. arch'[req.addr] = arch[req.addr] \/ (x # None /\ x.addr = req.addr)
  BY <1>3, <1>4
<1>6. x # None => wrote' = x.addr
  BY DEF History
<1> QED BY <1>2, <1>3, <1>5, <1>6

\* A load is under way from the clock it is taken on to the one it is answered on.
LEMMA AnswerInvStep ==
    ASSUME Inv, NEW bus \in Bus, NEW cpu \in Offered, NEW x,
           Machine(cpu, bus), History(cpu, x)
    PROVE  AnswerInv'
<1>1. TypesInv /\ FillInv /\ AnswerInv
  BY DEF Inv, DataInv
<1>2. pending' = IF cpu # None /\ ~cpu.write THEN cpu.addr
                 ELSE IF cpu_resp_valid THEN None ELSE pending
  BY DEF History
<1>3. cpu_resp_valid <=> lookup_read_hit_now \/ resp.valid
  BY DEF cpu_resp_valid
<1>4. NoResponse => ~resp'.valid
  BY DEF NoResponse
<1>5. ASSUME ~LoadUnderWay, cpu = None \/ cpu.write PROVE pending' = None
  BY <1>1, <1>2, <1>3, <1>5 DEF AnswerInv
<1>6. ASSUME LoadUnderWay, ~lookup_read_hit_now, cpu = None
      PROVE  pending' = req.addr
  BY <1>1, <1>2, <1>3, <1>6 DEF AnswerInv
<1>7. state = "FILL" =>
        /\ fill \in FillRecord /\ fill.count \in Nat /\ fill.target \in Nat
        /\ fill.target <= LastWord /\ req.addr \in Addr
        /\ FillLoc(fill.target) = req.addr
  <2>1. state = "FILL" => /\ fill \in FillRecord /\ req.addr \in Addr
                          /\ fill.target = req.addr.word
                          /\ fill.tag = req.addr.tag /\ fill.set = req.addr.set
    BY <1>1 DEF TypesInv, StateInv, FillInv, Load, Store
  <2>2. state = "FILL" => FillLoc(fill.target) = req.addr
    BY <2>1 DEF FillLoc, Loc, Addr
  <2> QED BY <2>1, <2>2, IndexAssumption DEF FillRecord, Word
<1>8. ASSUME state' \in {"RESET", "IDLE"}, pending' = None, NoResponse PROVE AnswerInv'
  BY <1>4, <1>8 DEF AnswerInv, LoadUnderWay
<1>9. CASE ResetInit(cpu, bus)
  <2>1. state = "RESET" /\ state' \in {"RESET", "IDLE"} /\ NoResponse /\ cpu = None
    BY <1>9 DEF ResetInit, Retire
  <2> QED BY <1>5, <1>8, <2>1 DEF LoadUnderWay
<1>10. CASE Idle(cpu, bus)
  <2>1. state = "IDLE" /\ NoResponse
    BY <1>10 DEF Idle
  <2>2. CASE cpu # None /\ can_accept_cpu(cpu, bus)
    <3>1. state' = "LOOKUP" /\ req' = cpu /\ req_valid_r' = TRUE
      BY <1>10, <2>2 DEF Idle
    <3>2. CASE cpu.write
      BY <1>4, <1>5, <2>1, <3>1, <3>2 DEF AnswerInv, LoadUnderWay
    <3>3. CASE ~cpu.write
      BY <1>2, <1>4, <2>1, <2>2, <3>1, <3>3 DEF AnswerInv, LoadUnderWay
    <3> QED BY <3>2, <3>3
  <2>3. CASE ~(cpu # None /\ can_accept_cpu(cpu, bus))
    <3>1. state' = "IDLE" /\ (cpu = None \/ cpu.write)
      BY <1>10, <2>3 DEF Idle, Retire, can_accept_cpu
    <3> QED BY <1>5, <1>8, <2>1, <3>1 DEF LoadUnderWay
  <2> QED BY <2>2, <2>3
<1>11. CASE LookupProtected(cpu, bus)
  <2>1. state = "LOOKUP" /\ req.write /\ state' = "IDLE" /\ NoResponse /\ cpu = None
    BY <1>11 DEF LookupProtected, Retire, protect
  <2> QED BY <1>5, <1>8, <2>1 DEF LoadUnderWay
<1>12. CASE LookupStore(cpu, bus)
  <2>1. state = "LOOKUP" /\ req.write /\ NoResponse /\ (cpu = None \/ cpu.write)
    BY <1>12 DEF LookupStore
  <2>2. pending' = None
    BY <1>5, <2>1 DEF LoadUnderWay
  <2>3. CASE cpu # None
    <3>1. state' = "LOOKUP" /\ req' = cpu
      BY <1>12, <2>1, <2>3 DEF LookupStore
    <3> QED BY <1>4, <2>1, <2>2, <2>3, <3>1 DEF AnswerInv, LoadUnderWay
  <2>4. CASE cpu = None
    BY <1>8, <1>12, <2>1, <2>2, <2>4 DEF LookupStore, Retire
  <2> QED BY <2>3, <2>4
<1>13. CASE LookupUncached(cpu, bus)
  <2>1. /\ state = "LOOKUP" /\ ~req.write /\ req.uncacheable /\ cpu = None
        /\ state' \in {"LOOKUP", "BYPASS"} /\ req' = req /\ NoResponse
    BY <1>13 DEF LookupUncached
  <2>2. pending' = req.addr
    BY <1>6, <2>1 DEF LoadUnderWay, lookup_read_hit_now
  <2> QED BY <1>4, <2>1, <2>2 DEF AnswerInv, LoadUnderWay
<1>14. CASE LookupHit(cpu, bus)
  <2>1. /\ state = "LOOKUP" /\ ~req.write /\ ~req.uncacheable /\ lookup_hit /\ cpu = None
        /\ state' = "IDLE" /\ NoResponse
    BY <1>14 DEF LookupHit, Retire
  <2>2. cpu_resp_valid
    BY <1>1, <2>1 DEF cpu_resp_valid, lookup_read_hit_now, AnswerInv
  <2> QED BY <1>2, <1>8, <2>1, <2>2
<1>15. CASE LookupMiss(cpu)
  <2>1. /\ state = "LOOKUP" /\ ~req.write /\ ~lookup_hit /\ cpu = None
        /\ state' = "FILL" /\ req' = req /\ NoResponse
        /\ fill'.count = 0 /\ fill'.target = req.addr.word /\ fill'.install = FALSE
    BY <1>15 DEF LookupMiss
  <2>2. pending' = req.addr
    BY <1>6, <2>1 DEF LoadUnderWay, lookup_read_hit_now
  <2>3. 0 <= req.addr.word
    <3>1. req.addr \in Addr
      BY <1>1, <2>1 DEF TypesInv, StateInv, Load, Store
    <3> QED BY <3>1, IndexAssumption DEF Addr, Word
  <2> QED BY <1>4, <2>1, <2>2, <2>3 DEF AnswerInv, LoadUnderWay
<1>16. CASE FillWait(cpu, bus)
  <2>1. /\ state = "FILL" /\ cpu = None /\ state' = state /\ req' = req /\ NoResponse
        /\ fill' = [fill EXCEPT !.requested = fill.requested \/ fillIssue(bus)]
    BY <1>16 DEF FillWait
  <2>2. /\ fill'.count = fill.count /\ fill'.target = fill.target
        /\ fill'.install = fill.install
    BY <1>7, <2>1 DEF FillRecord
  <2>3. LoadUnderWay' <=> LoadUnderWay
    BY <2>1, <2>2 DEF LoadUnderWay
  <2>4. CASE LoadUnderWay
    BY <1>4, <1>6, <2>1, <2>3, <2>4 DEF AnswerInv, lookup_read_hit_now
  <2>5. CASE ~LoadUnderWay
    BY <1>4, <1>5, <2>1, <2>3, <2>5 DEF AnswerInv
  <2> QED BY <2>4, <2>5
<1>17. CASE FillBeat(cpu, bus)
  <2>1. /\ state = "FILL" /\ ~fill.install /\ bus.resp = "beat" /\ cpu = None
        /\ NextFillWord(bus, None)
        /\ IF fill.count = fill.target THEN resp' = [valid |-> TRUE, data |-> fillWord]
                                       ELSE NoResponse
    BY <1>17 DEF FillBeat
  <2>2. /\ fill.count # LastWord =>
             /\ state' = "FILL" /\ req' = req /\ fill'.count = fill.count + 1
             /\ fill'.target = fill.target /\ fill'.install = fill.install
        /\ fill.count = LastWord => state' = "IDLE"
    BY <1>7, <2>1 DEF NextFillWord, Retire, FillRecord
  <2>3. CASE fill.count = fill.target
    <3>1. reading.left > 0
      BY <2>1 DEF Bus
    <3>2. fillWord = Value(req.addr)
      BY <1>1, <1>7, <2>1, <2>3, <3>1, FillDataFresh
    <3>3. resp' = [valid |-> TRUE, data |-> fillWord]
      BY <2>1, <2>3
    <3>4. resp'.valid /\ resp'.data = Value(req.addr)
      BY <3>2, <3>3
    <3>5. LoadUnderWay
      BY <1>7, <2>1, <2>3 DEF LoadUnderWay
    <3>6. /\ pending' = req.addr /\ pending' # None
          /\ resp'.data = arch'[pending'] \/ wrote' = pending'
      BY <1>1, <1>7, <2>1, <3>4, <3>5, BusAnswer
    <3>7. ~LoadUnderWay' /\ state' # "LOOKUP"
      BY <1>7, <2>1, <2>2, <2>3, IndexAssumption DEF LoadUnderWay
    <3> QED BY <3>4, <3>6, <3>7 DEF AnswerInv
  <2>4. CASE fill.count < fill.target
    <3>1. fill.count # LastWord /\ fill.count + 1 <= fill.target /\ LoadUnderWay /\ NoResponse
      BY <1>7, <2>1, <2>4, IndexAssumption DEF LoadUnderWay
    <3>2. pending' = req.addr
      BY <1>6, <2>1, <3>1 DEF lookup_read_hit_now
    <3>3. LoadUnderWay' /\ state' = "FILL" /\ req' = req
      BY <2>1, <2>2, <3>1 DEF LoadUnderWay
    <3> QED BY <1>4, <3>1, <3>2, <3>3 DEF AnswerInv
  <2>5. CASE fill.count > fill.target
    <3>1. ~LoadUnderWay /\ NoResponse
      BY <1>7, <2>1, <2>5 DEF LoadUnderWay
    <3>2. pending' = None
      BY <1>5, <2>1, <3>1
    <3>3. CASE fill.count = LastWord
      BY <1>4, <2>2, <3>1, <3>2, <3>3 DEF AnswerInv, LoadUnderWay
    <3>4. CASE fill.count # LastWord
      <4>1. state' = "FILL" /\ ~(fill'.count <= fill'.target)
        BY <1>7, <2>1, <2>2, <2>5, <3>4
      <4> QED BY <1>4, <3>1, <3>2, <4>1 DEF AnswerInv, LoadUnderWay
    <3> QED BY <3>3, <3>4
  <2> QED BY <1>7, <2>1, <2>3, <2>4, <2>5
<1>18. CASE FillLine(cpu, bus)
  <2>1. /\ state = "FILL" /\ ~fill.install /\ bus.resp = "line" /\ cpu = None
        /\ state' = state /\ fill' = [fill EXCEPT !.install = TRUE, !.line = wideLine]
        /\ resp' = [valid |-> TRUE, data |-> wideLine[fill.target]]
    BY <1>18 DEF FillLine
  <2>2. reading.left > 0 /\ reading.left = LastWord + 1
    BY <2>1 DEF Bus
  <2>3. fill.count = 0
    BY <1>1, <2>1, <2>2, IndexAssumption DEF TypesInv, ReadInStep
  <2>4. LoadUnderWay
    BY <1>7, <2>1, <2>3 DEF LoadUnderWay
  <2>5. wideLine[fill.target] = Value(req.addr)
    BY <1>1, <1>7, <2>1, <2>2, FillDataFresh DEF FillRecord
  <2>6. resp'.valid /\ resp'.data = Value(req.addr)
    BY <2>1, <2>5
  <2>7. /\ pending' = req.addr /\ pending' # None
        /\ resp'.data = arch'[pending'] \/ wrote' = pending'
    BY <1>1, <1>7, <2>1, <2>4, <2>6, BusAnswer
  <2>8. fill'.install = TRUE
    BY <1>7, <2>1 DEF FillRecord
  <2> QED BY <2>1, <2>6, <2>7, <2>8 DEF AnswerInv, LoadUnderWay
<1>19. CASE FillInstall(cpu, bus)
  <2>1. /\ state = "FILL" /\ fill.install /\ cpu = None /\ NoResponse
        /\ NextFillWord(bus, fill.line)
    BY <1>19 DEF FillInstall
  <2>2. pending' = None
    BY <1>5, <2>1 DEF LoadUnderWay
  <2>3. state' = "IDLE" \/ (state' = "FILL" /\ fill'.install)
    BY <1>7, <2>1 DEF NextFillWord, Retire, FillRecord
  <2> QED BY <1>4, <2>1, <2>2, <2>3 DEF AnswerInv, LoadUnderWay
<1>20. CASE BypassWait(cpu, bus)
  <2>1. state = "BYPASS" /\ cpu = None /\ LoadUnderWay
    BY <1>20 DEF BypassWait, LoadUnderWay
  <2>2. CASE bus.resp = "beat"
    <3>1. /\ state' = "IDLE"
          /\ resp' = [valid |-> TRUE, data |-> Forward(storeq, req.addr, mem_dout)]
      BY <1>20, <2>2 DEF BypassWait, Retire
    <3>2. reading.addr = req.addr /\ req.addr \in Addr
      BY <1>1, <2>1, <2>2 DEF Bus, TypesInv, ReadInStep, StateInv, Load, Store
    <3>3. resp'.valid /\ resp'.data = Value(req.addr)
      BY <3>1, <3>2 DEF Value, mem_dout
    <3>4. /\ pending' = req.addr /\ pending' # None
          /\ resp'.data = arch'[pending'] \/ wrote' = pending'
      BY <1>1, <2>1, <3>2, <3>3, BusAnswer
    <3> QED BY <3>1, <3>3, <3>4 DEF AnswerInv, LoadUnderWay
  <2>3. CASE bus.resp # "beat"
    <3>1. state' = state /\ req' = req /\ NoResponse
      BY <1>20, <2>3 DEF BypassWait
    <3>2. pending' = req.addr
      BY <1>6, <2>1 DEF lookup_read_hit_now
    <3> QED BY <1>4, <2>1, <3>1, <3>2 DEF AnswerInv, LoadUnderWay
  <2> QED BY <2>2, <2>3
<1> QED BY <1>9, <1>10, <1>11, <1>12, <1>13, <1>14, <1>15, <1>16, <1>17, <1>18, <1>19, <1>20
        DEF Machine

-----------------------------------------------------------------------------
\* The invariant is inductive.
LEMMA DataInduction ==
    ASSUME FillsUndisturbed
    PROVE  Inv /\ [Next]_vars => Inv'
<1> SUFFICES ASSUME Inv, [Next]_vars PROVE Inv'
  OBVIOUS
<1>1. TypesInv' /\ WaysInv'
  BY TypesInduction, WaysInduction DEF Inv
<1>2. CASE Next
  <2>1. PICK bus \in Bus, cpu \in Offered :
          \E p \in ProbeTaken(cpu) : \E x \in Written(cpu) : \E s \in Snooped : Clock(cpu, bus, p, x, s)
    BY <1>2 DEF Next
  <2>2. PICK p \in ProbeTaken(cpu), x \in Written(cpu), s \in Snooped : Clock(cpu, bus, p, x, s)
    BY <2>1
  <2>3. /\ Machine(cpu, bus) /\ StoreQueue(bus)
        /\ TagRams(bus) /\ DataRams(bus) /\ PatchForward /\ Preread(cpu, p)
        /\ probe' = p /\ Memory(x, bus) /\ History(cpu, x)
    BY <2>2 DEF Clock, Datapath
  <2>4. LinesInv'
    BY <2>3, LinesInvStep
  <2>5. FillInv'
    BY <2>3, FillInvStep
  <2>6. RdInv'
    BY <2>3, RdInvStep
  <2>7. AnswerInv'
    BY <2>3, AnswerInvStep
  <2>8. ProbeInv'
    BY <2>3, ProbeInvStep DEF Inv
  <2> QED BY <1>1, <2>4, <2>5, <2>6, <2>7, <2>8 DEF Inv, DataInv
<1>3. CASE UNCHANGED vars
  <2>1. /\ state' = state /\ req' = req /\ req_valid_r' = req_valid_r /\ resp' = resp
        /\ fill' = fill /\ storeq' = storeq /\ tags' = tags /\ ways' = ways /\ rd' = rd
        /\ patch_fwd' = patch_fwd /\ probe' = probe /\ mem' = mem /\ arch' = arch
        /\ pending' = pending /\ wrote' = wrote
    BY <1>3 DEF vars, fsm, path, external, history
  <2>2. LinesInv'
    BY <2>1 DEF Inv, DataInv, LinesInv, Filling, Value, Loc
  <2>3. FillInv'
    BY <2>1 DEF Inv, DataInv, FillInv, FillLoc, Value, Loc
  <2>4. RdInv'
    BY <2>1 DEF Inv, DataInv, RdInv, ReadFresh, WayData, Value, Loc
  <2>5. AnswerInv'
    BY <2>1 DEF Inv, DataInv, AnswerInv, LoadUnderWay
  <2>6. ProbeInv'
    BY <2>1 DEF Inv, DataInv, ProbeInv, ProbeBeside
  <2> QED BY <1>1, <2>2, <2>3, <2>4, <2>5, <2>6 DEF Inv, DataInv
<1> QED BY <1>2, <1>3

\* Reset starts with no line, no read and no load.
LEMMA DataInit == Init => Inv
<1> SUFFICES ASSUME Init PROVE Inv
  OBVIOUS
<1>1. TypesInv /\ WaysInv
  <2>1. state = "RESET" /\ init_set = 0
    BY DEF Init
  <2>2. \A s \in CacheSet : ~ (s < 0)
    BY IndexAssumption DEF CacheSet
  <2>3. WaysInv
    BY <2>1, <2>2 DEF WaysInv, OneWayPerLine
  <2> QED BY <2>3, TypesInit
<1>2. /\ state = "RESET" /\ req_valid_r = FALSE /\ resp = [valid |-> FALSE, data |-> None]
      /\ rd = NoRd /\ probe = None /\ pending = None
  BY DEF Init
<1>3. ~resp.valid /\ \A w \in Way : rd.tag[w] = None
  BY <1>2 DEF NoRd
<1>4. LinesInv /\ FillInv /\ RdInv /\ ProbeInv /\ AnswerInv
  BY <1>2, <1>3 DEF LinesInv, FillInv, RdInv, ProbeInv, AnswerInv, LoadUnderWay
<1> QED BY <1>1, <1>4 DEF Inv, DataInv

LEMMA DataInvariant ==
    ASSUME FillsUndisturbed
    PROVE  Spec => []Inv
<1>1. Inv /\ [Next]_vars => Inv'
  BY DataInduction
<1> QED BY <1>1, DataInit, PTL DEF Spec

-----------------------------------------------------------------------------
\* A valid line holds what a load must see, for every geometry, queue and memory,
\* whatever is snooped, filled, patched or disabled: a store that hits patches
\* its line, merged in the queue or not, and a fill puts the queued stores over
\* what memory returns (l1_cache: data_store_write, fill_word, the snoop clear).
THEOREM LinesAreFresh ==
    ASSUME FillsUndisturbed
    PROVE  Spec => []NoStaleLine
<1>1. Inv => NoStaleLine
  <2> SUFFICES ASSUME Inv, NEW s \in CacheSet, NEW w \in Way, tags[w][s] # None,
                      state # "RESET", ~Filling(w, s), NEW d \in Word
               PROVE  LET a == Loc(tags[w][s], s, d)
                      IN  ways[w][s][d] = arch[a]
                          \/ (storeLookup /\ req.addr = a
                              /\ Merge(ways[w][s][d], req.data, req.be) = arch[a])
    BY DEF NoStaleLine
  <2> DEFINE a == Loc(tags[w][s], s, d)
  <2>1. TypesInv /\ tags \in [Way -> [CacheSet -> Tag \cup {None}]]
    BY DEF Inv, TypesInv, TypeOK
  <2>2. tags[w][s] \in Tag
    BY <2>1
  <2>3. a \in Addr
    BY <2>2, LocIs
  <2>4. ways[w][s][d] = Value(a)
    BY DEF Inv, DataInv, LinesInv
  <2> HIDE DEF a
  <2>5. \/ ways[w][s][d] = arch[a]
        \/ (storeLookup /\ req.addr = a /\ Merge(ways[w][s][d], req.data, req.be) = arch[a])
    BY <2>1, <2>3, <2>4, ArchIsValue
  <2> QED BY <2>5 DEF a
<1> QED BY <1>1, DataInvariant, PTL

\* A hardwired load resolves beside an idle cache or a store only, and one that hits sees every
\* older store, the one whose patch raced
\* its read and the one in S_LOOKUP beside it included (l1_cache: vipt_resolve,
\* vipt_patch_fwd_hit, vipt_lookup_store_match).
THEOREM ProbesAreFresh ==
    ASSUME FillsUndisturbed
    PROVE  Spec => []ProbesReturnYoungest
<1>1. Inv => ProbesReturnYoungest
  <2> SUFFICES ASSUME Inv, probe # None, NEW t \in Tag, vipt_resolve_hit(t)
               PROVE  \/ vipt_resolve_data(t) = arch[Loc(t, probe.set, probe.word)]
                      \/ wrote = Loc(t, probe.set, probe.word)
    BY DEF ProbesReturnYoungest, Inv, DataInv, ProbeInv, ProbeBeside
  <2> DEFINE a == Loc(t, probe.set, probe.word)
  <2>1. TypesInv /\ RdInv /\ probe \in [set : CacheSet, word : Word]
    BY DEF Inv, DataInv, TypesInv, TypeOK
  <2>2. a \in Addr /\ a.set = probe.set /\ a.word = probe.word
    BY <2>1, LocIs
  <2>3. PICK w \in Way : rd.tag[w] = t
    BY DEF vipt_resolve_hit, HitWays
  <2>4. Least(HitWays(t)) = w
    BY <2>1, <2>3, HitWay, NoneAssumption
  <2>5. WayData(w, probe.set, probe.word) = Value(a) \/ wrote = a
    BY <2>1, <2>3, NoneAssumption DEF RdInv, ReadFresh
  <2>6. vipt_resolve_data(t) =
          IF storeLookup /\ req.addr = a
          THEN Merge(WayData(w, probe.set, probe.word), req.data, req.be)
          ELSE WayData(w, probe.set, probe.word)
    BY <2>2, <2>4 DEF vipt_resolve_data
  <2> HIDE DEF a
  <2>7. vipt_resolve_data(t) = arch[a] \/ wrote = a
    BY <2>1, <2>2, <2>5, <2>6, ArchIsValue
  <2> QED BY <2>7 DEF a
<1> QED BY <1>1, DataInvariant, PTL

\* The answer of this cycle, hit or miss, is the value of the load's dword.
LEMMA AnswersAreFresh == Inv => LoadsReturnYoungest
<1> SUFFICES ASSUME Inv, cpu_resp_valid
             PROVE  pending # None /\ (cpu_dout = arch[pending] \/ wrote = pending)
  BY DEF LoadsReturnYoungest
<1>1. TypesInv /\ RdInv /\ AnswerInv
  BY DEF Inv, DataInv
<1>2. CASE lookup_read_hit_now
  <2>1. state = "LOOKUP" /\ req_valid_r /\ ~req.write /\ lookup_hit
    BY <1>2 DEF lookup_read_hit_now
  <2>2. lookup_way_data = Value(req.addr)
    BY <1>1, <2>1, LookupHitFresh
  <2>3. cpu_dout = Forward(storeq, req.addr, Value(req.addr))
    BY <1>2, <2>2 DEF cpu_dout
  <2>4. cpu_dout = Value(req.addr)
    BY <2>3, ForwardTwice DEF Value
  <2>5. req.addr \in Addr
    BY <1>1, <2>1 DEF TypesInv, StateInv, Load, Store
  <2>6. arch[req.addr] = Value(req.addr)
    BY <1>1, <2>1, <2>5, ArchIsValue DEF storeLookup
  <2>7. pending = req.addr
    BY <1>1, <2>1 DEF AnswerInv, LoadUnderWay
  <2> QED BY <2>4, <2>5, <2>6, <2>7, NoneAssumption
<1>3. CASE ~lookup_read_hit_now
  <2>1. resp.valid /\ cpu_dout = resp.data
    BY <1>3 DEF cpu_resp_valid, cpu_dout
  <2> QED BY <1>1, <2>1 DEF AnswerInv
<1> QED BY <1>2, <1>3

\* A load returns the youngest store to each of its bytes, wherever the cache
\* finds them (line, patch register, queue, memory), and an answer is given only
\* to a load that waits for one (l1_cache: cpu_dout, cpu_resp_valid).
THEOREM LoadsAreFresh ==
    ASSUME FillsUndisturbed
    PROVE  Spec => []LoadsReturnYoungest
BY AnswersAreFresh, DataInvariant, PTL

-----------------------------------------------------------------------------
\* The refinement.  With no external writer, the memory the core sees is arch.
Seen   == [a \in Addr |-> Forward(Posted, a, mem[a])]
Answer == IF cpu_resp_valid THEN cpu_dout ELSE None

RefInv == Inv /\ wrote = None

LEMMA SeenIsArch == TypesInv => Seen = arch /\ arch \in [Addr -> Dword]
BY DEF Seen, TypesInv, StoresInv, PostedStoresComplete

\* The answer of a cycle is none, or memory's at the address the core waits for.
AnswerRight ==
    /\ pending \in Addr \cup {None}
    /\ Answer = None <=> ~cpu_resp_valid
    /\ Answer # None => pending # None /\ Answer = Seen[pending]

LEMMA AnswerIs == RefInv => AnswerRight
<1> SUFFICES ASSUME RefInv PROVE AnswerRight
  OBVIOUS
<1>1. TypesInv /\ pending \in Addr \cup {None} /\ wrote = None
  BY DEF RefInv, Inv, TypesInv, TypeOK
<1>2. cpu_resp_valid => pending # None /\ cpu_dout = arch[pending]
  BY <1>1, AnswersAreFresh DEF RefInv, LoadsReturnYoungest
<1>3. Seen = arch /\ arch \in [Addr -> Dword]
  BY <1>1, SeenIsArch
<1>4. cpu_resp_valid => pending \in Addr /\ cpu_dout \in Dword
  BY <1>1, <1>2, <1>3
<1> QED BY <1>1, <1>2, <1>3, <1>4, NoneAssumption DEF Answer, AnswerRight

LEMMA RefInduction ==
    ASSUME ExternalWrites = "never"
    PROVE  RefInv /\ [Next]_vars => RefInv'
<1> SUFFICES ASSUME RefInv, [Next]_vars PROVE RefInv'
  OBVIOUS
<1>1. Inv'
  BY DataInduction DEF RefInv, FillsUndisturbed
<1>2. CASE Next
  <2>1. PICK bus \in Bus, cpu \in Offered :
          \E p \in ProbeTaken(cpu) : \E x \in Written(cpu) : \E s \in Snooped : Clock(cpu, bus, p, x, s)
    BY <1>2 DEF Next
  <2>2. PICK p \in ProbeTaken(cpu), x \in Written(cpu), s \in Snooped : Clock(cpu, bus, p, x, s)
    BY <2>1
  <2>3. x = None
    BY DEF Written, WriterFree
  <2> QED BY <1>1, <2>2, <2>3 DEF RefInv, Clock, History
<1>3. CASE UNCHANGED vars
  BY <1>1, <1>3 DEF RefInv, vars, history
<1> QED BY <1>2, <1>3

\* A store the core presents writes that memory, at once and whole.
LEMMA StoresWrite ==
    ASSUME ExternalWrites = "never", RefInv, RefInv', NEW cpu \in Offered,
           NEW x \in Written(cpu), History(cpu, x)
    PROVE  \/ Seen' = Seen
           \/ \E a \in Addr, d \in Dword, be \in Mask :
                /\ a \notin [tag : Protected, set : CacheSet, word : Word]
                /\ Seen' = [Seen EXCEPT ![a] = Merge(Seen[a], d, be)]
<1>1. TypesInv /\ TypesInv'
  BY DEF RefInv, Inv
<1>2. Seen = arch /\ Seen' = arch'
  <2>1. TypesInv'
    BY <1>1
  <2>2. (Seen = arch /\ arch \in [Addr -> Dword])'
    BY <2>1, SeenIsArch, PTL
  <2> QED BY <1>1, <2>2, SeenIsArch
<1>3. x = None
  BY DEF Written, WriterFree
<1>4. CASE cpu # None /\ cpu.write /\ cpu.addr.tag \notin Protected
  <2>1. cpu \in Store
    BY <1>4, OfferedType DEF Load
  <2>2. cpu.addr \in Addr /\ cpu.data \in Dword /\ cpu.be \in Mask
    BY <2>1 DEF Store
  <2>3. arch' = [arch EXCEPT ![cpu.addr] = Merge(arch[cpu.addr], cpu.data, cpu.be)]
    BY <1>3, <1>4 DEF History
  <2>4. cpu.addr \notin [tag : Protected, set : CacheSet, word : Word]
    BY <1>4
  <2> QED BY <1>2, <2>2, <2>3, <2>4
<1>5. CASE ~(cpu # None /\ cpu.write /\ cpu.addr.tag \notin Protected)
  BY <1>2, <1>3, <1>5 DEF History
<1> QED BY <1>4, <1>5

\* A load waits from the clock it is taken on until it is answered.
LEMMA LoadsWait ==
    ASSUME RefInv, RefInv', NEW bus \in Bus, NEW cpu \in Offered, NEW x,
           Machine(cpu, bus), History(cpu, x)
    PROVE  \/ pending # None /\ Answer = None /\ pending' = pending
           \/ (pending = None \/ Answer # None) /\ pending' \in Addr
           \/ (pending = None \/ Answer # None) /\ pending' = None /\ Answer' = None
<1>1. /\ Answer = None <=> ~cpu_resp_valid
      /\ Answer' # None => pending' # None
  <2>1. AnswerRight /\ AnswerRight'
    BY AnswerIs, PTL
  <2> QED BY <2>1 DEF AnswerRight
<1>2. pending' = IF cpu # None /\ ~cpu.write THEN cpu.addr
                 ELSE IF cpu_resp_valid THEN None ELSE pending
  BY DEF History
<1>3. CASE cpu # None /\ ~cpu.write
  <2>1. state = "IDLE"
    BY <1>3 DEF Machine, ResetInit, Idle, LookupProtected, LookupStore, LookupUncached, LookupHit,
                LookupMiss, FillWait, FillBeat, FillLine, FillInstall, BypassWait
  <2>2. pending = None \/ cpu_resp_valid
    BY <2>1 DEF RefInv, Inv, DataInv, AnswerInv, LoadUnderWay, cpu_resp_valid
  <2>3. cpu.addr \in Addr
    BY <1>3, OfferedType
  <2> QED BY <1>1, <1>2, <1>3, <2>2, <2>3
<1>4. CASE ~(cpu # None /\ ~cpu.write) /\ cpu_resp_valid
  BY <1>1, <1>2, <1>4
<1>5. CASE ~(cpu # None /\ ~cpu.write) /\ ~cpu_resp_valid
  BY <1>1, <1>2, <1>5
<1> QED BY <1>3, <1>4, <1>5

\* Every clock is a step of the atomic memory, or leaves it alone.
LEMMA StepImplements ==
    ASSUME ExternalWrites = "never", RefInv, RefInv', [Next]_vars
    PROVE  [Memory1!MemoryNext]_(Memory1!memoryVars)
<1>1. CASE Next
  <2>1. PICK bus \in Bus, cpu \in Offered :
          \E p \in ProbeTaken(cpu) : \E x \in Written(cpu) : \E s \in Snooped : Clock(cpu, bus, p, x, s)
    BY <1>1 DEF Next
  <2>2. PICK p \in ProbeTaken(cpu), x \in Written(cpu), s \in Snooped : Clock(cpu, bus, p, x, s)
    BY <2>1
  <2>3. Machine(cpu, bus) /\ History(cpu, x)
    BY <2>2 DEF Clock, Datapath
  <2>4. Memory1!Write \/ Seen' = Seen
    BY <2>3, StoresWrite DEF Memory1!Write, Memory1!Merge, Merge, Seen
  <2>5. pending' # None => Answer' \in {None, Seen'[pending']}
    <3>1. AnswerRight'
      BY AnswerIs, PTL
    <3> QED BY <3>1 DEF AnswerRight
  <2>6. Memory1!Hold \/ Memory1!Accept \/ Memory1!Rest
    BY <2>3, <2>5, LoadsWait, NoneAssumption
       DEF Memory1!Hold, Memory1!Accept, Memory1!Rest, Memory1!Answered, Seen, Answer
  <2> QED BY <2>4, <2>6 DEF Memory1!MemoryNext, Seen
<1>2. CASE UNCHANGED vars
  BY <1>2 DEF vars, fsm, path, external, history, Memory1!memoryVars, Posted, storeLookup, protect,
              cpu_resp_valid, cpu_dout, lookup_read_hit_now, lookup_way_data, lookup_way,
              lookup_hit, HitWays, WayData
<1> QED BY <1>1, <1>2

\* With no external writer, the cache, its queue and memory implement one atomic
\* memory, for every size of the cache and its queue: every store takes effect at
\* once, every load is answered once, with memory's value at its answer
\* (l1_cache against module AtomicMemory).
THEOREM CacheIsAtomicMemory ==
    ASSUME ExternalWrites = "never"
    PROVE  Spec => ImplementsAtomicMemory
<1>1. Init => RefInv
  BY DataInit DEF RefInv, Init
<1>2. RefInv /\ [Next]_vars => RefInv'
  BY RefInduction
<1>3. Init => Memory1!MemoryInit
  <2> SUFFICES ASSUME Init PROVE Memory1!MemoryInit
    OBVIOUS
  <2>1. RefInv /\ TypesInv
    BY <1>1 DEF RefInv, Inv
  <2>2. Seen = arch
    BY <2>1, SeenIsArch
  <2>3. \E zero \in Dword : Seen = [a \in Addr |-> zero]
    BY <2>2 DEF Init
  <2>4. pending = None /\ Answer = None
    BY <2>1, AnswerIs DEF Init, AnswerRight
  <2> QED BY <2>3, <2>4 DEF Memory1!MemoryInit, Seen, Answer
<1>4. RefInv /\ RefInv' /\ [Next]_vars => [Memory1!MemoryNext]_(Memory1!memoryVars)
  BY StepImplements
<1> QED BY <1>1, <1>2, <1>3, <1>4, PTL DEF Spec, ImplementsAtomicMemory, Memory1!MemorySpec

===========================================================================
