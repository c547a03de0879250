--------------------------- MODULE L1Cache_proofs ---------------------------
(* What holds of the D-cache of module L1Cache for every size of queue, set,   *)
(* way, line and memory: the store queue and the writes of memory first, then  *)
(* the types of all registers, the one read under way that stays in step with  *)
(* the FSM, and the tags.  The types need the second: a beat out of step would *)
(* be written past the line.                                                   *)
EXTENDS L1Cache, CacheOps_proofs

\* The store queue seen from outside its data: where its length may stand when
\* the cache offers to take a store, and that a drain owns a slot.
QueueInv ==
    /\ storeq \in Seq(Slot)
    /\ Len(storeq) <= Depth
    /\ storeq_draining \in BOOLEAN
    /\ storeq_draining => storeq # << >>
    /\ req_valid_r => state = "LOOKUP"
    /\ storeLookup => req \in Store /\ Len(storeq) < Depth
    /\ storeLookup /\ lookup_wr_room_r => Len(storeq) <= Depth - 2
    /\ ready_r => state = "IDLE" /\ Len(storeq) < Depth

\* A nonempty sequence has a last element; replacing it keeps the length.
LEMMA LastElement ==
    ASSUME NEW S, NEW q \in Seq(S), q # << >>
    PROVE  /\ Len(q) \in Nat /\ Len(q) >= 1
           /\ q[Len(q)] \in S
           /\ \A e \in S : /\ [q EXCEPT ![Len(q)] = e] \in Seq(S)
                           /\ Len([q EXCEPT ![Len(q)] = e]) = Len(q)
<1>1. Len(q) \in Nat /\ Len(q) # 0
  BY EmptySeq
<1>2. Len(q) \in 1..Len(q)
  BY <1>1
<1> QED BY <1>1, <1>2, ElementOfSeq, ExceptSeq

\* An enqueue adds at most one store, and none while no store is in S_LOOKUP.
LEMMA EnqueuedLength ==
    ASSUME QueueInv
    PROVE  /\ enqueued \in Seq(Slot)
           /\ Len(storeq) \in Nat /\ Len(enqueued) \in {Len(storeq), Len(storeq) + 1}
           /\ ~storeLookup => enqueued = storeq
           /\ storeq # << >> => Len(enqueued) >= 1
<1>1. storeq \in Seq(Slot) /\ Len(storeq) \in Nat
  BY LenProperties DEF QueueInv
<1>2. storeq # << >> => Len(storeq) >= 1
  BY <1>1, LastElement
<1>3. storeLookup => req \in Store
  BY DEF QueueInv
<1>4. CASE ~storeLookup
  BY <1>1, <1>2, <1>4 DEF enqueued
<1>5. CASE storeLookup /\ storeq_merge_lookup
  <2>1. storeq # << >>
    BY <1>5 DEF storeq_merge_lookup, storeq_empty
  <2>2. storeq[Len(storeq)] \in Slot
    BY <1>1, <2>1, LastElement
  <2>3. Coalesced(storeq[Len(storeq)]) \in Slot
    BY <2>2, <1>3, <1>5 DEF Coalesced, Slot, Store, Merge, Dword, Mask
  <2>4. enqueued = [storeq EXCEPT ![Len(storeq)] = Coalesced(storeq[Len(storeq)])]
    BY <1>5 DEF enqueued
  <2>5. enqueued \in Seq(Slot) /\ Len(enqueued) = Len(storeq)
    BY <1>1, <2>1, <2>3, <2>4, LastElement
  <2> QED BY <2>5, <1>1, <1>2, <1>5
<1>6. CASE storeLookup /\ ~storeq_merge_lookup
  <2>1. [addr |-> req.addr, data |-> req.data, be |-> req.be] \in Slot
    BY <1>3, <1>6 DEF Store, Slot
  <2>2. enqueued = Append(storeq, [addr |-> req.addr, data |-> req.data, be |-> req.be])
    BY <1>6 DEF enqueued
  <2>3. enqueued \in Seq(Slot) /\ Len(enqueued) = Len(storeq) + 1
    BY <1>1, <2>1, <2>2, AppendProperties
  <2> QED BY <1>1, <1>6, <2>3
<1> QED BY <1>4, <1>5, <1>6

\* What the next queue is, by what the clock drains.
LEMMA NextQueue ==
    ASSUME QueueInv, NEW bus
    PROVE  /\ storeq_next(bus) \in Seq(Slot) /\ Len(storeq_next(bus)) \in Nat
           /\ storeq_dequeuing(bus)  => Len(storeq_next(bus)) = Len(enqueued) - 1
           /\ ~storeq_dequeuing(bus) => storeq_next(bus) = enqueued
<1>1. CASE storeq_dequeuing(bus)
  <2>1. storeq # << >>
    BY <1>1 DEF QueueInv, storeq_dequeuing
  <2>2. enqueued \in Seq(Slot) /\ enqueued # << >>
    BY <2>1, EnqueuedLength, EmptySeq
  <2>3. storeq_next(bus) = Tail(enqueued)
    BY <1>1 DEF storeq_next
  <2>4. storeq_next(bus) \in Seq(Slot) /\ Len(storeq_next(bus)) = Len(enqueued) - 1
    BY <2>2, <2>3, HeadTailProperties
  <2> QED BY <1>1, <2>4, LenProperties
<1>2. CASE ~storeq_dequeuing(bus)
  <2>1. storeq_next(bus) = enqueued
    BY <1>2 DEF storeq_next
  <2> QED BY <1>2, <2>1, EnqueuedLength, LenProperties
<1> QED BY <1>1, <1>2

\* The queue stays within its slots, and below them where a store is accepted.
LEMMA NextQueueRoom ==
    ASSUME QueueInv, NEW bus
    PROVE  /\ Len(storeq_next(bus)) <= Depth
           /\ ~storeLookup /\ storeq_can_accept(bus) => Len(storeq_next(bus)) < Depth
           /\ ~storeLookup => Len(storeq_next(bus)) <= Len(storeq)
           /\ storeLookup /\ lookup_wr_room_r => Len(storeq_next(bus)) < Depth
<1>1. /\ Len(storeq) \in Nat /\ Len(storeq) <= Depth
      /\ storeLookup => Len(storeq) < Depth
      /\ storeLookup /\ lookup_wr_room_r => Len(storeq) <= Depth - 2
  BY EnqueuedLength DEF QueueInv
<1>2. /\ Len(enqueued) \in {Len(storeq), Len(storeq) + 1}
      /\ ~storeLookup => Len(enqueued) = Len(storeq)
  BY EnqueuedLength
<1>3. /\ storeq_dequeuing(bus)  => Len(storeq_next(bus)) = Len(enqueued) - 1
      /\ ~storeq_dequeuing(bus) => Len(storeq_next(bus)) = Len(enqueued)
  BY NextQueue
<1>4. storeq_can_accept(bus) => Len(storeq) # Depth \/ storeq_dequeuing(bus)
  BY DEF storeq_can_accept, storeq_full
<1> QED BY <1>1, <1>2, <1>3, <1>4, DepthAssumption

\* The part of the invariant that only the queue's own registers carry.
LEMMA QueueRegisters ==
    ASSUME QueueInv, NEW bus \in Bus, StoreQueue(bus)
    PROVE  /\ storeq' \in Seq(Slot)
           /\ Len(storeq') <= Depth
           /\ storeq_draining' \in BOOLEAN
           /\ storeq_draining' => storeq' # << >>
<1>1. storeq' = storeq_next(bus)
  BY DEF StoreQueue
<1>2. storeq' \in Seq(Slot) /\ Len(storeq') <= Depth
  BY <1>1, NextQueue, NextQueueRoom
<1>3. storeq_draining' \in BOOLEAN
  BY DEF StoreQueue, QueueInv, Bus
<1>4. storeq_draining' => storeq # << >> /\ ~storeq_dequeuing(bus)
  BY DEF StoreQueue, QueueInv, drain_issue_now, storeq_empty, storeq_dequeuing
<1>5. storeq_draining' => Len(storeq') >= 1
  BY <1>1, <1>4, NextQueue, EnqueuedLength
<1>6. Len(<< >>) = 0
  BY EmptySeq
<1> QED BY <1>2, <1>3, <1>5, <1>6

\* What a store accepted by cpu_ready, or by the opening behind another store,
\* finds when it is in S_LOOKUP itself, and what the next ready promises.
Promises ==
    /\ req_valid_r => state = "LOOKUP"
    /\ storeLookup => req \in Store /\ Len(storeq) < Depth
    /\ storeLookup /\ lookup_wr_room_r => Len(storeq) <= Depth - 2
    /\ ready_r => state = "IDLE" /\ Len(storeq) < Depth

\* No store is in S_LOOKUP in any other action than LookupStore.
LEMMA MachinePromises ==
    ASSUME QueueInv, NEW bus \in Bus, NEW cpu \in Offered,
           Machine(cpu, bus), storeq' = storeq_next(bus)
    PROVE  Promises'
<1>1. /\ storeq' = storeq_next(bus) /\ Len(storeq') \in Nat /\ Len(storeq) \in Nat
      /\ Len(storeq') <= Depth
      /\ ~storeLookup => /\ ready_when_idle(bus) => Len(storeq') < Depth
                         /\ Len(storeq') <= Len(storeq)
      /\ storeLookup /\ lookup_wr_room_r => Len(storeq') < Depth
  BY NextQueue, NextQueueRoom, EnqueuedLength DEF ready_when_idle
<1>2. ASSUME Retire(ready_when_idle(bus)), ~storeLookup PROVE Promises'
  BY <1>1, <1>2 DEF Retire, Promises, storeLookup
<1>3. ASSUME ~ready_r', ~storeLookup', req_valid_r' => state' = "LOOKUP" PROVE Promises'
  BY <1>3 DEF Promises
<1>4. CASE ResetInit(cpu, bus)
  BY <1>1, <1>2, <1>4 DEF ResetInit, QueueInv, Promises, storeLookup, protect
<1>5. CASE Idle(cpu, bus)
  <2>1. state = "IDLE" /\ ~storeLookup
    BY <1>5 DEF Idle, storeLookup
  <2>2. CASE cpu # None /\ can_accept_cpu(cpu, bus)
    <3>1. cpu \in Load \cup Store
      BY <2>2 DEF Offered
    <3>2. /\ state' = "LOOKUP" /\ req' = cpu /\ req_valid_r' = TRUE /\ ready_r' = FALSE
          /\ lookup_wr_room_r' = (Len(storeq) <= Depth - 2)
      BY <1>5, <2>2 DEF Idle
    <3>3. storeLookup' => cpu \in Store /\ storeq_can_accept(bus)
      BY <2>2, <3>1, <3>2 DEF storeLookup, protect, can_accept_cpu, Load
    <3>4. storeLookup' => Len(storeq') < Depth
      BY <2>1, <3>3, <1>1 DEF ready_when_idle
    <3>5. lookup_wr_room_r' => Len(storeq') <= Depth - 2
      <4>1. lookup_wr_room_r' => Len(storeq) <= Depth - 2
        BY <3>2
      <4> QED BY <1>1, <2>1, <4>1, DepthAssumption
    <3> QED BY <3>2, <3>3, <3>4, <3>5 DEF Promises
  <2>3. CASE ~(cpu # None /\ can_accept_cpu(cpu, bus))
    BY <1>2, <1>5, <2>1, <2>3 DEF Idle
  <2> QED BY <2>2, <2>3
<1>6. CASE LookupProtected(cpu, bus)
  BY <1>2, <1>6 DEF LookupProtected, storeLookup
<1>7. CASE LookupStore(cpu, bus)
  <2>1. CASE cpu # None
    <3>1. storeLookup /\ lookup_wr_room_r
      BY <1>7, <2>1 DEF LookupStore, lookup_wr_open
    <3>2. cpu \in Store
      BY <1>7, <2>1 DEF LookupStore, Offered, Load
    <3>3. /\ state' = "LOOKUP" /\ req' = cpu /\ req_valid_r' = TRUE /\ ready_r' = FALSE
          /\ lookup_wr_room_r' = (Len(storeq_next(bus)) <= Depth - 2)
      BY <1>7, <2>1 DEF LookupStore
    <3> QED BY <1>1, <3>1, <3>2, <3>3 DEF Promises
  <2>2. CASE cpu = None
    <3>1. Retire(Len(storeq_next(bus)) # Depth)
      BY <1>7, <2>2 DEF LookupStore
    <3>2. /\ state' = "IDLE" /\ req_valid_r' = FALSE
          /\ ready_r' = (Len(storeq_next(bus)) # Depth)
      BY <3>1 DEF Retire
    <3>3. ready_r' => Len(storeq') < Depth
      <4>1. ready_r' => Len(storeq') # Depth
        BY <1>1, <3>2
      <4> QED BY <1>1, <4>1, DepthAssumption
    <3> QED BY <3>2, <3>3 DEF Promises, storeLookup
  <2> QED BY <2>1, <2>2
<1>8. CASE LookupUncached(cpu, bus)
  BY <1>3, <1>8 DEF LookupUncached, storeLookup
<1>9. CASE LookupHit(cpu, bus)
  BY <1>2, <1>9 DEF LookupHit, storeLookup
<1>10. CASE LookupMiss(cpu)
  BY <1>3, <1>10 DEF LookupMiss, storeLookup
<1>11. ASSUME NEW line, NextFillWord(bus, line), state = "FILL" PROVE Promises'
  BY <1>2, <1>3, <1>11 DEF NextFillWord, storeLookup, QueueInv
<1>12. CASE FillWait(cpu, bus)
  BY <1>3, <1>12 DEF FillWait, storeLookup, QueueInv
<1>13. CASE FillBeat(cpu, bus)
  BY <1>11, <1>13 DEF FillBeat
<1>14. CASE FillLine(cpu, bus)
  BY <1>3, <1>14 DEF FillLine, storeLookup, QueueInv
<1>15. CASE FillInstall(cpu, bus)
  BY <1>11, <1>15 DEF FillInstall
<1>16. CASE BypassWait(cpu, bus)
  <2>1. state = "BYPASS" /\ ~storeLookup
    BY <1>16 DEF BypassWait, storeLookup
  <2>2. CASE bus.resp = "beat"
    BY <1>2, <1>16, <2>1, <2>2 DEF BypassWait
  <2>3. CASE bus.resp # "beat"
    BY <1>3, <1>16, <2>1, <2>3 DEF BypassWait, storeLookup, QueueInv
  <2> QED BY <2>2, <2>3
<1> QED BY <1>4, <1>5, <1>6, <1>7, <1>8, <1>9, <1>10, <1>12, <1>13, <1>14, <1>15, <1>16
        DEF Machine

\* The queue invariant is inductive.
LEMMA QueueInduction == QueueInv /\ [Next]_vars => QueueInv'
<1> SUFFICES ASSUME QueueInv, [Next]_vars PROVE QueueInv'
  OBVIOUS
<1>1. CASE Next
  <2>1. PICK bus \in Bus, cpu \in Offered : Machine(cpu, bus) /\ StoreQueue(bus)
    BY <1>1 DEF Next, Clock, Datapath
  <2>2. storeq' = storeq_next(bus)
    BY <2>1 DEF StoreQueue
  <2>3. Promises'
    BY <2>1, <2>2, MachinePromises
  <2> QED BY <2>1, <2>3, QueueRegisters DEF QueueInv, Promises
<1>2. CASE UNCHANGED vars
  BY <1>2 DEF QueueInv, vars, fsm, path, storeLookup, protect
<1> QED BY <1>1, <1>2

\* Reset leaves the queue empty and nothing offered.
LEMMA QueueInit == Init => QueueInv
<1> SUFFICES ASSUME Init PROVE QueueInv
  OBVIOUS
<1>1. << >> \in Seq(Slot) /\ Len(<< >>) = 0
  BY EmptySeq
<1>2. /\ state = "RESET" /\ req_valid_r = FALSE /\ ready_r = FALSE
      /\ storeq = << >> /\ storeq_draining = FALSE
  BY DEF Init
<1>3. Len(storeq) <= Depth /\ storeq \in Seq(Slot)
  BY <1>1, <1>2, DepthAssumption
<1>4. ~storeLookup
  BY <1>2 DEF storeLookup
<1> QED BY <1>2, <1>3, <1>4 DEF QueueInv

\* The store queue never holds more stores than it has slots, and every
\* registered promise of room in it is true in every reachable state.
THEOREM QueueInvariant == Spec => []QueueInv
<1> QED BY QueueInit, QueueInduction, PTL DEF Spec

\* The registered readies are promises: for every depth of the queue, and
\* whatever drains, merges or stalls between the offer and the store, a store
\* the core was told is taken finds its slot (l1_cache: ready_r,
\* lookup_wr_room_r, storeq_count_wr_next).
THEOREM ReadyIsKept == Spec => []ReadyKept
<1>1. QueueInv => ReadyKept
  <2> SUFFICES ASSUME QueueInv PROVE ReadyKept
    OBVIOUS
  <2>1. ready_r => state = "IDLE" /\ ~storeq_full
    BY DepthAssumption, EnqueuedLength DEF QueueInv, storeq_full
  <2>2. lookup_wr_open => Len(enqueued) < Depth
    <3>1. lookup_wr_open => Len(storeq) <= Depth - 2
      BY DEF lookup_wr_open, QueueInv
    <3>2. Len(storeq) \in Nat /\ Len(enqueued) \in {Len(storeq), Len(storeq) + 1}
      BY EnqueuedLength
    <3> QED BY <3>1, <3>2, DepthAssumption
  <2> QED BY <2>1, <2>2 DEF ReadyKept
<1> QED BY <1>1, QueueInvariant, PTL

-----------------------------------------------------------------------------
\* The posted stores: nothing is lost, duplicated or reordered on the way from
\* the core to memory.

\* The port carries the oldest store exactly while the queue says it drains.
PortInv ==
    /\ memport.valid \in BOOLEAN
    /\ storeq_draining <=> memport.valid /\ memport.use = "drain"
    /\ storeq_draining => /\ memport.addr = Head(storeq).addr
                          /\ memport.data = Head(storeq).data
                          /\ memport.be   = Head(storeq).be

StoresInv ==
    /\ QueueInv
    /\ PortInv
    /\ mem \in [Addr -> Dword] /\ arch \in [Addr -> Dword]
    /\ PostedStoresComplete

\* Appended or coalesced, the store in S_LOOKUP reads the same once it is queued.
LEMMA EnqueuedReads ==
    ASSUME QueueInv, NEW a, NEW value
    PROVE  Forward(enqueued, a, value) = Forward(Posted, a, value)
<1>1. storeq \in Seq(Slot) /\ (storeLookup => req \in Store)
  BY DEF QueueInv
<1>2. CASE ~storeLookup
  BY <1>2 DEF enqueued, Posted
<1>3. CASE storeLookup /\ ~storeq_merge_lookup
  BY <1>3 DEF enqueued, Posted
<1>4. CASE storeLookup /\ storeq_merge_lookup
  <2> DEFINE last == storeq[Len(storeq)]
             e == [addr |-> req.addr, data |-> req.data, be |-> req.be]
  <2>1. storeq # << >> /\ last.addr = req.addr
    BY <1>4 DEF storeq_merge_lookup, storeq_empty
  <2>2. last \in Slot
    BY <1>1, <2>1, LastElement
  <2>3. e \in Slot
    BY <1>1, <1>4 DEF Store, Slot
  <2>4. /\ Coalesced(last).addr = last.addr
        /\ Coalesced(last).be = last.be \cup e.be
        /\ Coalesced(last).data = Merge(last.data, e.data, e.be)
    <3>1. Coalesced(last).addr = last.addr
      BY <2>2 DEF Coalesced, Slot
    <3>2. Coalesced(last).be = last.be \cup e.be
      BY <2>2 DEF Coalesced, Slot
    <3>3. Coalesced(last).data = Merge(last.data, e.data, e.be)
      BY <2>2 DEF Coalesced, Slot
    <3> QED BY <3>1, <3>2, <3>3
  <2>5. last.be \cup e.be \subseteq DOMAIN last.data
    BY <2>2, <2>3 DEF Slot, Mask, Dword
  <2>6. enqueued \in Seq(Slot) /\ enqueued = [storeq EXCEPT ![Len(storeq)] = Coalesced(last)]
    BY <1>4, EnqueuedLength DEF enqueued
  <2>7. /\ Len(storeq) \in Nat /\ Len(storeq) \in 1..Len(storeq) /\ DOMAIN storeq = 1..Len(storeq)
        /\ Len(enqueued) = Len(storeq)
    <3>1. Len(storeq) \in Nat /\ Len(storeq) >= 1 /\ DOMAIN storeq = 1..Len(storeq)
      BY <1>1, <2>1, LastElement, LenProperties
    <3>2. Coalesced(last) \in Slot
      BY <2>2, <1>1, <1>4 DEF Coalesced, Slot, Store, Merge, Dword, Mask
    <3> QED BY <1>1, <2>1, <2>6, <3>1, <3>2, LastElement
  <2>8. Posted = Append(storeq, e)
    BY <1>4 DEF Posted
  <2>9. enqueued[Len(storeq)] = Coalesced(last)
        /\ \A k \in 1..Len(storeq) : k # Len(storeq) => enqueued[k] = storeq[k]
    BY <2>6, <2>7
  <2>10. e.addr = req.addr
    OBVIOUS
  <2> HIDE DEF e
  <2>11. Coalesces(storeq, enqueued, e)
    BY <2>1, <2>4, <2>5, <2>7, <2>9, <2>10 DEF Coalesces
  <2>12. Forward(enqueued, a, value)
          = IF e.addr = a THEN Merge(Forward(storeq, a, value), e.data, e.be)
                          ELSE Forward(storeq, a, value)
    <3>1. storeq \in Seq(Slot) /\ enqueued \in Seq(Slot)
      BY <1>1, <2>6
    <3> HIDE DEF last
    <3> QED BY <3>1, <2>11, ForwardCoalesced
  <2>13. Forward(Append(storeq, e), a, value)
          = IF e.addr = a THEN Merge(Forward(storeq, a, value), e.data, e.be)
                          ELSE Forward(storeq, a, value)
    BY <1>1, <2>3, ForwardAppend
  <2> QED BY <2>8, <2>12, <2>13
<1> QED BY <1>2, <1>3, <1>4

\* What is on its way to memory is not touched by an enqueue.
LEMMA DrainedSlotKept ==
    ASSUME QueueInv, storeq_draining
    PROVE  enqueued \in Seq(Slot) /\ enqueued # << >> /\ Head(enqueued) = Head(storeq)
<1>1. storeq \in Seq(Slot) /\ storeq # << >> /\ Len(storeq) \in Nat
  BY LenProperties DEF QueueInv
<1>2. Len(storeq) >= 1 /\ enqueued \in Seq(Slot) /\ enqueued # << >>
  BY <1>1, EnqueuedLength, LastElement, EmptySeq
<1>3. CASE ~storeLookup
  BY <1>2, <1>3 DEF enqueued
<1>4. CASE storeLookup /\ storeq_merge_lookup
  <2>1. Len(storeq) # 1 /\ Len(storeq) \in 1..Len(storeq) /\ 1 \in 1..Len(storeq)
    BY <1>1, <1>2, <1>4 DEF storeq_merge_lookup
  <2>2. enqueued = [storeq EXCEPT ![Len(storeq)] = Coalesced(storeq[Len(storeq)])]
    BY <1>4 DEF enqueued
  <2>3. DOMAIN storeq = 1..Len(storeq)
    BY <1>1, LenProperties
  <2>4. enqueued[1] = storeq[1]
    BY <2>1, <2>2, <2>3
  <2> QED BY <1>1, <1>2, <2>4
<1>5. CASE storeLookup /\ ~storeq_merge_lookup
  <2> DEFINE e == [addr |-> req.addr, data |-> req.data, be |-> req.be]
  <2>1. e \in Slot
    BY <1>5 DEF QueueInv, Store, Slot
  <2>2. enqueued = Append(storeq, e)
    BY <1>5 DEF enqueued
  <2> HIDE DEF e
  <2>3. enqueued[1] = storeq[1]
    BY <1>1, <1>2, <2>1, <2>2, AppendProperties
  <2> QED BY <1>1, <1>2, <2>3
<1> QED BY <1>3, <1>4, <1>5

\* The port and the queue stay in step.
LEMMA PortInduction ==
    ASSUME QueueInv, PortInv, NEW bus \in Bus, MemPort(bus), StoreQueue(bus)
    PROVE  PortInv'
<1>1. storeq' = storeq_next(bus)
  BY DEF StoreQueue
<1>2. bus.ready \in BOOLEAN /\ (bus.ready => memport.valid)
  BY DEF Bus
<1>3. CASE drain_issue_now(bus)
  <2>1. storeq # << >> /\ ~storeq_draining /\ storeq_draining' = TRUE
    BY <1>3 DEF drain_issue_now, storeq_empty, StoreQueue
  <2>2. storeq' = enqueued
    BY <1>1, <2>1 DEF storeq_next, storeq_dequeuing
  <2> DEFINE e == IF drain_merge_now THEN Coalesced(Head(storeq)) ELSE Head(storeq)
  <2>3. memport' = [valid |-> TRUE, use |-> "drain", addr |-> e.addr, data |-> e.data, be |-> e.be]
    <3>1. ~bypassIssue(bus) /\ ~fillIssue(bus)
      BY <1>3 DEF drain_issue_now, drain_block_state, bypassIssue, fillIssue
    <3> QED BY <1>3, <3>1 DEF MemPort
  <2>4. Head(enqueued) = e
    <3>1. storeq \in Seq(Slot) /\ Len(storeq) \in Nat /\ Len(storeq) >= 1
          /\ DOMAIN storeq = 1..Len(storeq) /\ Head(storeq) = storeq[1]
      BY <2>1, LastElement, LenProperties DEF QueueInv
    <3>2. enqueued \in Seq(Slot) /\ enqueued # << >>
      BY <3>1, EnqueuedLength, EmptySeq
    <3>3. Head(enqueued) = enqueued[1]
      BY <3>2
    <3>4. CASE ~storeLookup
      BY <3>1, <3>4 DEF enqueued, drain_merge_now
    <3>5. CASE storeLookup /\ storeq_merge_lookup
      <4>1. enqueued = [storeq EXCEPT ![Len(storeq)] = Coalesced(storeq[Len(storeq)])]
        BY <3>5 DEF enqueued
      <4>2. enqueued[1] = IF Len(storeq) = 1 THEN Coalesced(storeq[1]) ELSE storeq[1]
        BY <3>1, <4>1
      <4> QED BY <3>1, <3>3, <3>5, <4>2 DEF drain_merge_now
    <3>6. CASE storeLookup /\ ~storeq_merge_lookup
      <4> DEFINE f == [addr |-> req.addr, data |-> req.data, be |-> req.be]
      <4>1. f \in Slot
        BY <3>6 DEF QueueInv, Store, Slot
      <4>2. enqueued = Append(storeq, f)
        BY <3>6 DEF enqueued
      <4> HIDE DEF f
      <4>3. enqueued[1] = storeq[1]
        BY <3>1, <4>1, <4>2, AppendProperties
      <4> QED BY <3>1, <3>3, <3>6, <4>3 DEF drain_merge_now
    <3> QED BY <3>4, <3>5, <3>6
  <2> HIDE DEF e
  <2> QED BY <2>1, <2>2, <2>3, <2>4 DEF PortInv
<1>4. CASE ~drain_issue_now(bus) /\ memport.valid
  <2>1. ~bypassIssue(bus) /\ ~fillIssue(bus)
    BY <1>4 DEF bypassIssue, fillIssue, portFree
  <2>2. memport' = IF bus.ready THEN NoPort ELSE memport
    BY <1>4, <2>1 DEF MemPort
  <2>3. storeq_draining' = (storeq_draining /\ ~bus.ready)
    BY <1>4 DEF StoreQueue
  <2>4. CASE bus.ready
    BY <1>2, <2>2, <2>3, <2>4 DEF PortInv, NoPort
  <2>5. CASE ~bus.ready
    <3>1. storeq' = enqueued
      BY <1>1, <2>5 DEF storeq_next, storeq_dequeuing
    <3>2. storeq_draining => Head(storeq') = Head(storeq)
      BY <3>1, DrainedSlotKept
    <3>3. memport' = memport /\ storeq_draining' = storeq_draining
      BY <2>2, <2>3, <2>5 DEF QueueInv
    <3> QED BY <3>2, <3>3 DEF PortInv
  <2> QED BY <1>2, <2>4, <2>5
<1>5. CASE ~drain_issue_now(bus) /\ ~memport.valid
  <2>1. ~storeq_draining /\ ~bus.ready /\ storeq_draining' = FALSE
    BY <1>2, <1>5 DEF PortInv, StoreQueue, QueueInv
  <2>2. CASE bypassIssue(bus)
    <3>1. ~fillIssue(bus)
      BY <2>2 DEF bypassIssue, fillIssue
    <3>2. memport' = [valid |-> TRUE, use |-> "bypass", addr |-> req.addr]
      BY <1>5, <2>2, <3>1 DEF MemPort
    <3> QED BY <2>1, <3>2 DEF PortInv
  <2>3. CASE ~bypassIssue(bus) /\ fillIssue(bus)
    <3>1. memport'.valid = TRUE /\ memport'.use = "fill"
      BY <1>5, <2>3 DEF MemPort
    <3> QED BY <2>1, <3>1 DEF PortInv
  <2>4. CASE ~bypassIssue(bus) /\ ~fillIssue(bus)
    <3>1. memport' = memport
      BY <1>5, <2>1, <2>4 DEF MemPort
    <3> QED BY <1>5, <2>1, <3>1 DEF PortInv
  <2> QED BY <2>2, <2>3, <2>4
<1> QED BY <1>3, <1>4, <1>5 DEF PortInv

\* Which store the next clock finds in S_LOOKUP: the one the core presents, and
\* only if it is not to the write-protected window.  A store the core presents
\* is never refused.
LEMMA StoreAccepted ==
    ASSUME QueueInv, NEW bus \in Bus, NEW cpu \in Offered, Machine(cpu, bus)
    PROVE  /\ storeLookup' <=> cpu # None /\ cpu.write /\ cpu.addr.tag \notin Protected
           /\ storeLookup' => cpu \in Store /\ req' = cpu
<1> DEFINE Goal == /\ storeLookup' <=> cpu # None /\ cpu.write /\ cpu.addr.tag \notin Protected
                   /\ storeLookup' => cpu \in Store /\ req' = cpu
<1>1. ASSUME cpu = None, ~req_valid_r' \/ state' # "LOOKUP" PROVE Goal
  BY <1>1 DEF storeLookup
<1>2. ASSUME cpu # None, state' = "LOOKUP", req_valid_r' = TRUE, req' = cpu PROVE Goal
  <2>1. cpu \in Load \cup Store
    BY <1>2 DEF Offered
  <2>2. storeLookup' <=> cpu.write /\ cpu.addr.tag \notin Protected
    BY <1>2 DEF storeLookup, protect
  <2>3. cpu \notin Store => ~cpu.write
    BY <2>1 DEF Load
  <2> QED BY <1>2, <2>1, <2>2, <2>3
<1>3. CASE ResetInit(cpu, bus)
  BY <1>1, <1>3 DEF ResetInit, Retire
<1>4. CASE Idle(cpu, bus)
  <2>1. cpu # None => storeq_can_accept(bus)
    <3>1. cpu # None => ready_r
      BY <1>4 DEF Idle
    <3>2. ready_r => Len(storeq) \in Nat /\ Len(storeq) < Depth
      BY EnqueuedLength DEF QueueInv
    <3> QED BY <3>1, <3>2, DepthAssumption DEF storeq_can_accept, storeq_full
  <2>2. CASE cpu # None
    <3>1. state' = "LOOKUP" /\ req' = cpu /\ req_valid_r' = TRUE
      BY <1>4, <2>1, <2>2 DEF Idle, can_accept_cpu
    <3> QED BY <1>2, <2>2, <3>1
  <2>3. CASE cpu = None
    BY <1>1, <1>4, <2>3 DEF Idle, Retire
  <2> QED BY <2>2, <2>3
<1>5. CASE LookupProtected(cpu, bus)
  BY <1>1, <1>5 DEF LookupProtected, Retire
<1>6. CASE LookupStore(cpu, bus)
  <2>1. CASE cpu # None
    <3>1. state' = "LOOKUP" /\ req' = cpu /\ req_valid_r' = TRUE
      BY <1>6, <2>1 DEF LookupStore
    <3> QED BY <1>2, <2>1, <3>1
  <2>2. CASE cpu = None
    BY <1>1, <1>6, <2>2 DEF LookupStore, Retire
  <2> QED BY <2>1, <2>2
<1>7. CASE LookupUncached(cpu, bus)
  BY <1>1, <1>7 DEF LookupUncached
<1>8. CASE LookupHit(cpu, bus)
  BY <1>1, <1>8 DEF LookupHit, Retire
<1>9. CASE LookupMiss(cpu)
  BY <1>1, <1>9 DEF LookupMiss
<1>10. ASSUME cpu = None, state' = state, state # "LOOKUP" PROVE Goal
  BY <1>1, <1>10
<1>11. ASSUME NEW line, NextFillWord(bus, line), state = "FILL", cpu = None PROVE Goal
  BY <1>1, <1>10, <1>11 DEF NextFillWord, Retire
<1>12. CASE FillWait(cpu, bus)
  BY <1>10, <1>12 DEF FillWait
<1>13. CASE FillBeat(cpu, bus)
  BY <1>11, <1>13 DEF FillBeat
<1>14. CASE FillLine(cpu, bus)
  BY <1>10, <1>14 DEF FillLine
<1>15. CASE FillInstall(cpu, bus)
  BY <1>11, <1>15 DEF FillInstall
<1>16. CASE BypassWait(cpu, bus)
  BY <1>1, <1>10, <1>16 DEF BypassWait, Retire
<1> QED BY <1>3, <1>4, <1>5, <1>6, <1>7, <1>8, <1>9, <1>12, <1>13, <1>14, <1>15, <1>16
        DEF Machine

\* What an external writer leaves in memory on this clock.
Committed(m, x) == IF x = None THEN m ELSE [m EXCEPT ![x.addr] = x.data]

\* An external write reaches the core's memory and main memory alike: it is to a
\* dword no posted store is on its way to.
LEMMA ExternalWrite ==
    ASSUME StoresInv, NEW cpu \in Offered, NEW x \in Written(cpu)
    PROVE  /\ Committed(mem, x) \in [Addr -> Dword] /\ Committed(arch, x) \in [Addr -> Dword]
           /\ \A a \in Addr : Forward(Posted, a, Committed(mem, x)[a]) = Committed(arch, x)[a]
<1>1. mem \in [Addr -> Dword] /\ arch \in [Addr -> Dword] /\ PostedStoresComplete /\ QueueInv
  BY DEF StoresInv
<1>2. CASE x = None
  BY <1>1, <1>2 DEF Committed, PostedStoresComplete
<1>3. CASE x # None
  <2>1. x.addr \in Addr /\ x.data \in Dword /\ ~InFlight(x.addr, cpu)
    BY <1>3 DEF Written
  <2>2. /\ Committed(mem, x)  = [mem EXCEPT ![x.addr] = x.data]
        /\ Committed(arch, x) = [arch EXCEPT ![x.addr] = x.data]
    BY <1>3 DEF Committed
  <2>3. Posted \in Seq(Slot) /\ \A k \in DOMAIN Posted : Posted[k].addr # x.addr
    <3>1. storeq \in Seq(Slot) /\ DOMAIN storeq = 1..Len(storeq) /\ Len(storeq) \in Nat
      BY <1>1, LenProperties DEF QueueInv
    <3>2. \A k \in DOMAIN storeq : storeq[k].addr # x.addr
      BY <2>1 DEF InFlight
    <3>3. CASE storeLookup
      <4> DEFINE e == [addr |-> req.addr, data |-> req.data, be |-> req.be]
      <4>1. e \in Slot /\ e.addr # x.addr
        BY <1>1, <2>1, <3>3 DEF QueueInv, Store, Slot, InFlight, storeLookup
      <4>2. Posted = Append(storeq, e)
        BY <3>3 DEF Posted
      <4> HIDE DEF e
      <4>3. /\ Posted \in Seq(Slot) /\ DOMAIN Posted = 1..Len(storeq) + 1
            /\ Posted[Len(storeq) + 1] = e
            /\ \A k \in 1..Len(storeq) : Posted[k] = storeq[k]
        BY <3>1, <4>1, <4>2, AppendProperties, LenProperties
      <4> QED BY <3>1, <3>2, <4>1, <4>3
    <3>4. CASE ~storeLookup
      BY <3>1, <3>2, <3>4 DEF Posted
    <3> QED BY <3>3, <3>4
  <2>4. ASSUME NEW a \in Addr
        PROVE  Forward(Posted, a, Committed(mem, x)[a]) = Committed(arch, x)[a]
    <3>1. CASE a = x.addr
      <4>1. x.data \in [Lane -> Byte]
        BY <2>1 DEF Dword
      <4>2. Forward(Posted, a, x.data) = x.data
        BY ZenonT(60), <2>3, <3>1, <4>1, ForwardUntouched
      <4>3. Committed(mem, x)[a] = x.data /\ Committed(arch, x)[a] = x.data
        BY <1>1, <2>1, <2>2, <3>1
      <4> QED BY <4>2, <4>3
    <3>2. CASE a # x.addr
      <4>1. Committed(mem, x)[a] = mem[a] /\ Committed(arch, x)[a] = arch[a]
        BY <1>1, <2>2, <3>2
      <4> QED BY <1>1, <4>1 DEF PostedStoresComplete
    <3> QED BY <3>1, <3>2
  <2> QED BY <1>1, <2>1, <2>2, <2>4
<1> QED BY <1>2, <1>3

\* A drain moves the oldest store into memory and out of the queue on one clock.
LEMMA DrainIsInvisible ==
    ASSUME StoresInv, NEW cpu \in Offered, NEW x \in Written(cpu), NEW bus \in Bus,
           StoreQueue(bus), Memory(x, bus)
    PROVE  /\ mem' \in [Addr -> Dword]
           /\ \A a \in Addr : Forward(storeq', a, mem'[a]) = Committed(arch, x)[a]
<1> DEFINE m == Committed(mem, x)
<1>1. /\ m \in [Addr -> Dword]
      /\ \A a \in Addr : Forward(enqueued, a, m[a]) = Committed(arch, x)[a]
  BY ExternalWrite, EnqueuedReads DEF StoresInv
<1>2. storeq' = storeq_next(bus) /\ QueueInv /\ PortInv
  BY DEF StoreQueue, StoresInv
<1>3. mem' = IF bus.ready /\ memport.use = "drain"
             THEN [m EXCEPT ![memport.addr] = Merge(m[memport.addr], memport.data, memport.be)]
             ELSE m
  BY DEF Memory, Committed
<1>4. storeq_dequeuing(bus) <=> bus.ready /\ memport.use = "drain"
  BY <1>2 DEF Bus, PortInv, storeq_dequeuing
<1> HIDE DEF m
<1>5. CASE ~storeq_dequeuing(bus)
  <2>1. storeq' = enqueued /\ mem' = m
    BY <1>2, <1>3, <1>4, <1>5 DEF storeq_next
  <2> QED BY <1>1, <2>1
<1>6. CASE storeq_dequeuing(bus)
  <2> DEFINE e == Head(storeq)
  <2>1. storeq_draining
    BY <1>6 DEF storeq_dequeuing
  <2>2. enqueued \in Seq(Slot) /\ enqueued # << >> /\ Head(enqueued) = e
    BY <1>2, <2>1, DrainedSlotKept
  <2>3. e \in Slot
    BY <2>2, HeadTailProperties
  <2>4. memport.addr = e.addr /\ memport.data = e.data /\ memport.be = e.be
    BY <1>2, <2>1 DEF PortInv
  <2>5. storeq' = Tail(enqueued)
    BY <1>2, <1>6 DEF storeq_next
  <2>6. mem' = [m EXCEPT ![e.addr] = Merge(m[e.addr], e.data, e.be)]
    BY <1>3, <1>4, <1>6, <2>4
  <2>7. e.addr \in Addr /\ e.data \in Dword /\ e.be \subseteq Lane
    BY <2>3 DEF Slot, Mask
  <2> HIDE DEF e
  <2>8. \A a \in Addr : mem'[a] = IF e.addr = a THEN Merge(m[a], e.data, e.be) ELSE m[a]
    BY <1>1, <2>6
  <2>9. \A a \in Addr : Forward(enqueued, a, m[a]) = Forward(storeq', a, mem'[a])
    BY <2>2, <2>5, <2>8, ForwardTail
  <2>10. Merge(m[e.addr], e.data, e.be) \in Dword
    BY <1>1, <2>7 DEF Merge, Dword
  <2>11. mem' \in [Addr -> Dword]
    BY <1>1, <2>6, <2>7, <2>10
  <2> QED BY <1>1, <2>9, <2>11
<1> QED BY <1>5, <1>6

\* The store invariant is inductive.
LEMMA StoresInduction == StoresInv /\ [Next]_vars => StoresInv'
<1> SUFFICES ASSUME StoresInv, [Next]_vars PROVE StoresInv'
  OBVIOUS
<1>1. QueueInv'
  BY QueueInduction DEF StoresInv
<1>2. CASE Next
  <2>1. PICK bus \in Bus, cpu \in Offered :
          \E p \in ProbeTaken(cpu) : \E x \in Written(cpu) : \E s \in Snooped : Clock(cpu, bus, p, x, s)
    BY <1>2 DEF Next
  <2>2. PICK p \in ProbeTaken(cpu), x \in Written(cpu), s \in Snooped : Clock(cpu, bus, p, x, s)
    BY <2>1
  <2>3. /\ Machine(cpu, bus) /\ MemPort(bus) /\ StoreQueue(bus)
        /\ Memory(x, bus) /\ History(cpu, x)
    BY <2>2 DEF Clock, Datapath
  <2>4. PortInv'
    BY <2>3, PortInduction DEF StoresInv
  <2> DEFINE a0 == Committed(arch, x)
             e  == [addr |-> cpu.addr, data |-> cpu.data, be |-> cpu.be]
  <2>5. /\ mem' \in [Addr -> Dword] /\ a0 \in [Addr -> Dword]
        /\ \A a \in Addr : Forward(storeq', a, mem'[a]) = a0[a]
    BY <2>3, DrainIsInvisible, ExternalWrite
  <2>6. storeq' \in Seq(Slot)
    BY <1>1 DEF QueueInv
  <2>7. arch' = IF cpu # None /\ cpu.write /\ cpu.addr.tag \notin Protected
                THEN [a0 EXCEPT ![cpu.addr] = Merge(a0[cpu.addr], cpu.data, cpu.be)] ELSE a0
    BY <2>3 DEF History, Committed
  <2>8. /\ storeLookup' <=> cpu # None /\ cpu.write /\ cpu.addr.tag \notin Protected
        /\ storeLookup' => cpu \in Store /\ req' = cpu
    BY <2>3, StoreAccepted DEF StoresInv
  <2> HIDE DEF a0
  <2>9. CASE ~storeLookup'
    <3>1. arch' = a0 /\ Posted' = storeq'
      BY <2>7, <2>8, <2>9 DEF Posted
    <3>2. PostedStoresComplete'
      BY <2>5, <3>1 DEF PostedStoresComplete
    <3> QED BY <1>1, <2>4, <2>5, <3>1, <3>2 DEF StoresInv
  <2>10. CASE storeLookup'
    <3>1. e \in Slot
      BY <2>8, <2>10 DEF Store, Slot
    <3>2. Posted' = Append(storeq', e)
      BY <2>8, <2>10 DEF Posted
    <3>3. e.addr = cpu.addr /\ e.data = cpu.data /\ e.be = cpu.be
      OBVIOUS
    <3> HIDE DEF e
    <3>4. arch' = [a0 EXCEPT ![e.addr] = Merge(a0[e.addr], e.data, e.be)]
      BY <2>7, <2>8, <2>10, <3>3
    <3>5. Merge(a0[e.addr], e.data, e.be) \in Dword /\ e.addr \in Addr
      BY <2>5, <3>1 DEF Slot, Merge, Dword
    <3>6. arch' \in [Addr -> Dword]
          /\ \A a \in Addr : arch'[a] = IF e.addr = a THEN Merge(a0[a], e.data, e.be) ELSE a0[a]
      BY <2>5, <3>4, <3>5
    <3>7. ASSUME NEW a \in Addr PROVE Forward(Posted', a, mem'[a]) = arch'[a]
      <4>1. Forward(Append(storeq', e), a, mem'[a]) =
              IF e.addr = a THEN Merge(Forward(storeq', a, mem'[a]), e.data, e.be)
                            ELSE Forward(storeq', a, mem'[a])
        BY <2>6, <3>1, ForwardAppend
      <4> QED BY <2>5, <3>2, <3>6, <4>1
    <3>8. PostedStoresComplete'
      BY <3>7 DEF PostedStoresComplete
    <3> QED BY <1>1, <2>4, <2>5, <3>6, <3>8 DEF StoresInv
  <2> QED BY <2>9, <2>10
<1>3. CASE UNCHANGED vars
  <2>1. PortInv' /\ mem' = mem /\ arch' = arch
    BY <1>3 DEF StoresInv, PortInv, vars, path, external, history
  <2>3. PostedStoresComplete'
    BY <1>3 DEF StoresInv, PostedStoresComplete, Posted, storeLookup, protect, vars, fsm, path,
                external, history
  <2> QED BY <1>1, <2>1, <2>3 DEF StoresInv
<1> QED BY <1>2, <1>3

\* Reset starts with nothing posted and memory as the core knows it.
LEMMA StoresInit == Init => StoresInv
<1> SUFFICES ASSUME Init PROVE StoresInv
  OBVIOUS
<1>1. QueueInv
  BY QueueInit
<1>2. PICK zero \in Dword : mem = [a \in Addr |-> zero]
  BY DEF Init
<1>3. storeq = << >> /\ storeq_draining = FALSE /\ memport = NoPort /\ arch = mem
      /\ state = "RESET"
  BY DEF Init
<1>4. PortInv
  BY <1>3 DEF PortInv, NoPort
<1>5. ASSUME NEW a \in Addr PROVE Forward(Posted, a, mem[a]) = arch[a]
  <2>1. Posted = << >>
    BY <1>3 DEF Posted, storeLookup
  <2>2. << >> \in Seq(Slot) /\ DOMAIN << >> = {}
    BY EmptySeq
  <2>3. mem[a] \in [Lane -> Byte]
    BY <1>2 DEF Dword
  <2>4. Forward(<< >>, a, mem[a]) = mem[a]
    BY <2>2, <2>3, ForwardUntouched
  <2> QED BY <1>3, <2>1, <2>4
<1> QED BY <1>1, <1>2, <1>3, <1>4, <1>5 DEF StoresInv, PostedStoresComplete

\* No posted store is lost, duplicated or applied out of order, for every depth
\* of the queue, every number of ways, sets and lanes, and whatever coalesces,
\* drains, fills or snoops beside it (l1_cache: enqueue, storeq_merge_lookup,
\* drain_merge_now, storeq_dequeuing).
THEOREM StoresAreNotLost == Spec => []PostedStoresComplete
<1>1. StoresInv => PostedStoresComplete
  BY DEF StoresInv
<1> QED BY <1>1, StoresInit, StoresInduction, PTL DEF Spec

\* The drained signal the device path waits for is true: once it is raised,
\* memory is what the core's stores made it (l1_cache: stores_drained).
THEOREM DrainedIsVisible == Spec => []DrainedMeansVisible
<1>1. StoresInv => DrainedMeansVisible
  <2> SUFFICES ASSUME StoresInv, stores_drained PROVE mem = arch
    BY DEF DrainedMeansVisible
  <2>1. storeq = << >> /\ Posted = storeq
    BY DEF stores_drained, storeq_empty, Posted, storeLookup
  <2>2. << >> \in Seq(Slot) /\ DOMAIN << >> = {}
    BY EmptySeq
  <2>3. ASSUME NEW a \in Addr PROVE mem[a] = arch[a]
    <3>1. mem[a] \in [Lane -> Byte]
      BY DEF StoresInv, Dword
    <3>2. Forward(<< >>, a, mem[a]) = mem[a]
      BY <2>2, <3>1, ForwardUntouched
    <3> QED BY <2>1, <3>2 DEF StoresInv, PostedStoresComplete
  <2>4. mem \in [Addr -> Dword] /\ arch \in [Addr -> Dword]
    BY DEF StoresInv
  <2> QED BY <2>3, <2>4
<1> QED BY <1>1, StoresInit, StoresInduction, PTL DEF Spec

-----------------------------------------------------------------------------

\* The fill registers while a fill runs.
FillRecord == [set : CacheSet, tag : Tag, way : Way, count : Word, target : Word,
               requested : BOOLEAN, install : BOOLEAN, line : {None} \cup [Word -> Dword]]

\* What the FSM state says of the registers it works on.
StateInv ==
    /\ state \in {"LOOKUP", "FILL", "BYPASS"} => req \in Load \cup Store
    /\ state = "FILL" => fill \in FillRecord
    /\ state = "FILL" /\ ~fill.requested => fill.count = 0 /\ ~fill.install
    /\ state = "FILL" /\ fill.install => fill.line \in [Word -> Dword]

\* A way with a valid tag was read together with its dword.
ReadInv == \A w \in Way : rd.tag[w] # None => rd.data[w] \in Dword

TypesInv == TypeOK /\ StoresInv /\ StateInv /\ ReadInStep /\ ReadInv

-----------------------------------------------------------------------------
\* Merging and forwarding give dwords.
LEMMA MergeType ==
    ASSUME NEW old \in Dword, NEW new \in Dword, NEW be
    PROVE  Merge(old, new, be) \in Dword
BY DEF Merge, Dword

LEMMA ForwardType ==
    ASSUME NEW q \in Seq(Slot), NEW a, NEW value \in Dword
    PROVE  Forward(q, a, value) \in Dword
<1>1. \A e \in Slot : e.data \in [Lane -> Byte]
  BY DEF Slot, Dword
<1> QED BY <1>1, ForwardKeepsType DEF Dword

-----------------------------------------------------------------------------
\* What the clock's inputs are, and what the RAMs and the bus deliver.

LEMMA OfferedType ==
    ASSUME NEW cpu \in Offered, cpu # None
    PROVE  cpu \in Load \cup Store /\ cpu.addr \in Addr
<1>1. cpu \in Load \cup Store
  BY DEF Offered
<1> QED BY <1>1 DEF Load, Store

\* A hit selects a way and its dword, the RAM's or the patch that raced it.
LEMMA HitType ==
    ASSUME TypesInv, NEW t \in Tag, HitWays(t) # {}, NEW s, NEW d
    PROVE  /\ Least(HitWays(t)) \in Way
           /\ WayData(Least(HitWays(t)), s, d) \in Dword
<1> DEFINE w == Least(HitWays(t))
<1>1. HitWays(t) \in SUBSET Nat
  BY IndexAssumption DEF HitWays
<1>2. w \in HitWays(t)
  BY <1>1, LeastMember
<1>3. w \in Way /\ rd.tag[w] = t
  BY <1>2 DEF HitWays
<1>4. rd.data[w] \in Dword
  BY <1>3, NoneAssumption DEF TypesInv, ReadInv
<1>5. patch_fwd.valid => patch_fwd.data \in Dword
  <2>1. patch_fwd \in {NoPatch} \cup
          [valid : {TRUE}, way : Way, set : CacheSet, word : Word, data : Dword]
    BY DEF TypesInv, TypeOK
  <2>2. CASE patch_fwd = NoPatch
    BY <2>2 DEF NoPatch
  <2>3. CASE patch_fwd \in
               [valid : {TRUE}, way : Way, set : CacheSet, word : Word, data : Dword]
    BY <2>3
  <2> QED BY <2>1, <2>2, <2>3
<1> HIDE DEF w
<1>6. WayData(w, s, d) \in Dword
  BY <1>4, <1>5 DEF WayData
<1> QED BY <1>3, <1>6 DEF w

LEMMA LookupHitType ==
    ASSUME TypesInv, state = "LOOKUP", lookup_hit
    PROVE  lookup_way \in Way /\ lookup_way_data \in Dword
<1>1. req.addr.tag \in Tag
  BY DEF TypesInv, StateInv, Load, Store, Addr
<1> QED BY <1>1, HitType DEF lookup_hit, lookup_way, lookup_way_data

\* The dword of a beat lies in the line, with the queued stores over it.
LEMMA BeatType ==
    ASSUME TypesInv, state = "FILL", reading.left > 0
    PROVE  /\ fillWord \in Dword
           /\ wideLine \in [Word -> Dword]
           /\ fill \in FillRecord /\ fill.requested /\ ~fill.install
           /\ reading.left \in 1..LastWord + 1 /\ fill.count = LastWord + 1 - reading.left
<1>1. /\ mem \in [Addr -> Dword] /\ storeq \in Seq(Slot)
      /\ fill \in FillRecord /\ fill.requested /\ ~fill.install
      /\ fill.count = LastWord + 1 - reading.left
  BY DEF TypesInv, StoresInv, QueueInv, StateInv, ReadInStep
<1>2. reading \in [left : 1..LastWord + 1, addr : Addr]
  BY DEF TypesInv, TypeOK, NoRead
<1>3. reading.addr \in Addr
  BY <1>2
<1>4. mem_dout \in Dword
  BY <1>1, <1>3 DEF mem_dout
<1>5. fillWord \in Dword
  BY <1>1, <1>4, ForwardType DEF fillWord
<1>6. ASSUME NEW d \in Word
      PROVE  Forward(storeq, [req.addr EXCEPT !.word = d],
                     mem[[reading.addr EXCEPT !.word = d]]) \in Dword
  <2>1. [reading.addr EXCEPT !.word = d] \in Addr
    BY <1>3 DEF Addr
  <2>2. mem[[reading.addr EXCEPT !.word = d]] \in Dword
    BY <1>1, <2>1
  <2> QED BY <1>1, <2>2, ForwardType
<1>7. wideLine \in [Word -> Dword]
  BY <1>6 DEF wideLine
<1> QED BY <1>1, <1>2, <1>5, <1>7

-----------------------------------------------------------------------------
\* The state machine.

\* The types of the registers the state machine drives.
FsmTypes ==
    /\ state \in {"RESET", "IDLE", "LOOKUP", "FILL", "BYPASS"}
    /\ init_set \in CacheSet
    /\ req \in Load \cup Store \cup {NoReq}
    /\ req_valid_r \in BOOLEAN /\ ready_r \in BOOLEAN /\ lookup_wr_room_r \in BOOLEAN
    /\ resp \in [valid : {TRUE}, data : Dword] \cup [valid : {FALSE}, data : {None}]
    /\ fill \in {NoFill} \cup FillRecord

\* The end of an access needs only its registers' own types.
LEMMA RetireTypes ==
    ASSUME NEW ready, Retire(ready), ready \in BOOLEAN,
           init_set' \in CacheSet, lookup_wr_room_r' \in BOOLEAN,
           resp' \in [valid : {TRUE}, data : Dword] \cup [valid : {FALSE}, data : {None}],
           fill' \in {NoFill} \cup FillRecord
    PROVE  FsmTypes' /\ StateInv'
BY DEF Retire, FsmTypes, StateInv

LEMMA NoResponseType ==
    ASSUME NoResponse
    PROVE  resp' \in [valid : {TRUE}, data : Dword] \cup [valid : {FALSE}, data : {None}]
BY DEF NoResponse

\* One word of a fill: the last one retires the fill, another one counts on.
LEMMA NextFillWordTypes ==
    ASSUME TypesInv, NEW bus, NEW line \in {None} \cup [Word -> Dword],
           state = "FILL", fill \in FillRecord, fill.requested,
           fill.install => line \in [Word -> Dword],
           NextFillWord(bus, line), UNCHANGED <<init_set, lookup_wr_room_r>>,
           resp' \in [valid : {TRUE}, data : Dword] \cup [valid : {FALSE}, data : {None}]
    PROVE  FsmTypes' /\ StateInv'
<1>1. init_set' \in CacheSet /\ lookup_wr_room_r' \in BOOLEAN
  BY DEF TypesInv, TypeOK
<1>2. CASE fill.count = LastWord
  <2>1. Retire(ready_when_idle(bus)) /\ fill' = NoFill
    BY <1>2 DEF NextFillWord
  <2>2. ready_when_idle(bus) \in BOOLEAN
    BY DEF ready_when_idle, storeq_can_accept
  <2> QED BY <1>1, <2>1, <2>2, RetireTypes
<1>3. CASE fill.count # LastWord
  <2>1. /\ fill' = [fill EXCEPT !.count = fill.count + 1, !.line = line]
        /\ ready_r' = FALSE /\ UNCHANGED <<state, req, req_valid_r>>
    BY <1>3 DEF NextFillWord
  <2>2. fill.count + 1 \in Word
    BY <1>3, IndexAssumption DEF FillRecord, Word
  <2>3. /\ fill'.requested = fill.requested /\ fill'.install = fill.install
        /\ fill'.line = line /\ fill' \in FillRecord
    BY <2>1, <2>2 DEF FillRecord
  <2>4. FsmTypes'
    BY <1>1, <2>1, <2>3 DEF TypesInv, TypeOK, FsmTypes
  <2>5. StateInv'
    BY <2>1, <2>3 DEF TypesInv, StateInv
  <2> QED BY <2>4, <2>5
<1> QED BY <1>2, <1>3

\* One step per arm of the state machine.
LEMMA MachineTypes ==
    ASSUME TypesInv, NEW bus \in Bus, NEW cpu \in Offered, Machine(cpu, bus)
    PROVE  FsmTypes' /\ StateInv'
<1> DEFINE RespType == [valid : {TRUE}, data : Dword] \cup [valid : {FALSE}, data : {None}]
<1>1. FsmTypes /\ StateInv /\ fill \in {NoFill} \cup FillRecord
  BY DEF TypesInv, TypeOK, FsmTypes, FillRecord
<1>2. ready_when_idle(bus) \in BOOLEAN
  BY DEF ready_when_idle, storeq_can_accept
<1>3. NoResponse => resp' \in RespType
  BY NoResponseType
<1>4. ASSUME Retire(ready_when_idle(bus)), NoResponse, init_set' \in CacheSet,
             lookup_wr_room_r' \in BOOLEAN, UNCHANGED fill
      PROVE  FsmTypes' /\ StateInv'
  BY <1>1, <1>2, <1>3, <1>4, RetireTypes
<1>5. CASE ResetInit(cpu, bus)
  <2>1. CASE init_set = LastSet
    BY <1>1, <1>4, <1>5, <2>1 DEF ResetInit, FsmTypes
  <2>2. CASE init_set # LastSet
    <3>1. init_set' \in CacheSet
      BY <1>1, <1>5, <2>2, IndexAssumption DEF ResetInit, FsmTypes, CacheSet
    <3> QED BY <1>1, <1>3, <1>5, <2>2, <3>1 DEF ResetInit, FsmTypes, StateInv
  <2> QED BY <2>1, <2>2
<1>6. CASE Idle(cpu, bus)
  <2>1. lookup_wr_room_r' \in BOOLEAN /\ init_set' \in CacheSet /\ NoResponse /\ UNCHANGED fill
    BY <1>1, <1>6 DEF Idle, FsmTypes
  <2>2. CASE cpu # None /\ can_accept_cpu(cpu, bus)
    <3>1. state' = "LOOKUP" /\ req' = cpu /\ req_valid_r' = TRUE /\ ready_r' = FALSE
      BY <1>6, <2>2 DEF Idle
    <3>2. cpu \in Load \cup Store
      BY <2>2, OfferedType
    <3> QED BY <1>1, <1>3, <2>1, <3>1, <3>2 DEF FsmTypes, StateInv
  <2>3. CASE ~(cpu # None /\ can_accept_cpu(cpu, bus))
    BY <1>4, <1>6, <2>1, <2>3 DEF Idle
  <2> QED BY <2>2, <2>3
<1>7. CASE LookupProtected(cpu, bus)
  BY <1>1, <1>4, <1>7 DEF LookupProtected, FsmTypes
<1>8. CASE LookupStore(cpu, bus)
  <2>1. lookup_wr_room_r' \in BOOLEAN /\ init_set' \in CacheSet /\ NoResponse /\ UNCHANGED fill
        /\ state = "LOOKUP"
    BY <1>1, <1>8 DEF LookupStore, FsmTypes
  <2>2. CASE cpu # None
    <3>1. state' = "LOOKUP" /\ req' = cpu /\ req_valid_r' = TRUE /\ ready_r' = FALSE
      BY <1>8, <2>1, <2>2 DEF LookupStore
    <3>2. cpu \in Load \cup Store
      BY <2>2, OfferedType
    <3> QED BY <1>1, <1>3, <2>1, <3>1, <3>2 DEF FsmTypes, StateInv
  <2>3. CASE cpu = None
    <3>1. Retire(Len(storeq_next(bus)) # Depth)
      BY <1>8, <2>3 DEF LookupStore
    <3> QED BY <1>1, <1>3, <2>1, <3>1, RetireTypes
  <2> QED BY <2>2, <2>3
<1>9. CASE LookupUncached(cpu, bus)
  BY <1>1, <1>3, <1>9 DEF LookupUncached, FsmTypes, StateInv
<1>10. CASE LookupHit(cpu, bus)
  BY <1>1, <1>4, <1>10 DEF LookupHit, FsmTypes
<1>11. CASE LookupMiss(cpu)
  <2>1. PICK victim \in Way :
          fill' = [set |-> req.addr.set, tag |-> req.addr.tag, way |-> victim, count |-> 0,
                   target |-> req.addr.word, requested |-> FALSE, install |-> FALSE,
                   line |-> None]
    BY <1>11 DEF LookupMiss
  <2>2. req.addr \in Addr
    BY <1>1, <1>11 DEF LookupMiss, StateInv, Load, Store
  <2>3. 0 \in Word
    BY IndexAssumption DEF Word
  <2>4. fill' \in FillRecord /\ fill'.count = 0 /\ ~fill'.install
    BY <2>1, <2>2, <2>3 DEF FillRecord, Addr
  <2> QED BY <1>1, <1>3, <1>11, <2>4 DEF LookupMiss, FsmTypes, StateInv
<1>12. CASE FillWait(cpu, bus)
  <2>1. fill \in FillRecord /\ ~fill.install
    BY <1>1, <1>12 DEF FillWait, StateInv
  <2>2. fill' = [fill EXCEPT !.requested = fill.requested \/ fillIssue(bus)]
    BY <1>12 DEF FillWait
  <2>3. /\ fill'.count = fill.count /\ fill'.install = fill.install
        /\ fill'.requested = (fill.requested \/ fillIssue(bus))
        /\ fill' \in FillRecord
    BY <2>1, <2>2 DEF FillRecord
  <2> QED BY <1>1, <1>3, <1>12, <2>1, <2>3 DEF FillWait, FsmTypes, StateInv
<1>13. CASE FillBeat(cpu, bus)
  <2>1. state = "FILL" /\ reading.left > 0
    BY <1>13 DEF FillBeat, Bus
  <2>2. fillWord \in Dword /\ fill \in FillRecord /\ fill.requested /\ ~fill.install
    BY <2>1, BeatType
  <2>3. resp' \in RespType
    <3>1. resp' = [valid |-> TRUE, data |-> fillWord] \/ NoResponse
      BY <1>13 DEF FillBeat
    <3>2. CASE resp' = [valid |-> TRUE, data |-> fillWord]
      BY <2>2, <3>2
    <3> QED BY <1>3, <3>1, <3>2
  <2>4. NextFillWord(bus, None) /\ UNCHANGED <<init_set, lookup_wr_room_r>>
    BY <1>13 DEF FillBeat
  <2> QED BY <2>1, <2>2, <2>3, <2>4, NextFillWordTypes
<1>14. CASE FillLine(cpu, bus)
  <2>1. state = "FILL" /\ reading.left > 0
    BY <1>14 DEF FillLine, Bus
  <2>2. wideLine \in [Word -> Dword] /\ fill \in FillRecord /\ fill.requested
    BY <2>1, BeatType
  <2>3. resp' \in RespType
    <3>1. wideLine[fill.target] \in Dword
      BY <2>2 DEF FillRecord
    <3>2. resp' = [valid |-> TRUE, data |-> wideLine[fill.target]]
      BY <1>14 DEF FillLine
    <3> QED BY <3>1, <3>2
  <2>4. fill' = [fill EXCEPT !.install = TRUE, !.line = wideLine]
    BY <1>14 DEF FillLine
  <2>5. fill' \in FillRecord /\ fill'.requested /\ fill'.line = wideLine
    BY <2>2, <2>4 DEF FillRecord
  <2> QED BY <1>1, <1>14, <2>2, <2>3, <2>5 DEF FillLine, FsmTypes, StateInv
<1>15. CASE FillInstall(cpu, bus)
  <2>1. /\ state = "FILL" /\ fill \in FillRecord /\ fill.requested
        /\ fill.line \in [Word -> Dword]
    BY <1>1, <1>15 DEF FillInstall, StateInv
  <2> QED BY <1>3, <1>15, <2>1, NextFillWordTypes DEF FillInstall
<1>16. CASE BypassWait(cpu, bus)
  <2>1. CASE bus.resp = "beat"
    <3>1. reading.addr \in Addr
      BY <1>16, <2>1 DEF Bus, TypesInv, TypeOK, NoRead
    <3>2. mem_dout \in Dword /\ storeq \in Seq(Slot)
      BY <3>1 DEF mem_dout, TypesInv, StoresInv, QueueInv
    <3>3. Forward(storeq, req.addr, mem_dout) \in Dword
      BY <3>2, ForwardType
    <3>4. /\ resp' = [valid |-> TRUE, data |-> Forward(storeq, req.addr, mem_dout)]
          /\ Retire(ready_when_idle(bus))
      BY <1>16, <2>1 DEF BypassWait
    <3>5. resp' \in RespType
      BY <3>3, <3>4
    <3> QED BY <1>1, <1>2, <1>16, <3>4, <3>5, RetireTypes DEF BypassWait, FsmTypes
  <2>2. CASE bus.resp # "beat"
    BY <1>1, <1>3, <1>16, <2>2 DEF BypassWait, FsmTypes, StateInv
  <2> QED BY <2>1, <2>2
<1> QED BY <1>5, <1>6, <1>7, <1>8, <1>9, <1>10, <1>11, <1>12, <1>13, <1>14, <1>15, <1>16
        DEF Machine

-----------------------------------------------------------------------------
\* The port and the read under way.

\* What the port asks for on the next clock: a launch of this clock, or the same
\* request again because the bus did not take it.
LEMMA PortStep ==
    ASSUME TypesInv, NEW bus \in Bus, MemPort(bus)
    PROVE  /\ memport' \in {NoPort} \cup
                [valid : {TRUE}, use : {"drain"}, addr : Addr, data : Dword, be : Mask] \cup
                [valid : {TRUE}, use : {"bypass", "fill"}, addr : Addr]
           /\ Asked("bypass")' => \/ bypassIssue(bus) /\ memport'.addr = req.addr
                                  \/ Asked("bypass") /\ ~bus.ready /\ memport' = memport
           /\ Asked("fill")' => \/ fillIssue(bus) /\ memport'.addr = [req.addr EXCEPT !.word = 0]
                                \/ Asked("fill") /\ ~bus.ready /\ memport' = memport
<1> DEFINE DrainPort == [valid : {TRUE}, use : {"drain"}, addr : Addr, data : Dword, be : Mask]
           ReadPort  == [valid : {TRUE}, use : {"bypass", "fill"}, addr : Addr]
<1>1. memport \in {NoPort} \cup DrainPort \cup ReadPort
  BY DEF TypesInv, TypeOK
<1>2. /\ storeq \in Seq(Slot) /\ (storeLookup => req \in Store)
      /\ state \in {"LOOKUP", "FILL", "BYPASS"} => req \in Load \cup Store
  BY DEF TypesInv, StoresInv, QueueInv, StateInv
<1>3. state \in {"LOOKUP", "FILL"} => req.addr \in Addr
  BY <1>2 DEF Load, Store
<1>4. CASE drain_issue_now(bus)
  <2> DEFINE e == IF drain_merge_now THEN Coalesced(Head(storeq)) ELSE Head(storeq)
  <2>1. storeq # << >>
    BY <1>4 DEF drain_issue_now, storeq_empty
  <2>2. Head(storeq) \in Slot
    BY <1>2, <2>1, HeadTailProperties
  <2>3. storeLookup => Coalesced(Head(storeq)) \in Slot
    BY <1>2, <2>2 DEF Coalesced, Slot, Store, Merge, Dword, Mask
  <2>4. e \in Slot
    BY <2>2, <2>3 DEF drain_merge_now
  <2>5. memport' = [valid |-> TRUE, use |-> "drain", addr |-> e.addr, data |-> e.data, be |-> e.be]
    BY <1>4 DEF MemPort, bypassIssue, fillIssue, drain_issue_now, drain_block_state, storeq_empty
  <2> HIDE DEF e
  <2>6. memport' \in DrainPort /\ memport'.use = "drain"
    BY <2>4, <2>5 DEF Slot
  <2> QED BY <2>6 DEF Asked
<1>5. CASE bypassIssue(bus)
  <2>1. memport' = [valid |-> TRUE, use |-> "bypass", addr |-> req.addr]
    BY <1>5 DEF MemPort, bypassIssue, fillIssue, drain_issue_now, storeq_empty
  <2>2. memport' \in ReadPort /\ memport'.use = "bypass" /\ memport'.addr = req.addr
    BY <1>3, <1>5, <2>1 DEF bypassIssue
  <2> QED BY <1>5, <2>2 DEF Asked
<1>6. CASE fillIssue(bus)
  <2>1. memport' = [valid |-> TRUE, use |-> "fill", addr |-> [req.addr EXCEPT !.word = 0]]
    BY <1>6 DEF MemPort, bypassIssue, fillIssue, drain_issue_now, drain_block_state
  <2>2. [req.addr EXCEPT !.word = 0] \in Addr
    BY <1>3, <1>6, IndexAssumption DEF fillIssue, Addr, Word
  <2>3. memport' \in ReadPort /\ memport'.use = "fill" /\ memport'.addr = [req.addr EXCEPT !.word = 0]
    BY <2>1, <2>2
  <2> QED BY <1>6, <2>3 DEF Asked
<1>7. CASE ~drain_issue_now(bus) /\ ~bypassIssue(bus) /\ ~fillIssue(bus)
  <2>1. memport' = IF bus.ready THEN NoPort ELSE memport
    BY <1>7 DEF MemPort
  <2> QED BY <1>1, <2>1 DEF Asked, NoPort
<1> QED BY <1>4, <1>5, <1>6, <1>7

\* What the bus owes on the next clock: the read it takes now, the rest of the
\* one under way after a beat, or the same.
LEMMA ReadStep ==
    ASSUME TypesInv, NEW bus \in Bus, NEW x, Memory(x, bus)
    PROVE  /\ reading' \in {NoRead} \cup [left : 1..LastWord + 1, addr : Addr]
           /\ reading'.left > 0 =>
                \/ bus.ready /\ Asked("fill") /\ reading'.left = LastWord + 1
                     /\ reading'.addr = memport.addr
                \/ bus.ready /\ Asked("bypass") /\ reading'.left = 1
                     /\ reading'.addr = memport.addr
                \/ /\ bus.resp = "beat" /\ reading.left > 1
                   /\ reading'.left = reading.left - 1
                   /\ reading'.addr = [reading.addr EXCEPT !.word = reading.addr.word + 1]
                \/ bus.resp = "none" /\ reading.left > 0 /\ reading' = reading
<1>1. reading \in {NoRead} \cup [left : 1..LastWord + 1, addr : Addr]
  BY DEF TypesInv, TypeOK
<1>2. memport.valid /\ memport.use \in {"bypass", "fill"} => memport.addr \in Addr
  <2>1. memport \in {NoPort} \cup
          [valid : {TRUE}, use : {"drain"}, addr : Addr, data : Dword, be : Mask] \cup
          [valid : {TRUE}, use : {"bypass", "fill"}, addr : Addr]
    BY DEF TypesInv, TypeOK
  <2>2. memport = NoPort => ~memport.valid
    BY DEF NoPort
  <2>3. memport \in [valid : {TRUE}, use : {"drain"}, addr : Addr, data : Dword, be : Mask]
          => memport.use = "drain"
    OBVIOUS
  <2>4. memport \in [valid : {TRUE}, use : {"bypass", "fill"}, addr : Addr]
          => memport.addr \in Addr
    OBVIOUS
  <2> QED BY <2>1, <2>2, <2>3, <2>4
<1>3. /\ bus.ready => memport.valid
      /\ bus.resp \in {"none", "beat", "line"}
      /\ bus.resp # "none" => reading.left > 0
  BY DEF Bus
<1>4. LastWord + 1 \in Nat /\ 1 \in 1..LastWord + 1 /\ LastWord + 1 \in 1..LastWord + 1
  BY IndexAssumption
<1>5. CASE bus.ready /\ memport.use \in {"fill", "bypass"}
  <2>1. /\ reading.left = 0 /\ Asked(memport.use)
    BY <1>1, <1>3, <1>5 DEF TypesInv, ReadInStep, Asked, NoRead
  <2>2. bus.resp = "none"
    BY <1>3, <2>1
  <2>3. /\ memport.use = "fill"   => reading' = [left |-> LastWord + 1, addr |-> memport.addr]
        /\ memport.use = "bypass" => reading' = [left |-> 1, addr |-> memport.addr]
    BY <1>5, <2>2 DEF Memory
  <2> QED BY <1>2, <1>4, <1>5, <2>1, <2>3 DEF Asked
<1>6. CASE ~(bus.ready /\ memport.use \in {"fill", "bypass"})
  <2>1. CASE bus.resp = "line" \/ (bus.resp = "beat" /\ reading.left = 1)
    <3>1. reading' = NoRead
      BY <1>6, <2>1 DEF Memory
    <3> QED BY <3>1 DEF NoRead
  <2>2. CASE bus.resp = "beat" /\ reading.left > 1
    <3>1. reading' = [left |-> reading.left - 1,
                      addr |-> [reading.addr EXCEPT !.word = reading.addr.word + 1]]
      BY <1>6, <2>2 DEF Memory
    <3>2. reading.left - 1 \in 1..LastWord + 1
      BY <1>1, <1>4, <2>2 DEF NoRead
    <3>3. reading.addr = fill_addr_dw /\ fill.count = LastWord + 1 - reading.left
          /\ state = "FILL" /\ reading.left \in 1..LastWord + 1 /\ reading.addr \in Addr
      BY <1>1, <2>2 DEF TypesInv, ReadInStep, NoRead
    <3>4. req.addr \in Addr
      BY <3>3 DEF TypesInv, StateInv, Load, Store
    <3>5. reading.addr.word = fill.count
      BY <3>3, <3>4 DEF fill_addr_dw, Addr
    <3>6. reading.addr.word + 1 \in Word
      BY <2>2, <3>3, <3>5, IndexAssumption DEF Word
    <3>7. [reading.addr EXCEPT !.word = reading.addr.word + 1] \in Addr
      BY <3>3, <3>6 DEF Addr
    <3> QED BY <2>2, <3>1, <3>2, <3>7
  <2>3. CASE bus.resp = "none"
    <3>1. reading' = reading
      BY <1>6, <2>3 DEF Memory
    <3> QED BY <1>1, <2>3, <3>1
  <2>4. bus.resp = "beat" => reading.left = 1 \/ reading.left > 1
    BY <1>1, <1>3 DEF NoRead
  <2> QED BY <1>3, <2>1, <2>2, <2>3, <2>4
<1> QED BY <1>5, <1>6

\* The fill counter moves with the beats.
LEMMA FsmReads ==
    ASSUME TypesInv, NEW bus \in Bus, NEW cpu \in Offered, Machine(cpu, bus)
    PROVE  /\ bypassIssue(bus) => state' = "BYPASS" /\ req' = req
           /\ state = "BYPASS" /\ bus.resp = "none" => state' = "BYPASS" /\ req' = req
           /\ state = "FILL" /\ ~fill.install /\ bus.resp = "none" =>
                /\ state' = "FILL" /\ req' = req /\ fill'.count = fill.count /\ fill'.install = fill.install
                /\ fill'.requested = (fill.requested \/ fillIssue(bus))
           /\ state = "FILL" /\ ~fill.install /\ bus.resp = "beat" /\ fill.count # LastWord =>
                /\ state' = "FILL" /\ req' = req /\ fill'.count = fill.count + 1
                /\ fill'.install = fill.install /\ fill'.requested = fill.requested
<1>1. state = "FILL" => fill \in FillRecord
  BY DEF TypesInv, StateInv
<1>2. CASE state \notin {"FILL", "BYPASS"}
  <2>1. ASSUME bypassIssue(bus) PROVE state' = "BYPASS" /\ req' = req
    <3>1. LookupUncached(cpu, bus)
      BY <2>1 DEF Machine, ResetInit, Idle, LookupProtected, LookupStore, LookupHit, LookupMiss,
                  FillWait, FillBeat, FillLine, FillInstall, BypassWait, bypassIssue, protect
    <3> QED BY <2>1, <3>1 DEF LookupUncached
  <2> QED BY <1>2, <2>1
<1>3. CASE state = "BYPASS"
  <2>1. BypassWait(cpu, bus)
    BY <1>3 DEF Machine, ResetInit, Idle, LookupProtected, LookupStore, LookupUncached, LookupHit,
                LookupMiss, FillWait, FillBeat, FillLine, FillInstall
  <2> QED BY <1>3, <2>1 DEF BypassWait, bypassIssue
<1>4. CASE state = "FILL"
  <2>1. FillWait(cpu, bus) \/ FillBeat(cpu, bus) \/ FillLine(cpu, bus) \/ FillInstall(cpu, bus)
    BY <1>4 DEF Machine, ResetInit, Idle, LookupProtected, LookupStore, LookupUncached, LookupHit,
                LookupMiss, BypassWait
  <2>2. CASE FillWait(cpu, bus)
    <3>1. fill' = [fill EXCEPT !.requested = fill.requested \/ fillIssue(bus)] /\ state' = state
          /\ req' = req /\ bus.resp = "none"
      BY <2>2 DEF FillWait
    <3>2. /\ fill'.count = fill.count /\ fill'.install = fill.install
          /\ fill'.requested = (fill.requested \/ fillIssue(bus))
      BY <1>1, <1>4, <3>1 DEF FillRecord
    <3> QED BY <1>4, <3>1, <3>2 DEF bypassIssue
  <2>3. CASE FillBeat(cpu, bus)
    <3>1. bus.resp = "beat" /\ NextFillWord(bus, None)
      BY <2>3 DEF FillBeat
    <3>2. CASE fill.count # LastWord
      <4>1. fill' = [fill EXCEPT !.count = fill.count + 1, !.line = None] /\ state' = state
            /\ req' = req
        BY <3>1, <3>2 DEF NextFillWord
      <4>2. /\ fill'.count = fill.count + 1 /\ fill'.install = fill.install
            /\ fill'.requested = fill.requested
        BY <1>1, <1>4, <4>1 DEF FillRecord
      <4> QED BY <1>4, <3>1, <4>1, <4>2 DEF bypassIssue
    <3> QED BY <1>4, <3>1, <3>2 DEF bypassIssue
  <2>4. CASE FillLine(cpu, bus)
    BY <1>4, <2>4 DEF FillLine, bypassIssue
  <2>5. CASE FillInstall(cpu, bus)
    BY <1>4, <2>5 DEF FillInstall, bypassIssue
  <2> QED BY <2>1, <2>2, <2>3, <2>4, <2>5
<1> QED BY <1>2, <1>3, <1>4

\* A request leaves the port before its first beat, and the counter and the
\* beats still due always add up to the line.
LEMMA ReadStaysInStep ==
    ASSUME TypesInv, NEW bus \in Bus, NEW cpu \in Offered, NEW x,
           Machine(cpu, bus), MemPort(bus), Memory(x, bus)
    PROVE  ReadInStep'
<1>1. /\ reading \in {NoRead} \cup [left : 1..LastWord + 1, addr : Addr]
      /\ reading' \in {NoRead} \cup [left : 1..LastWord + 1, addr : Addr]
  BY ReadStep DEF TypesInv, TypeOK
<1>2. /\ reading.left \in Nat /\ reading'.left \in Nat /\ reading'.left <= LastWord + 1
  BY <1>1, IndexAssumption DEF NoRead
<1>3. /\ bus.ready => memport.valid
      /\ bus.resp \in {"none", "beat", "line"}
      /\ bus.resp # "none" => reading.left > 0
  BY DEF Bus
<1>4. ReadInStep
  BY DEF TypesInv
<1>5. reading.left = 0 => bus.resp = "none"
  BY <1>2, <1>3
<1>6. ASSUME Asked("bypass")'
      PROVE  state' = "BYPASS" /\ reading'.left = 0 /\ memport'.addr = req'.addr
  <2>1. \/ bypassIssue(bus) /\ memport'.addr = req.addr
        \/ Asked("bypass") /\ ~bus.ready /\ memport' = memport
    BY <1>6, PortStep
  <2>2. /\ reading.left = 0 /\ ~(Asked("bypass") /\ bus.ready) /\ ~Asked("fill")
        /\ memport'.addr = req.addr /\ (bypassIssue(bus) \/ state = "BYPASS")
    BY <1>2, <1>4, <2>1 DEF ReadInStep, bypassIssue, portFree, Asked
  <2>3. reading'.left = 0
    BY <1>2, <2>2, ReadStep
  <2>4. state' = "BYPASS" /\ req' = req
    BY <1>5, <2>2, FsmReads
  <2> QED BY <2>2, <2>3, <2>4
<1>7. ASSUME Asked("fill")'
      PROVE  /\ state' = "FILL" /\ fill'.requested /\ ~fill'.install /\ fill'.count = 0
             /\ memport'.addr = fill_addr_dw' /\ reading'.left = 0
  <2>1. \/ fillIssue(bus) /\ memport'.addr = [req.addr EXCEPT !.word = 0]
        \/ Asked("fill") /\ ~bus.ready /\ memport' = memport
    BY <1>7, PortStep
  <2>2. /\ reading.left = 0 /\ state = "FILL" /\ ~fill.install /\ fill.count = 0
        /\ ~Asked("bypass") /\ ~(Asked("fill") /\ bus.ready)
        /\ (fill.requested \/ fillIssue(bus))
    BY <1>2, <1>4, <2>1 DEF TypesInv, StateInv, ReadInStep, fillIssue, portFree, Asked
  <2>3. memport'.addr = [req.addr EXCEPT !.word = 0]
    BY <1>4, <2>1, <2>2 DEF ReadInStep, fill_addr_dw
  <2>4. reading'.left = 0
    BY <1>2, <2>2, ReadStep
  <2>5. /\ state' = "FILL" /\ req' = req /\ fill'.requested /\ ~fill'.install /\ fill'.count = 0
    BY <1>5, <2>2, FsmReads
  <2> QED BY <2>3, <2>4, <2>5 DEF fill_addr_dw
<1>8. ASSUME reading'.left > 0
      PROVE  \/ state' = "BYPASS" /\ reading'.left = 1 /\ reading'.addr = req'.addr
             \/ /\ state' = "FILL" /\ fill'.requested /\ ~fill'.install
                /\ reading'.addr = fill_addr_dw' /\ fill'.count = LastWord + 1 - reading'.left
  <2>1. CASE bus.ready /\ Asked("fill") /\ reading'.left = LastWord + 1
             /\ reading'.addr = memport.addr
    <3>1. /\ state = "FILL" /\ fill.requested /\ ~fill.install /\ fill.count = 0
          /\ memport.addr = [req.addr EXCEPT !.word = 0] /\ reading.left = 0
      BY <1>4, <2>1 DEF ReadInStep, fill_addr_dw
    <3>2. state' = "FILL" /\ req' = req /\ fill'.requested /\ ~fill'.install /\ fill'.count = 0
      BY <1>5, <3>1, FsmReads
    <3>3. reading'.addr = fill_addr_dw'
      BY <2>1, <3>1, <3>2 DEF fill_addr_dw
    <3> QED BY <2>1, <3>2, <3>3, IndexAssumption
  <2>2. CASE bus.ready /\ Asked("bypass") /\ reading'.left = 1 /\ reading'.addr = memport.addr
    BY <1>4, <1>5, <2>2, FsmReads DEF ReadInStep
  <2>3. CASE /\ bus.resp = "beat" /\ reading.left > 1
             /\ reading'.left = reading.left - 1
             /\ reading'.addr = [reading.addr EXCEPT !.word = reading.addr.word + 1]
    <3>1. /\ state = "FILL" /\ fill.requested /\ ~fill.install
          /\ reading.addr = [req.addr EXCEPT !.word = fill.count]
          /\ fill.count = LastWord + 1 - reading.left
      BY <1>2, <1>4, <2>3 DEF ReadInStep, fill_addr_dw
    <3>2. fill.count # LastWord /\ LastWord \in Nat
      BY <1>2, <2>3, <3>1, IndexAssumption
    <3>3. /\ state' = "FILL" /\ req' = req /\ fill'.count = fill.count + 1
          /\ fill'.install = fill.install /\ fill'.requested = fill.requested
      BY <2>3, <3>1, <3>2, FsmReads
    <3>4. fill'.count = LastWord + 1 - reading'.left
      BY <1>2, <2>3, <3>1, <3>2, <3>3
    <3>5. req.addr \in Addr
      BY <3>1 DEF TypesInv, StateInv, Load, Store
    <3>6. reading'.addr = [req.addr EXCEPT !.word = fill.count + 1]
      BY <2>3, <3>1, <3>5 DEF Addr
    <3>7. reading'.addr = fill_addr_dw'
      BY <3>3, <3>6 DEF fill_addr_dw
    <3> QED BY <3>1, <3>3, <3>4, <3>7
  <2>4. CASE bus.resp = "none" /\ reading.left > 0 /\ reading' = reading
    <3>1. CASE state = "BYPASS"
      BY <1>4, <2>4, <3>1, FsmReads DEF ReadInStep
    <3>2. CASE state = "FILL"
      BY <1>4, <2>4, <3>2, FsmReads DEF ReadInStep, fill_addr_dw
    <3> QED BY <1>4, <2>4, <3>1, <3>2 DEF ReadInStep
  <2> QED BY <1>8, <2>1, <2>2, <2>3, <2>4, ReadStep
<1> QED BY <1>6, <1>7, <1>8 DEF ReadInStep

-----------------------------------------------------------------------------
\* The RAMs, the read registers and the surroundings.

PatchType == {NoPatch} \cup
               [valid : {TRUE}, way : Way, set : CacheSet, word : Word, data : Dword]

\* The word a store patches into its line.
LEMMA PatchedDword ==
    ASSUME TypesInv, data_store_write
    PROVE  /\ lookup_way \in Way /\ req.addr.set \in CacheSet /\ req.addr.word \in Word
           /\ Merge(lookup_way_data, req.data, req.be) \in Dword
<1>1. state = "LOOKUP" /\ lookup_hit /\ req \in Store
  BY DEF data_store_write, storeLookup, TypesInv, StoresInv, QueueInv
<1>2. lookup_way \in Way /\ lookup_way_data \in Dword
  BY <1>1, LookupHitType
<1>3. req.addr \in Addr /\ req.data \in Dword
  BY <1>1 DEF Store
<1>4. Merge(lookup_way_data, req.data, req.be) \in Dword
  BY <1>2, <1>3, MergeType
<1> QED BY <1>2, <1>3, <1>4 DEF Addr

LEMMA RamTypes ==
    ASSUME TypesInv, NEW bus \in Bus, TagRams(bus), DataRams(bus), PatchForward
    PROVE  /\ tags' \in [Way -> [CacheSet -> Tag \cup {None}]]
           /\ ways' \in [Way -> [CacheSet -> [Word -> Dword]]]
           /\ patch_fwd' \in PatchType
<1>1. /\ tags \in [Way -> [CacheSet -> Tag \cup {None}]]
      /\ ways \in [Way -> [CacheSet -> [Word -> Dword]]]
      /\ state = "FILL" => fill \in FillRecord
  BY DEF TypesInv, TypeOK, StateInv
<1>2. tags' \in [Way -> [CacheSet -> Tag \cup {None}]]
  <2> DEFINE clear == IF state = "RESET" THEN init_set ELSE snoop_r
             Row(w) == IF tagFillWrite(bus) /\ w = fill.way
                       THEN [tags[w] EXCEPT ![fill.set] = fill.tag]
                       ELSE [s \in CacheSet |-> IF s = clear THEN None ELSE tags[w][s]]
  <2>1. tags' = [w \in Way |-> Row(w)]
    BY DEF TagRams
  <2>2. ASSUME NEW w \in Way PROVE Row(w) \in [CacheSet -> Tag \cup {None}]
    <3>1. tags[w] \in [CacheSet -> Tag \cup {None}]
      BY <1>1
    <3>2. tagFillWrite(bus) => fill.set \in CacheSet /\ fill.tag \in Tag
      BY <1>1 DEF tagFillWrite, FillRecord
    <3> QED BY <3>1, <3>2
  <2> QED BY <2>1, <2>2
<1>3. ASSUME NEW w \in Way, NEW s \in CacheSet, NEW d \in Word, NEW v \in Dword,
             ways' = [ways EXCEPT ![w][s][d] = v]
      PROVE  ways' \in [Way -> [CacheSet -> [Word -> Dword]]]
  BY <1>1, <1>3
<1>4. ways' \in [Way -> [CacheSet -> [Word -> Dword]]]
  <2>1. CASE data_store_write
    <3>1. ~data_fill_write(bus)
      BY <2>1 DEF data_store_write, storeLookup, data_fill_write
    <3>2. ways' = [ways EXCEPT ![lookup_way][req.addr.set][req.addr.word] =
                                 Merge(lookup_way_data, req.data, req.be)]
      BY <2>1, <3>1 DEF DataRams
    <3> QED BY <1>3, <2>1, <3>2, PatchedDword
  <2>2. CASE ~data_store_write /\ data_fill_write(bus)
    <3>1. state = "FILL" /\ fill \in FillRecord
      BY <1>1, <2>2 DEF data_fill_write
    <3>2. (IF fill.install THEN fill.line[fill.count] ELSE fillWord) \in Dword
      <4>1. CASE fill.install
        BY <3>1, <4>1 DEF TypesInv, StateInv, FillRecord
      <4>2. CASE ~fill.install
        <5>1. reading.left > 0
          BY <2>2, <4>2 DEF data_fill_write, Bus
        <5> QED BY <3>1, <4>2, <5>1, BeatType
      <4> QED BY <4>1, <4>2
    <3>3. ways' = [ways EXCEPT ![fill.way][fill.set][fill.count] =
                                 IF fill.install THEN fill.line[fill.count] ELSE fillWord]
      BY <2>2 DEF DataRams
    <3> QED BY <1>3, <3>1, <3>2, <3>3 DEF FillRecord
  <2>3. CASE ~data_store_write /\ ~data_fill_write(bus)
    BY <1>1, <2>3 DEF DataRams
  <2> QED BY <2>1, <2>2, <2>3
<1>5. patch_fwd' \in PatchType
  <2>1. CASE data_store_write
    <3>1. patch_fwd' = [valid |-> TRUE, way |-> lookup_way, set |-> req.addr.set,
                        word |-> req.addr.word,
                        data |-> Merge(lookup_way_data, req.data, req.be)]
      BY <2>1 DEF PatchForward
    <3> QED BY <2>1, <3>1, PatchedDword DEF PatchType
  <2>2. CASE ~data_store_write
    BY <2>2 DEF PatchForward, PatchType
  <2> QED BY <2>1, <2>2
<1> QED BY <1>2, <1>4, <1>5

\* A synchronous read fills the tag and the dword of every way together.
LEMMA PrereadTypes ==
    ASSUME TypesInv, NEW bus \in Bus, NEW cpu \in Offered, NEW p \in ProbeTaken(cpu),
           Preread(cpu, p)
    PROVE  /\ rd' \in [tag : [Way -> Tag \cup {None}], data : [Way -> Dword \cup {NoDword}]]
           /\ ReadInv'
           /\ p # None => p \in [set : CacheSet, word : Word]
<1>1. /\ tags \in [Way -> [CacheSet -> Tag \cup {None}]]
      /\ ways \in [Way -> [CacheSet -> [Word -> Dword]]]
      /\ rd \in [tag : [Way -> Tag \cup {None}], data : [Way -> Dword \cup {NoDword}]]
      /\ ReadInv
  BY DEF TypesInv, TypeOK
<1>2. p # None => p \in [set : CacheSet, word : Word]
  BY DEF ProbeTaken
<1>3. CASE p # None \/ cpu # None
  <2> DEFINE a == IF p # None THEN p ELSE cpu.addr
  <2>1. a.set \in CacheSet /\ a.word \in Word
    BY <1>2, <1>3, OfferedType DEF Addr
  <2>2. rd' = [tag  |-> [w \in Way |-> tags[w][a.set]],
               data |-> [w \in Way |-> ways[w][a.set][a.word]]]
    BY <1>3 DEF Preread
  <2> HIDE DEF a
  <2>3. \A w \in Way : tags[w][a.set] \in Tag \cup {None} /\ ways[w][a.set][a.word] \in Dword
    BY <1>1, <2>1
  <2>4. /\ rd'.tag \in [Way -> Tag \cup {None}] /\ rd'.data \in [Way -> Dword]
    BY <2>2, <2>3
  <2>5. rd' \in [tag : [Way -> Tag \cup {None}], data : [Way -> Dword \cup {NoDword}]]
    BY <2>2, <2>4
  <2> QED BY <1>2, <2>4, <2>5 DEF ReadInv
<1>4. CASE ~(p # None \/ cpu # None)
  <2>1. rd' = rd \/ rd' = NoRd
    BY <1>4 DEF Preread
  <2>2. NoRd \in [tag : [Way -> Tag \cup {None}], data : [Way -> Dword \cup {NoDword}]]
        /\ \A w \in Way : NoRd.tag[w] = None
    BY DEF NoRd
  <2> QED BY <1>1, <1>2, <2>1, <2>2 DEF ReadInv
<1> QED BY <1>3, <1>4

\* The histories: what the core waits for and what a writer wrote are addresses.
LEMMA HistoryTypes ==
    ASSUME TypesInv, NEW cpu \in Offered, NEW x \in Written(cpu), History(cpu, x)
    PROVE  pending' \in Addr \cup {None} /\ wrote' \in Addr \cup {None}
<1>1. pending \in Addr \cup {None}
  BY DEF TypesInv, TypeOK
<1>2. x # None => x.addr \in Addr
  BY DEF Written
<1> QED BY <1>1, <1>2, OfferedType DEF History

-----------------------------------------------------------------------------
\* Every clock keeps the types.
LEMMA TypesInduction == TypesInv /\ [Next]_vars => TypesInv'
<1> SUFFICES ASSUME TypesInv, [Next]_vars PROVE TypesInv'
  OBVIOUS
<1>1. StoresInv'
  BY StoresInduction DEF TypesInv
<1>2. CASE Next
  <2>1. PICK bus \in Bus, cpu \in Offered :
          \E p \in ProbeTaken(cpu) : \E x \in Written(cpu) : \E s \in Snooped : Clock(cpu, bus, p, x, s)
    BY <1>2 DEF Next
  <2>2. PICK p \in ProbeTaken(cpu), x \in Written(cpu), s \in Snooped : Clock(cpu, bus, p, x, s)
    BY <2>1
  <2>3. /\ Machine(cpu, bus) /\ MemPort(bus) /\ StoreQueue(bus)
        /\ TagRams(bus) /\ DataRams(bus) /\ PatchForward /\ Preread(cpu, p)
        /\ snoop_r' = s /\ probe' = p /\ Memory(x, bus) /\ History(cpu, x)
    BY <2>2 DEF Clock, Datapath
  <2>4. FsmTypes' /\ StateInv'
    BY <2>3, MachineTypes
  <2>5. ReadInStep'
    BY <2>3, ReadStaysInStep
  <2>6. /\ storeq' \in Seq(Slot) /\ Len(storeq') <= Depth /\ storeq_draining' \in BOOLEAN
        /\ mem' \in [Addr -> Dword] /\ arch' \in [Addr -> Dword]
    BY <1>1 DEF StoresInv, QueueInv
  <2>7. memport' \in {NoPort} \cup
          [valid : {TRUE}, use : {"drain"}, addr : Addr, data : Dword, be : Mask] \cup
          [valid : {TRUE}, use : {"bypass", "fill"}, addr : Addr]
    BY <2>3, PortStep
  <2>8. reading' \in {NoRead} \cup [left : 1..LastWord + 1, addr : Addr]
    BY <2>3, ReadStep
  <2>9. /\ tags' \in [Way -> [CacheSet -> Tag \cup {None}]]
        /\ ways' \in [Way -> [CacheSet -> [Word -> Dword]]]
        /\ patch_fwd' \in PatchType
    BY <2>3, RamTypes
  <2>10. /\ rd' \in [tag : [Way -> Tag \cup {None}], data : [Way -> Dword \cup {NoDword}]]
         /\ ReadInv' /\ (p # None => p \in [set : CacheSet, word : Word])
    BY <2>3, PrereadTypes
  <2>11. snoop_r' \in CacheSet \cup {None}
    BY <2>3 DEF Snooped
  <2>12. probe' \in [set : CacheSet, word : Word] \cup {None}
    BY <2>3, <2>10
  <2>13. pending' \in Addr \cup {None} /\ wrote' \in Addr \cup {None}
    BY <2>3, HistoryTypes
  <2>14. TypeOK'
    BY <2>4, <2>6, <2>7, <2>8, <2>9, <2>10, <2>11, <2>12, <2>13
       DEF TypeOK, FsmTypes, PatchType, FillRecord
  <2> QED BY <1>1, <2>4, <2>5, <2>10, <2>14 DEF TypesInv
<1>3. CASE UNCHANGED vars
  <2>1. /\ state' = state /\ init_set' = init_set /\ req' = req /\ req_valid_r' = req_valid_r
        /\ ready_r' = ready_r /\ lookup_wr_room_r' = lookup_wr_room_r /\ resp' = resp
        /\ fill' = fill /\ memport' = memport /\ tags' = tags /\ ways' = ways /\ rd' = rd
        /\ patch_fwd' = patch_fwd /\ snoop_r' = snoop_r /\ probe' = probe
        /\ reading' = reading /\ pending' = pending /\ wrote' = wrote
    BY <1>3 DEF vars, fsm, path, external, history
  <2>2. TypeOK'
    <3>1. /\ storeq' \in Seq(Slot) /\ Len(storeq') <= Depth /\ storeq_draining' \in BOOLEAN
          /\ mem' \in [Addr -> Dword] /\ arch' \in [Addr -> Dword]
      BY <1>1 DEF StoresInv, QueueInv
    <3>2. FsmTypes
      BY DEF TypesInv, TypeOK, FsmTypes, FillRecord
    <3>3. FsmTypes'
      BY <2>1, <3>2 DEF FsmTypes
    <3> QED BY <2>1, <3>1, <3>3 DEF TypesInv, TypeOK, FsmTypes, FillRecord
  <2>3. StateInv' /\ ReadInStep' /\ ReadInv'
    BY <2>1 DEF TypesInv, StateInv, ReadInStep, fill_addr_dw, Asked, ReadInv
  <2> QED BY <1>1, <2>2, <2>3 DEF TypesInv
<1> QED BY <1>2, <1>3

\* Reset.
LEMMA TypesInit == Init => TypesInv
<1> SUFFICES ASSUME Init PROVE TypesInv
  OBVIOUS
<1>1. StoresInv
  BY StoresInit
<1>2. PICK junk \in Dword : ways = [w \in Way |-> [s \in CacheSet |-> [d \in Word |-> junk]]]
  BY DEF Init
<1>3. ways \in [Way -> [CacheSet -> [Word -> Dword]]]
  BY <1>2
<1>4. 0 \in CacheSet
  BY IndexAssumption DEF CacheSet
<1>5. /\ storeq \in Seq(Slot) /\ Len(storeq) <= Depth /\ storeq_draining \in BOOLEAN
      /\ mem \in [Addr -> Dword] /\ arch \in [Addr -> Dword]
  BY <1>1 DEF StoresInv, QueueInv
<1>6. /\ state = "RESET" /\ init_set = 0
      /\ req = NoReq /\ req_valid_r = FALSE /\ ready_r = FALSE /\ lookup_wr_room_r = FALSE
      /\ resp = [valid |-> FALSE, data |-> None] /\ fill = NoFill
      /\ memport = NoPort /\ tags \in [Way -> [CacheSet -> Tag \cup {None}]]
      /\ rd = NoRd /\ patch_fwd = NoPatch /\ snoop_r = None /\ probe = None
      /\ reading = NoRead /\ pending = None /\ wrote = None
  BY DEF Init
<1>7. resp \in [valid : {FALSE}, data : {None}]
  BY <1>6
<1>8. NoRd \in [tag : [Way -> Tag \cup {None}], data : [Way -> Dword \cup {NoDword}]]
      /\ \A w \in Way : NoRd.tag[w] = None
  BY DEF NoRd
<1>9. TypeOK
  BY <1>3, <1>4, <1>5, <1>6, <1>7, <1>8 DEF TypeOK
<1>10. StateInv /\ ReadInv
  BY <1>6, <1>8 DEF StateInv, ReadInv
<1>11. ReadInStep
  BY <1>6 DEF ReadInStep, Asked, NoPort, NoRead
<1> QED BY <1>1, <1>9, <1>10, <1>11 DEF TypesInv

\* Every register of the cache and its queue holds a value of its type, for
\* every queue depth, geometry and memory (l1_cache: all of its registers).
THEOREM TypesAreKept == Spec => []TypeOK
<1>1. TypesInv => TypeOK
  BY DEF TypesInv
<1> QED BY <1>1, TypesInit, TypesInduction, PTL DEF Spec

\* The cache has one read under way, and the next dword the bus returns is the
\* one fill_addr_dw names, for every length of a line and every gap between the
\* beats (l1_cache: S_FILL, S_BYPASS_WAIT, fill_requested, fill_count).
THEOREM ReadsKeepStep == Spec => []ReadInStep
<1>1. TypesInv => ReadInStep
  BY DEF TypesInv
<1> QED BY <1>1, TypesInit, TypesInduction, PTL DEF Spec

-----------------------------------------------------------------------------
\* A line is in one way.

\* Why a fill may install its line: the tags were read before the miss was
\* decided, and since then the set has only lost lines.
WaysInv ==
    /\ state = "RESET" => \A w \in Way : \A s \in CacheSet : s < init_set => tags[w][s] = None
    /\ state = "LOOKUP" => \A w \in Way : tags[w][req.addr.set] \in {rd.tag[w], None}
    /\ state = "FILL" => \A w \in Way : tags[w][fill.set] # fill.tag
    /\ OneWayPerLine

\* A tag stays, is cleared, or is the one a fill installs with its last word.
LEMMA TagStep ==
    ASSUME TypesInv, NEW bus \in Bus, TagRams(bus), NEW w \in Way, NEW s \in CacheSet
    PROVE  \/ tags'[w][s] = tags[w][s]
           \/ tags'[w][s] = None
           \/ tagFillWrite(bus) /\ w = fill.way /\ s = fill.set /\ tags'[w][s] = fill.tag
<1> DEFINE clear == IF state = "RESET" THEN init_set ELSE snoop_r
<1>1. tags'[w] = IF tagFillWrite(bus) /\ w = fill.way
                 THEN [tags[w] EXCEPT ![fill.set] = fill.tag]
                 ELSE [r \in CacheSet |-> IF r = clear THEN None ELSE tags[w][r]]
  BY DEF TagRams
<1>2. tags[w] \in [CacheSet -> Tag \cup {None}]
  BY DEF TypesInv, TypeOK
<1> HIDE DEF clear
<1> QED BY <1>1, <1>2

\* Each clock of the initialisation clears the next set in every way.
LEMMA ResetClears ==
    ASSUME TypesInv, WaysInv, NEW bus \in Bus, TagRams(bus), state = "RESET",
           NEW w \in Way, NEW s \in CacheSet, s <= init_set
    PROVE  tags'[w][s] = None
<1>1. ~tagFillWrite(bus)
  BY DEF tagFillWrite
<1>2. tags'[w] = [r \in CacheSet |-> IF r = init_set THEN None ELSE tags[w][r]]
  BY <1>1 DEF TagRams
<1>3. s # init_set => s < init_set
  BY IndexAssumption DEF TypesInv, TypeOK, CacheSet
<1> QED BY <1>2, <1>3 DEF WaysInv

\* The tags a lookup finds in rd are those of its set.
LEMMA LookupReadsItsSet ==
    ASSUME TypesInv, WaysInv, NEW bus \in Bus, NEW cpu \in Offered, NEW p \in ProbeTaken(cpu),
           Machine(cpu, bus), TagRams(bus), Preread(cpu, p), state' = "LOOKUP"
    PROVE  \A w \in Way : tags'[w][req'.addr.set] \in {rd'.tag[w], None}
<1>1. req'.addr.set \in CacheSet
  BY MachineTypes DEF StateInv, Load, Store, Addr
<1>2. state \in {"IDLE", "LOOKUP"} /\ ~tagFillWrite(bus)
  BY DEF Machine, ResetInit, Idle, LookupProtected, LookupStore, LookupUncached, LookupHit,
         LookupMiss, FillWait, FillBeat, FillLine, FillInstall, BypassWait, NextFillWord, Retire,
         tagFillWrite
<1>3. \A w \in Way : tags'[w][req'.addr.set] \in {tags[w][req'.addr.set], None}
  BY <1>1, <1>2, TagStep
<1>4. CASE cpu # None
  <2>1. req' = cpu
    BY <1>2, <1>4 DEF Machine, ResetInit, Idle, LookupProtected, LookupStore, LookupUncached,
                      LookupHit, LookupMiss, FillWait, FillBeat, FillLine, FillInstall, BypassWait,
                      Retire
  <2>2. p # None => p.set = cpu.addr.set
    BY <1>4 DEF ProbeTaken
  <2>3. rd'.tag = [w \in Way |-> tags[w][cpu.addr.set]]
    BY <1>4, <2>2 DEF Preread
  <2> QED BY <1>3, <2>1, <2>3
<1>5. CASE cpu = None
  <2>1. LookupUncached(cpu, bus)
    BY <1>2, <1>5 DEF Machine, ResetInit, Idle, LookupProtected, LookupStore, LookupUncached,
                      LookupHit, LookupMiss, FillWait, FillBeat, FillLine, FillInstall, BypassWait,
                      Retire
  <2>2. p = None
    BY <1>5, <2>1 DEF LookupUncached, ProbeTaken, idle_preread, storeLookup
  <2>3. rd' = rd /\ req' = req /\ state = "LOOKUP"
    BY <1>5, <2>1, <2>2 DEF Preread, LookupUncached
  <2> QED BY <1>3, <2>3 DEF WaysInv
<1> QED BY <1>4, <1>5

\* A fill under way is for a line its set does not hold.
LEMMA FillIsOfMissingLine ==
    ASSUME TypesInv, WaysInv, NEW bus \in Bus, NEW cpu \in Offered,
           Machine(cpu, bus), TagRams(bus), state' = "FILL"
    PROVE  \A w \in Way : tags'[w][fill'.set] # fill'.tag
<1>1. fill'.set \in CacheSet /\ fill'.tag \in Tag
  BY MachineTypes DEF StateInv, FillRecord
<1>2. CASE state = "FILL"
  <2>1. fill \in FillRecord
    BY <1>2 DEF TypesInv, StateInv
  <2>2. FillWait(cpu, bus) \/ FillBeat(cpu, bus) \/ FillLine(cpu, bus) \/ FillInstall(cpu, bus)
    BY <1>2 DEF Machine, ResetInit, Idle, LookupProtected, LookupStore, LookupUncached, LookupHit,
                LookupMiss, BypassWait
  <2>3. ASSUME NEW line, NextFillWord(bus, line)
        PROVE  fill' = [fill EXCEPT !.count = fill.count + 1, !.line = line] /\ ~tagFillWrite(bus)
    BY <2>3 DEF NextFillWord, Retire, tagFillWrite
  <2>4. fill'.set = fill.set /\ fill'.tag = fill.tag /\ ~tagFillWrite(bus)
    <3>1. CASE FillWait(cpu, bus)
      BY <2>1, <3>1 DEF FillWait, tagFillWrite, FillRecord
    <3>2. CASE FillBeat(cpu, bus)
      BY <2>1, <2>3, <3>2 DEF FillBeat, FillRecord
    <3>3. CASE FillLine(cpu, bus)
      BY <2>1, <3>3 DEF FillLine, tagFillWrite, FillRecord
    <3>4. CASE FillInstall(cpu, bus)
      BY <2>1, <2>3, <3>4 DEF FillInstall, FillRecord
    <3> QED BY <2>2, <3>1, <3>2, <3>3, <3>4
  <2>5. \A w \in Way : tags'[w][fill.set] \in {tags[w][fill.set], None}
    BY <1>1, <2>4, TagStep
  <2> QED BY <1>1, <1>2, <2>4, <2>5, NoneAssumption DEF WaysInv
<1>3. CASE state # "FILL"
  <2>1. LookupMiss(cpu)
    BY <1>3 DEF Machine, ResetInit, Idle, LookupProtected, LookupStore, LookupUncached, LookupHit,
                FillWait, FillBeat, FillLine, FillInstall, BypassWait, Retire
  <2>2. /\ state = "LOOKUP" /\ ~lookup_hit
        /\ fill'.set = req.addr.set /\ fill'.tag = req.addr.tag
    BY <2>1 DEF LookupMiss
  <2>3. \A w \in Way : rd.tag[w] # req.addr.tag
    BY <2>2 DEF lookup_hit, HitWays
  <2>4. ~tagFillWrite(bus)
    BY <1>3 DEF tagFillWrite
  <2>5. \A w \in Way : tags'[w][fill'.set] \in {rd.tag[w], None}
    BY <1>1, <2>2, <2>4, TagStep DEF WaysInv
  <2> QED BY <1>1, <2>2, <2>3, <2>5, NoneAssumption
<1> QED BY <1>2, <1>3

\* Two ways cannot come to hold one line.
LEMMA OneWayStep ==
    ASSUME TypesInv, WaysInv, NEW bus \in Bus, NEW cpu \in Offered,
           Machine(cpu, bus), TagRams(bus)
    PROVE  OneWayPerLine'
<1> SUFFICES ASSUME NEW s \in CacheSet, NEW v \in Way, NEW w \in Way,
                    state' # "RESET", tags'[v][s] # None, tags'[v][s] = tags'[w][s]
             PROVE  v = w
  BY DEF OneWayPerLine
<1>1. CASE state = "RESET"
  <2>1. init_set = LastSet
    BY <1>1 DEF Machine, ResetInit, Idle, LookupProtected, LookupStore, LookupUncached, LookupHit,
                LookupMiss, FillWait, FillBeat, FillLine, FillInstall, BypassWait
  <2>2. s <= init_set
    BY <2>1, IndexAssumption DEF CacheSet
  <2>3. tags'[v][s] = None
    BY <1>1, <2>2, ResetClears
  <2> QED BY <2>3
<1>2. CASE state # "RESET"
  <2> DEFINE installed(y) == tagFillWrite(bus) /\ y = fill.way /\ s = fill.set
                             /\ tags'[y][s] = fill.tag
  <2>1. /\ tags'[v][s] = tags[v][s] \/ installed(v)
        /\ tags'[w][s] = tags[w][s] \/ installed(w)
    BY TagStep
  <2>2. tagFillWrite(bus) => \A y \in Way : tags[y][fill.set] # fill.tag
    BY DEF tagFillWrite, WaysInv
  <2>3. tags'[v][s] = tags[v][s] /\ tags'[w][s] = tags[w][s] => v = w
    BY <1>2 DEF WaysInv, OneWayPerLine
  <2> QED BY <2>1, <2>2, <2>3
<1> QED BY <1>1, <1>2

LEMMA WaysInduction == TypesInv /\ WaysInv /\ [Next]_vars => WaysInv'
<1> SUFFICES ASSUME TypesInv, WaysInv, [Next]_vars PROVE WaysInv'
  OBVIOUS
<1>1. CASE Next
  <2>1. PICK bus \in Bus, cpu \in Offered :
          \E p \in ProbeTaken(cpu) : \E x \in Written(cpu) : \E s \in Snooped : Clock(cpu, bus, p, x, s)
    BY <1>1 DEF Next
  <2>2. PICK p \in ProbeTaken(cpu), x \in Written(cpu), s \in Snooped : Clock(cpu, bus, p, x, s)
    BY <2>1
  <2>3. Machine(cpu, bus) /\ TagRams(bus) /\ Preread(cpu, p)
    BY <2>2 DEF Clock, Datapath
  <2>4. ASSUME state' = "RESET", NEW w \in Way, NEW r \in CacheSet, r < init_set'
        PROVE  tags'[w][r] = None
    <3>1. state = "RESET" /\ init_set' = init_set + 1
      BY <2>3, <2>4 DEF Machine, ResetInit, Idle, LookupProtected, LookupStore, LookupUncached,
                        LookupHit, LookupMiss, FillWait, FillBeat, FillLine, FillInstall,
                        BypassWait, NextFillWord, Retire
    <3>2. r <= init_set
      BY <2>4, <3>1, IndexAssumption DEF TypesInv, TypeOK, CacheSet
    <3> QED BY <2>3, <3>1, <3>2, ResetClears
  <2> QED BY <2>3, <2>4, LookupReadsItsSet, FillIsOfMissingLine, OneWayStep DEF WaysInv
<1>2. CASE UNCHANGED vars
  <2>1. /\ state' = state /\ init_set' = init_set /\ req' = req /\ fill' = fill
        /\ tags' = tags /\ rd' = rd
    BY <1>2 DEF vars, fsm, path
  <2> QED BY <2>1 DEF WaysInv, OneWayPerLine
<1> QED BY <1>1, <1>2

\* A line is never valid in two ways of its set, whatever is snooped, filled or
\* disabled: a store or a probe that hits has one word to patch or read
\* (l1_cache: way_encode, tag_fill_write, the reset and snoop clears).
THEOREM LinesHaveOneWay == Spec => []OneWayPerLine
<1>1. Init => WaysInv
  <2> SUFFICES ASSUME Init PROVE WaysInv
    OBVIOUS
  <2>1. state = "RESET" /\ init_set = 0
    BY DEF Init
  <2>2. \A s \in CacheSet : ~ (s < 0)
    BY IndexAssumption DEF CacheSet
  <2> QED BY <2>1, <2>2 DEF WaysInv, OneWayPerLine
<1>2. WaysInv => OneWayPerLine
  BY DEF WaysInv
<1> QED BY <1>1, <1>2, TypesInit, TypesInduction, WaysInduction, PTL DEF Spec
=============================================================================
