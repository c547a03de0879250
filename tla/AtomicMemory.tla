---------------------------- MODULE AtomicMemory ----------------------------
(* What a data cache and its bus promise the core: one memory in which every   *)
(* store takes effect at once, and loads, one at a time, each answered once    *)
(* with the memory's value at the time of the answer.  L1Cache implements it   *)
(* with a store queue, lines, prereads and fills between the two.              *)
EXTENDS CacheOps

CONSTANTS Addr, Dword, Mask, ReadOnly, None

VARIABLES
    value,      \* the memory the core sees
    waiting,    \* the address of the load in progress, or None
    answer      \* the answer the load is given in this cycle, or None

memoryVars == <<value, waiting, answer>>

MemoryInit ==
    /\ \E zero \in Dword : value = [a \in Addr |-> zero]
    /\ waiting = None /\ answer = None

Write == \E a \in Addr, d \in Dword, be \in Mask :
            /\ a \notin ReadOnly
            /\ value' = [value EXCEPT ![a] = Merge(@, d, be)]

\* A load that waits is answered in some later cycle, or in this one.
Answered == waiting' # None /\ answer' \in {None, value'[waiting']}

Hold   == waiting # None /\ answer = None /\ waiting' = waiting /\ Answered
Accept == (waiting = None \/ answer # None) /\ waiting' \in Addr /\ Answered
Rest   == (waiting = None \/ answer # None) /\ waiting' = None /\ answer' = None

MemoryNext == (Write \/ UNCHANGED value) /\ (Hold \/ Accept \/ Rest)

MemorySpec == MemoryInit /\ [][MemoryNext]_memoryVars
=============================================================================
