------------------------------ MODULE CacheOps ------------------------------
(* The pure functions the two L1 caches share: byte-lane merging, the forward  *)
(* of queued stores over a dword, and the three-bit pseudo-LRU replacement     *)
(* tree.  A dword is a function from byte lanes to bytes, a byte-enable mask   *)
(* is the set of the lanes it selects.                                         *)
EXTENDS Naturals, Sequences

Least(S)    == CHOOSE x \in S : \A y \in S : x <= y
Greatest(S) == CHOOSE x \in S : \A y \in S : y <= x

\* merge32: the enabled lanes come from the new dword.
Merge(old, new, be) == [l \in DOMAIN old |-> IF l \in be THEN new[l] ELSE old[l]]

\* A queued store: the dword it names, its data and its byte enables.
Touches(e, a, l) == e.addr = a /\ l \in e.be

\* The fold of forward_storeq_slot over the queue from the oldest store to the
\* youngest: in every lane the youngest store that enables it wins.
Forward(q, a, value) ==
    [l \in DOMAIN value |->
        LET K == {k \in DOMAIN q : Touches(q[k], a, l)}
        IN  IF K = {} THEN value[l] ELSE q[Greatest(K)].data[l]]

-----------------------------------------------------------------------------
\* The replacement tree of a four-way set: one root bit and one bit per pair.
PlruWay  == 0..3
PlruTree == [root : {0, 1}, low : {0, 1}, high : {0, 1}]

\* plru_update: every bit on the path to the way points away from it.
PlruUpdate(p, w) == IF w \in {0, 1} THEN [p EXCEPT !.root = 1, !.low  = 1 - w]
                                    ELSE [p EXCEPT !.root = 0, !.high = 3 - w]

\* plru_victim: follow the bits.
PlruVictim(p) == IF p.root = 0 THEN p.low ELSE 2 + p.high
=============================================================================
