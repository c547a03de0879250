--------------------------- MODULE CacheOps_proofs ---------------------------
(* What the pure functions of module CacheOps promise the caches, for every     *)
(* queue, address and tree.                                                     *)
EXTENDS CacheOps, SequenceTheorems, FiniteSetTheorems, TLAPS

\* The greatest member of a set of integers that has one.
LEMMA GreatestIs ==
    ASSUME NEW S, NEW m \in S, S \subseteq Int, \A y \in S : y <= m
    PROVE  Greatest(S) = m
<1>1. \E x \in S : \A y \in S : y <= x
  OBVIOUS
<1>2. Greatest(S) \in S /\ \A y \in S : y <= Greatest(S)
  BY <1>1 DEF Greatest
<1> HIDE DEF Greatest
<1>3. Greatest(S) \in Int /\ m \in Int /\ m <= Greatest(S) /\ Greatest(S) <= m
  BY <1>2
<1> QED BY <1>3

\* A nonempty set of positions of a sequence has a greatest: of the intervals
\* above its members, one contains no other.
LEMMA GreatestExists ==
    ASSUME NEW n \in Nat, NEW K \in SUBSET (1..n), K # {}
    PROVE  Greatest(K) \in K /\ \A k \in K : k <= Greatest(K)
<1> DEFINE Above(k) == {j \in 1..n : j > k}
           T == {Above(k) : k \in K}
<1>1. IsFiniteSet(1..n)
  BY FS_Interval
<1>2. IsWellFoundedOn(StrictSubsetOrdering(1..n), SUBSET (1..n))
  BY <1>1, FS_StrictSubsetOrderingWellFounded, FS_FiniteSubsetsOfFinite
<1>3. T \subseteq SUBSET (1..n) /\ T # {}
  OBVIOUS
<1>4. PICK A \in T : \A B \in T : ~ (<<B, A>> \in StrictSubsetOrdering(1..n))
  BY <1>2, <1>3, WFMin
<1>5. PICK m \in K : A = Above(m)
  OBVIOUS
<1>6. ASSUME NEW k \in K, ~ (k <= m) PROVE FALSE
  <2>1. k \in 1..n /\ m \in 1..n /\ m < k
    BY <1>6
  <2>2. Above(k) \subseteq Above(m) /\ k \in Above(m) /\ k \notin Above(k)
    BY <2>1
  <2>3. Above(k) \in T /\ Above(k) \in SUBSET (1..n) /\ Above(m) \in SUBSET (1..n)
    OBVIOUS
  <2>4. <<Above(k), A>> \in StrictSubsetOrdering(1..n)
    BY <2>2, <2>3, <1>5 DEF StrictSubsetOrdering
  <2> QED BY <2>3, <2>4, <1>4
<1>7. K \subseteq Int /\ \A k \in K : k <= m
  BY <1>6
<1>8. Greatest(K) = m
  BY <1>7, GreatestIs
<1> QED BY <1>7, <1>8

-----------------------------------------------------------------------------
\* Forwarding the queued stores over a dword (l1_cache: forward_storeq_slot).

\* The stores of queue q that a lane of the dword at a can come from.
Touching(q, a, l) == {k \in DOMAIN q : Touches(q[k], a, l)}

\* A lane no queued store touches keeps its value; the last store that touches
\* a lane gives it, whatever the older ones are.
LEMMA ForwardLane ==
    ASSUME NEW S, NEW q \in Seq(S), NEW a, NEW value, NEW l \in DOMAIN value
    PROVE  /\ Touching(q, a, l) = {} => Forward(q, a, value)[l] = value[l]
           /\ \A m \in Touching(q, a, l) :
                (\A k \in Touching(q, a, l) : k <= m) => Forward(q, a, value)[l] = q[m].data[l]
<1>1. Forward(q, a, value)[l] = IF Touching(q, a, l) = {} THEN value[l]
                                ELSE q[Greatest(Touching(q, a, l))].data[l]
  BY DEF Forward, Touching
<1>2. Touching(q, a, l) \subseteq Int
  BY LenProperties DEF Touching
<1>3. ASSUME NEW m \in Touching(q, a, l), \A k \in Touching(q, a, l) : k <= m
      PROVE  Greatest(Touching(q, a, l)) = m
  BY <1>2, <1>3, GreatestIs
<1> QED BY <1>1, <1>3

\* A store at the young end of the queue is merged over what the rest forwards.
LEMMA ForwardAppend ==
    ASSUME NEW S, NEW q \in Seq(S), NEW e \in S, NEW a, NEW value
    PROVE  Forward(Append(q, e), a, value) =
             IF e.addr = a THEN Merge(Forward(q, a, value), e.data, e.be)
                           ELSE Forward(q, a, value)
<1> DEFINE r == Append(q, e)
           n == Len(q)
           old == Forward(q, a, value)
<1>1. /\ n \in Nat /\ DOMAIN q = 1..n
      /\ r \in Seq(S) /\ DOMAIN r = 1..n + 1
      /\ r[n + 1] = e /\ \A k \in 1..n : r[k] = q[k]
  BY LenProperties, AppendProperties
<1>2. DOMAIN old = DOMAIN value /\ DOMAIN Forward(r, a, value) = DOMAIN value
  BY DEF Forward
<1> HIDE DEF r, n, old
<1>3. ASSUME NEW l \in DOMAIN value
      PROVE  Forward(r, a, value)[l] = IF Touches(e, a, l) THEN e.data[l] ELSE old[l]
  <2>1. CASE Touches(e, a, l)
    <3>1. n + 1 \in Touching(r, a, l) /\ \A k \in Touching(r, a, l) : k <= n + 1
      BY <1>1, <2>1 DEF Touching
    <3> QED BY <1>1, <2>1, <3>1, ForwardLane
  <2>2. CASE ~Touches(e, a, l)
    <3>1. Touching(r, a, l) = Touching(q, a, l)
      BY <1>1, <2>2 DEF Touching
    <3>2. CASE Touching(q, a, l) = {}
      BY <1>1, <2>2, <3>1, <3>2, ForwardLane DEF old
    <3>3. CASE Touching(q, a, l) # {}
      <4>1. Touching(q, a, l) \in SUBSET (1..n)
        BY <1>1 DEF Touching
      <4>2. PICK m \in Touching(q, a, l) : \A k \in Touching(q, a, l) : k <= m
        BY <1>1, <4>1, <3>3, GreatestExists
      <4>3. r[m] = q[m]
        BY <1>1, <4>1
      <4>4. Forward(r, a, value)[l] = r[m].data[l]
        BY <1>1, <3>1, <4>2, ForwardLane
      <4>5. old[l] = q[m].data[l]
        BY <4>2, ForwardLane DEF old
      <4> QED BY <2>2, <4>3, <4>4, <4>5
    <3> QED BY <3>2, <3>3
  <2> QED BY <2>1, <2>2
<1>4. Forward(r, a, value) = [l \in DOMAIN value |-> IF Touches(e, a, l) THEN e.data[l] ELSE old[l]]
  BY <1>2, <1>3 DEF Forward
<1>5. old = [l \in DOMAIN value |-> old[l]]
  BY DEF old, Forward
<1>6. CASE e.addr = a
  BY <1>2, <1>4, <1>6 DEF Merge, Touches, r, old
<1>7. CASE e.addr # a
  BY <1>4, <1>5, <1>7 DEF Touches, r, old
<1> QED BY <1>6, <1>7 DEF r

\* Taking the oldest store into memory changes nothing that is read through the
\* queue: the drain is invisible.
LEMMA ForwardTail ==
    ASSUME NEW S, NEW q \in Seq(S), q # << >>, NEW a, NEW value
    PROVE  Forward(q, a, value) =
             Forward(Tail(q), a, IF Head(q).addr = a
                                 THEN Merge(value, Head(q).data, Head(q).be) ELSE value)
<1> DEFINE e == q[1]
           t == Tail(q)
           n == Len(t)
           v == IF e.addr = a THEN Merge(value, e.data, e.be) ELSE value
<1>1. /\ Len(q) \in Nat /\ n \in Nat /\ Len(q) = n + 1
      /\ DOMAIN q = 1..n + 1 /\ DOMAIN t = 1..n
      /\ t \in Seq(S) /\ \A k \in 1..n : t[k] = q[k + 1]
      /\ Head(q) = e
  BY LenProperties, HeadTailProperties
<1>2. DOMAIN v = DOMAIN value /\ \A l \in DOMAIN value :
        v[l] = IF Touches(e, a, l) THEN e.data[l] ELSE value[l]
  BY DEF Merge, Touches
<1> HIDE DEF e, t, n, v
<1>3. ASSUME NEW l \in DOMAIN value
      PROVE  Forward(q, a, value)[l] = Forward(t, a, v)[l]
  <2>1. Touching(q, a, l) = {k \in 1..n + 1 : Touches(q[k], a, l)}
    BY <1>1 DEF Touching
  <2>2. Touching(t, a, l) = {k \in 1..n : Touches(q[k + 1], a, l)}
    BY <1>1 DEF Touching
  <2>3. CASE Touching(t, a, l) = {}
    <3>1. Forward(t, a, v)[l] = v[l]
      BY <1>1, <1>2, <2>3, ForwardLane
    <3>2. \A k \in Touching(q, a, l) : k = 1
      <4> SUFFICES ASSUME NEW k \in Touching(q, a, l), k # 1 PROVE FALSE
        OBVIOUS
      <4>1. k - 1 \in 1..n /\ (k - 1) + 1 = k /\ Touches(q[k], a, l)
        BY <1>1, <2>1
      <4>2. k - 1 \in Touching(t, a, l)
        BY <2>2, <4>1
      <4> QED BY <2>3, <4>2
    <3>3. CASE Touches(e, a, l)
      <4>1. 1 \in Touching(q, a, l)
        BY <1>1, <2>1, <3>3 DEF e
      <4>2. Forward(q, a, value)[l] = q[1].data[l]
        BY <3>2, <4>1, ForwardLane
      <4> QED BY <1>2, <3>1, <3>3, <4>2 DEF e
    <3>4. CASE ~Touches(e, a, l)
      <4>1. Touching(q, a, l) = {}
        BY <2>1, <3>2, <3>4 DEF e
      <4> QED BY <1>2, <3>1, <3>4, <4>1, ForwardLane
    <3> QED BY <3>3, <3>4
  <2>4. CASE Touching(t, a, l) # {}
    <3>1. Touching(t, a, l) \in SUBSET (1..n)
      BY <2>2
    <3>2. PICK m \in Touching(t, a, l) : \A k \in Touching(t, a, l) : k <= m
      BY <1>1, <2>4, <3>1, GreatestExists
    <3>3. Forward(t, a, v)[l] = t[m].data[l]
      BY <1>1, <1>2, <3>2, ForwardLane
    <3>4. m + 1 \in Touching(q, a, l)
      BY <1>1, <2>1, <2>2, <3>2
    <3>5. \A k \in Touching(q, a, l) : k <= m + 1
      <4> SUFFICES ASSUME NEW k \in Touching(q, a, l), k # 1 PROVE k <= m + 1
        BY <1>1, <2>1, <3>1, <3>2
      <4>1. k - 1 \in 1..n /\ (k - 1) + 1 = k /\ Touches(q[k], a, l)
        BY <1>1, <2>1
      <4>2. k - 1 \in Touching(t, a, l)
        BY <2>2, <4>1
      <4> QED BY <3>1, <3>2, <4>1, <4>2
    <3>6. Forward(q, a, value)[l] = q[m + 1].data[l]
      BY <3>4, <3>5, ForwardLane
    <3> QED BY <1>1, <3>1, <3>3, <3>6
  <2> QED BY <2>3, <2>4
<1>4. Forward(q, a, value) = Forward(t, a, v)
  BY <1>2, <1>3 DEF Forward
<1> QED BY <1>1, <1>4 DEF t, v

\* r is q with store e merged into its youngest slot.
Coalesces(q, r, e) ==
    LET n == Len(q)
    IN  /\ q # << >> /\ Len(r) = n /\ \A k \in 1..n : k # n => r[k] = q[k]
        /\ r[n].addr = q[n].addr /\ q[n].addr = e.addr
        /\ r[n].be = q[n].be \cup e.be /\ r[n].data = Merge(q[n].data, e.data, e.be)
        /\ r[n].be \subseteq DOMAIN q[n].data

\* Coalescing is invisible: the youngest slot with a store merged into it reads
\* as the slot with that store behind it.
LEMMA ForwardCoalesced ==
    ASSUME NEW S, NEW q \in Seq(S), NEW r \in Seq(S), NEW e, Coalesces(q, r, e),
           NEW a, NEW value
    PROVE  Forward(r, a, value) =
             IF e.addr = a THEN Merge(Forward(q, a, value), e.data, e.be)
                           ELSE Forward(q, a, value)
<1> DEFINE n == Len(q)
           m == r[n]
           d == e.data
           b == e.be
           old == Forward(q, a, value)
<1>1. /\ n \in Nat /\ n \in 1..n /\ DOMAIN q = 1..n
      /\ r \in Seq(S) /\ DOMAIN r = 1..n
      /\ r[n] = m /\ \A k \in 1..n : k # n => r[k] = q[k]
  <2>1. n \in Nat /\ n # 0 /\ DOMAIN q = 1..n
    BY LenProperties, EmptySeq DEF Coalesces
  <2>2. n \in 1..n
    BY <2>1
  <2>3. DOMAIN r = 1..n /\ r[n] = m /\ \A k \in 1..n : k # n => r[k] = q[k]
    BY LenProperties DEF Coalesces
  <2> QED BY <2>1, <2>2, <2>3
<1>2. /\ m.addr = q[n].addr /\ m.addr = e.addr /\ m.be = q[n].be \cup b
      /\ \A l \in q[n].be \cup b : m.data[l] = IF l \in b THEN d[l] ELSE q[n].data[l]
  BY DEF Merge, Coalesces
<1> HIDE DEF n, m, d, b, old
<1>3. ASSUME NEW l \in DOMAIN value
      PROVE  Forward(r, a, value)[l] = IF m.addr = a /\ l \in b THEN d[l] ELSE old[l]
  <2>1. CASE m.addr = a /\ l \in b
    <3>1. n \in Touching(r, a, l) /\ \A k \in Touching(r, a, l) : k <= n
      BY <1>1, <1>2, <2>1 DEF Touching, Touches
    <3>2. Forward(r, a, value)[l] = m.data[l]
      BY <1>1, <3>1, ForwardLane
    <3> QED BY <1>2, <2>1, <3>2
  <2>2. CASE ~(m.addr = a /\ l \in b)
    <3>1. Touching(r, a, l) = Touching(q, a, l)
      BY <1>1, <1>2, <2>2 DEF Touching, Touches
    <3>2. \A k \in Touching(q, a, l) : r[k].data[l] = q[k].data[l]
      BY <1>1, <1>2, <2>2 DEF Touching, Touches
    <3>3. CASE Touching(q, a, l) = {}
      BY <1>1, <2>2, <3>1, <3>3, ForwardLane DEF old
    <3>4. CASE Touching(q, a, l) # {}
      <4>1. Touching(q, a, l) \in SUBSET (1..n)
        BY <1>1 DEF Touching
      <4>2. PICK g \in Touching(q, a, l) : \A k \in Touching(q, a, l) : k <= g
        BY <1>1, <4>1, <3>4, GreatestExists
      <4>3. Forward(r, a, value)[l] = r[g].data[l]
        BY <1>1, <3>1, <4>2, ForwardLane
      <4>4. old[l] = q[g].data[l]
        BY <4>2, ForwardLane DEF old
      <4> QED BY <2>2, <3>2, <4>2, <4>3, <4>4
    <3> QED BY <3>3, <3>4
  <2> QED BY <2>1, <2>2
<1>4. Forward(r, a, value) =
        [l \in DOMAIN value |-> IF m.addr = a /\ l \in b THEN d[l] ELSE old[l]]
  BY <1>3 DEF Forward
<1>5. DOMAIN old = DOMAIN value /\ old = [l \in DOMAIN value |-> old[l]]
  BY DEF old, Forward
<1>6. CASE e.addr = a
  BY <1>2, <1>4, <1>5, <1>6 DEF Merge, d, b, old
<1>7. CASE e.addr # a
  BY <1>2, <1>4, <1>5, <1>7 DEF old
<1> QED BY <1>2, <1>6, <1>7 DEF d, b

\* Stores of dwords over a dword make a dword.
LEMMA ForwardKeepsType ==
    ASSUME NEW D, NEW B, NEW S, \A e \in S : e.data \in [D -> B],
           NEW q \in Seq(S), NEW a, NEW value \in [D -> B]
    PROVE  Forward(q, a, value) \in [D -> B]
<1>1. ASSUME NEW l \in D PROVE Forward(q, a, value)[l] \in B
  <2> DEFINE K == Touching(q, a, l)
  <2>1. /\ K = {} => Forward(q, a, value)[l] = value[l]
        /\ \A m \in K : (\A k \in K : k <= m) => Forward(q, a, value)[l] = q[m].data[l]
    BY ForwardLane
  <2>2. CASE K = {}
    BY <2>1, <2>2
  <2>3. CASE K # {}
    <3>1. Len(q) \in Nat /\ DOMAIN q = 1..Len(q)
      BY LenProperties
    <3>2. K \in SUBSET (1..Len(q))
      BY <3>1 DEF Touching
    <3>3. PICK m \in K : \A k \in K : k <= m
      BY <2>3, <3>1, <3>2, GreatestExists
    <3>4. q[m] \in S
      BY <3>1, <3>2, ElementOfSeq
    <3> QED BY <2>1, <3>3, <3>4
  <2> QED BY <2>2, <2>3
<1>2. Forward(q, a, value) = [l \in D |-> Forward(q, a, value)[l]]
  BY DEF Forward
<1> QED BY <1>1, <1>2

\* A store that no queued store shares its dword with is not disturbed.
LEMMA ForwardUntouched ==
    ASSUME NEW S, NEW q \in Seq(S), NEW a, NEW D, NEW B, NEW value \in [D -> B],
           \A k \in DOMAIN q : q[k].addr # a
    PROVE  Forward(q, a, value) = value
<1>1. \A l \in D : Touching(q, a, l) = {}
  BY DEF Touching, Touches
<1>2. \A l \in D : Forward(q, a, value)[l] = value[l]
  BY <1>1, ForwardLane
<1>3. Forward(q, a, value) = [l \in D |-> Forward(q, a, value)[l]]
  BY DEF Forward
<1> QED BY <1>2, <1>3

\* Putting the same stores over a dword twice is putting them over it once.
LEMMA ForwardTwice ==
    ASSUME NEW q, NEW a, NEW value
    PROVE  Forward(q, a, Forward(q, a, value)) = Forward(q, a, value)
<1> DEFINE K(l) == {k \in DOMAIN q : Touches(q[k], a, l)}
           once == Forward(q, a, value)
<1>1. once = [l \in DOMAIN value |-> IF K(l) = {} THEN value[l] ELSE q[Greatest(K(l))].data[l]]
  BY DEF Forward
<1>2. DOMAIN once = DOMAIN value
  BY <1>1
<1>3. Forward(q, a, once) =
        [l \in DOMAIN once |-> IF K(l) = {} THEN once[l] ELSE q[Greatest(K(l))].data[l]]
  BY DEF Forward
<1> HIDE DEF once, K
<1>4. \A l \in DOMAIN value :
        once[l] = IF K(l) = {} THEN once[l] ELSE q[Greatest(K(l))].data[l]
  BY <1>1
<1>5. Forward(q, a, once) = [l \in DOMAIN value |-> once[l]]
  BY <1>2, <1>3, <1>4
<1>6. once = [l \in DOMAIN value |-> once[l]]
  BY <1>1, <1>2
<1> QED BY <1>5, <1>6 DEF once

\* Stores behind other stores are put over what those forward.
LEMMA ForwardConcat ==
    ASSUME NEW S, NEW q \in Seq(S), NEW r \in Seq(S), NEW a, NEW value
    PROVE  Forward(q \o r, a, value) = Forward(r, a, Forward(q, a, value))
<1> DEFINE n == Len(q)
           old == Forward(q, a, value)
           both == q \o r
<1>1. /\ n \in Nat /\ DOMAIN q = 1..n /\ Len(r) \in Nat /\ DOMAIN r = 1..Len(r)
      /\ both \in Seq(S) /\ DOMAIN both = 1..n + Len(r)
      /\ \A k \in 1..n + Len(r) : both[k] = IF k <= n THEN q[k] ELSE r[k - n]
  BY ConcatProperties, LenProperties
<1>2. DOMAIN old = DOMAIN value /\ DOMAIN Forward(both, a, value) = DOMAIN value
      /\ DOMAIN Forward(r, a, old) = DOMAIN value
  BY DEF Forward
<1>3. \A l \in DOMAIN value :
        old[l] = Forward(q, a, value)[l]
  OBVIOUS
<1> HIDE DEF n, old, both
<1>4. ASSUME NEW l \in DOMAIN value
      PROVE  Forward(both, a, value)[l] = Forward(r, a, old)[l]
  <2>1. CASE Touching(r, a, l) # {}
    <3>1. Touching(r, a, l) \in SUBSET (1..Len(r))
      BY <1>1 DEF Touching
    <3>2. PICK m \in Touching(r, a, l) : \A k \in Touching(r, a, l) : k <= m
      BY <1>1, <2>1, <3>1, GreatestExists
    <3>3. m \in 1..Len(r) /\ n + m \in 1..n + Len(r) /\ ~(n + m <= n) /\ (n + m) - n = m
      BY <1>1, <3>1
    <3>4. both[n + m] = r[m]
      BY <1>1, <3>3
    <3>5. n + m \in Touching(both, a, l)
      BY <1>1, <3>2, <3>3, <3>4 DEF Touching
    <3>6. ASSUME NEW k \in Touching(both, a, l) PROVE k <= n + m
      <4>1. k \in 1..n + Len(r) /\ Touches(both[k], a, l)
        BY <1>1 DEF Touching
      <4>2. CASE k <= n
        BY <1>1, <3>3, <4>1, <4>2
      <4>3. CASE ~(k <= n)
        <5>1. k - n \in 1..Len(r) /\ Touches(r[k - n], a, l)
          BY <1>1, <4>1, <4>3
        <5>2. k - n <= m
          BY <1>1, <3>2, <5>1 DEF Touching
        <5> QED BY <1>1, <3>3, <4>1, <5>2
      <4> QED BY <4>2, <4>3
    <3>7. Forward(both, a, value)[l] = r[m].data[l]
      BY <1>1, <3>4, <3>5, <3>6, ForwardLane
    <3>8. Forward(r, a, old)[l] = r[m].data[l]
      BY <1>2, <3>2, ForwardLane
    <3> QED BY <3>7, <3>8
  <2>2. CASE Touching(r, a, l) = {}
    <3>1. Touching(both, a, l) = Touching(q, a, l)
      <4>1. ASSUME NEW k \in 1..n + Len(r), Touches(both[k], a, l)
            PROVE  k \in 1..n /\ Touches(q[k], a, l)
        <5>1. CASE k <= n
          BY <1>1, <4>1, <5>1
        <5>2. CASE ~(k <= n)
          <6>1. k - n \in 1..Len(r) /\ Touches(r[k - n], a, l)
            BY <1>1, <4>1, <5>2
          <6> QED BY <1>1, <2>2, <6>1 DEF Touching
        <5> QED BY <5>1, <5>2
      <4>2. \A k \in 1..n : k \in 1..n + Len(r) /\ both[k] = q[k]
        BY <1>1
      <4> QED BY <1>1, <4>1, <4>2 DEF Touching
    <3>2. Forward(r, a, old)[l] = old[l]
      BY <1>2, <2>2, ForwardLane
    <3>3. CASE Touching(q, a, l) = {}
      <4>1. Forward(both, a, value)[l] = value[l] /\ Forward(q, a, value)[l] = value[l]
        BY <1>1, <3>1, <3>3, ForwardLane
      <4> QED BY <1>3, <3>2, <4>1
    <3>4. CASE Touching(q, a, l) # {}
      <4>1. Touching(q, a, l) \in SUBSET (1..n)
        BY <1>1 DEF Touching
      <4>2. PICK m \in Touching(q, a, l) : \A k \in Touching(q, a, l) : k <= m
        BY <1>1, <3>4, <4>1, GreatestExists
      <4>3. both[m] = q[m]
        BY <1>1, <4>1
      <4>4. Forward(both, a, value)[l] = both[m].data[l]
        BY <1>1, <3>1, <4>2, ForwardLane
      <4>5. Forward(q, a, value)[l] = q[m].data[l]
        BY <4>2, ForwardLane
      <4> QED BY <1>3, <3>2, <4>3, <4>4, <4>5
    <3> QED BY <3>3, <3>4
  <2> QED BY <2>1, <2>2
<1>5. Forward(both, a, value) = Forward(r, a, old)
  BY <1>2, <1>4 DEF Forward
<1> QED BY <1>5 DEF old, both

\* No store, and one store, over a dword.
LEMMA ForwardNone ==
    ASSUME NEW a, NEW D, NEW B, NEW value \in [D -> B]
    PROVE  Forward(<< >>, a, value) = value
<1>1. \A k \in DOMAIN << >> : FALSE
  OBVIOUS
<1> QED BY <1>1, ForwardUntouched, EmptySeq

LEMMA ForwardOne ==
    ASSUME NEW e, NEW a, NEW D, NEW B, NEW value \in [D -> B]
    PROVE  Forward(<< e >>, a, value) = IF e.addr = a THEN Merge(value, e.data, e.be) ELSE value
<1> DEFINE q == << e >>
<1>1. q \in Seq({e}) /\ DOMAIN q = {1} /\ q[1] = e
  OBVIOUS
<1>2. DOMAIN Forward(q, a, value) = D
  BY DEF Forward
<1> HIDE DEF q
<1>3. ASSUME NEW l \in D
      PROVE  Forward(q, a, value)[l] = IF Touches(e, a, l) THEN e.data[l] ELSE value[l]
  <2>1. Touching(q, a, l) = IF Touches(e, a, l) THEN {1} ELSE {}
    BY <1>1 DEF Touching
  <2>2. CASE Touches(e, a, l)
    <3>1. 1 \in Touching(q, a, l) /\ \A k \in Touching(q, a, l) : k <= 1
      BY <2>1, <2>2
    <3>2. Forward(q, a, value)[l] = q[1].data[l]
      BY <1>1, <3>1, ForwardLane
    <3> QED BY <1>1, <2>2, <3>2
  <2>3. CASE ~Touches(e, a, l)
    BY <1>1, <2>1, <2>3, ForwardLane
  <2> QED BY <2>2, <2>3
<1>4. Forward(q, a, value) = [l \in D |-> IF Touches(e, a, l) THEN e.data[l] ELSE value[l]]
  BY <1>2, <1>3 DEF Forward
<1>5. CASE e.addr = a
  BY <1>4, <1>5 DEF Merge, Touches, q
<1>6. CASE e.addr # a
  BY <1>4, <1>6 DEF Touches, q
<1> QED BY <1>5, <1>6

\* A nonempty set of naturals has a least: its mirror image below any member
\* has a greatest.
LEMMA LeastMember ==
    ASSUME NEW S \in SUBSET Nat, S # {}
    PROVE  Least(S) \in S
<1>1. PICK m \in S : TRUE
  OBVIOUS
<1> DEFINE n == m + 1
           K == {k \in 1..n : n - k \in S}
<1>2. n \in Nat /\ 1 \in 1..n /\ n - 1 = m
  OBVIOUS
<1>3. K \in SUBSET (1..n) /\ 1 \in K
  BY <1>2
<1>4. PICK g \in K : \A k \in K : k <= g
  BY <1>2, <1>3, GreatestExists
<1>5. n - g \in S
  BY <1>4
<1>6. ASSUME NEW y \in S, ~ (n - g <= y) PROVE FALSE
  <2>1. n - y \in 1..n /\ n - y > g
    BY <1>2, <1>4, <1>6
  <2>2. n - (n - y) = y
    BY <1>2
  <2>3. n - y \in K
    BY <2>1, <2>2
  <2> QED BY <2>1, <2>3, <1>4, <1>2
<1> HIDE DEF n, K
<1>7. \E x \in S : \A y \in S : x <= y
  BY <1>5, <1>6
<1> QED BY <1>7 DEF Least

-----------------------------------------------------------------------------
\* The replacement tree of l1_cache and l1_icache (plru_update, plru_victim).

\* What one access does to the tree, bit by bit.
LEMMA TreeAfter ==
    ASSUME NEW p \in PlruTree, NEW w \in PlruWay
    PROVE  /\ PlruUpdate(p, w) \in PlruTree
           /\ w \in {0, 1} => /\ PlruUpdate(p, w).root = 1
                              /\ PlruUpdate(p, w).low  = 1 - w
                              /\ PlruUpdate(p, w).high = p.high
           /\ w \in {2, 3} => /\ PlruUpdate(p, w).root = 0
                              /\ PlruUpdate(p, w).low  = p.low
                              /\ PlruUpdate(p, w).high = 3 - w
<1>1. CASE w \in {0, 1}
  <2>1. PlruUpdate(p, w) = [p EXCEPT !.root = 1, !.low = 1 - w]
    BY <1>1 DEF PlruUpdate
  <2>2. 1 - w \in {0, 1} /\ w \notin {2, 3}
    BY <1>1
  <2> QED BY <2>1, <2>2 DEF PlruTree
<1>2. CASE w \in {2, 3}
  <2>1. PlruUpdate(p, w) = [p EXCEPT !.root = 0, !.high = 3 - w]
    BY <1>2 DEF PlruUpdate
  <2>2. 3 - w \in {0, 1} /\ w \notin {0, 1}
    BY <1>2
  <2> QED BY <2>1, <2>2 DEF PlruTree
<1> QED BY <1>1, <1>2 DEF PlruWay

\* The tree never names either of the two ways used last, whatever it held
\* before: a line that was just filled or hit survives the next fill of its set.
THEOREM VictimIsNotRecent ==
    ASSUME NEW p \in PlruTree, NEW v \in PlruWay, NEW w \in PlruWay
    PROVE  PlruVictim(PlruUpdate(PlruUpdate(p, v), w)) \in PlruWay \ {v, w}
<1> DEFINE q == PlruUpdate(p, v)
           r == PlruUpdate(q, w)
<1>1. v \in {0, 1, 2, 3} /\ w \in {0, 1, 2, 3}
  BY DEF PlruWay
<1>2. q \in PlruTree /\ r \in PlruTree
  BY TreeAfter
<1>3. v \in {0, 1} => q.low = 1 - v
  BY TreeAfter
<1>4. v \in {2, 3} => q.high = 3 - v
  BY TreeAfter
<1>5. w \in {0, 1} => r.root = 1 /\ r.high = q.high
  BY <1>2, TreeAfter
<1>6. w \in {2, 3} => r.root = 0 /\ r.low = q.low
  BY <1>2, TreeAfter
<1> HIDE DEF q, r
<1>7. PlruVictim(r) \in PlruWay \ {v, w}
  BY <1>1, <1>2, <1>3, <1>4, <1>5, <1>6 DEF PlruVictim, PlruWay, PlruTree
<1> QED BY <1>7 DEF q, r

\* Four fills of a set in a row take its four ways, from any state of the tree:
\* no way is left out for ever, and no line is evicted before its turn.
THEOREM VictimsRotate ==
    ASSUME NEW p \in PlruTree
    PROVE  LET Fill(q) == PlruUpdate(q, PlruVictim(q))
           IN  {PlruVictim(p), PlruVictim(Fill(p)), PlruVictim(Fill(Fill(p))),
                PlruVictim(Fill(Fill(Fill(p))))} = PlruWay
<1> DEFINE Fill(q) == PlruUpdate(q, PlruVictim(q))
<1>1. \A q \in PlruTree :
        /\ Fill(q) \in PlruTree
        /\ Fill(q).root = 1 - q.root
        /\ Fill(q).low  = (IF q.root = 1 THEN q.low ELSE 1 - q.low)
        /\ Fill(q).high = (IF q.root = 1 THEN 1 - q.high ELSE q.high)
  <2>1. SUFFICES ASSUME NEW q \in PlruTree
                 PROVE  /\ Fill(q) \in PlruTree
                        /\ Fill(q).root = 1 - q.root
                        /\ Fill(q).low  = (IF q.root = 1 THEN q.low ELSE 1 - q.low)
                        /\ Fill(q).high = (IF q.root = 1 THEN 1 - q.high ELSE q.high)
    OBVIOUS
  <2>2. CASE q.root = 1
    <3>1. PlruVictim(q) = 2 + q.high /\ q.high \in {0, 1}
      BY <2>2 DEF PlruVictim, PlruTree
    <3>2. PlruVictim(q) \in {2, 3} /\ PlruVictim(q) \in PlruWay
      BY <3>1 DEF PlruWay
    <3> QED BY <2>2, <3>1, <3>2, TreeAfter
  <2>3. CASE q.root = 0
    <3>1. PlruVictim(q) = q.low /\ q.low \in {0, 1}
      BY <2>3 DEF PlruVictim, PlruTree
    <3>2. PlruVictim(q) \in {0, 1} /\ PlruVictim(q) \in PlruWay
      BY <3>1 DEF PlruWay
    <3> QED BY <2>3, <3>1, <3>2, TreeAfter
  <2> QED BY <2>2, <2>3 DEF PlruTree
<1> HIDE DEF Fill
<1>2. Fill(p) \in PlruTree /\ Fill(Fill(p)) \in PlruTree
  BY <1>1
<1>3. {PlruVictim(p), PlruVictim(Fill(p)), PlruVictim(Fill(Fill(p))),
       PlruVictim(Fill(Fill(Fill(p))))} = {0, 1, 2, 3}
  BY <1>1, <1>2 DEF PlruVictim, PlruTree
<1>4. PlruWay = {0, 1, 2, 3}
  BY DEF PlruWay
<1> QED BY <1>3, <1>4 DEF Fill
=============================================================================
