-------------------------- MODULE MqueueSub_proofs --------------------------
(***************************************************************************)
(* The subscribers' ring delivers every report, in order and whole, never  *)
(* offers a byte of an unread report for the next one, and drops exactly   *)
(* the users that have not read the oldest, for any number of users and    *)
(* slots, any ring and any reports of which (MaxUser + 1) fit in the       *)
(* threshold, until one of the five hazards happens.                       *)
(*                                                                         *)
(* The invariant names the list: at the addresses ls lie nodes of sizes sz *)
(* with masks mk, and Queued relates it to everything else.                *)
(*   Holds     ls is what following paNext meets, and the nodes lie one    *)
(*             behind the other in front of the idle area (Laid).          *)
(*   Serves    each user is at a node p of ls, is owed ls from p on, and   *)
(*             is in the masks of exactly those nodes.                     *)
(*   Masked    every node has a reader left, but for the one being read.   *)
(*   Spacious  some node k was written when there was room to spare, and   *)
(*             each report since has cost a user: so few are left, and so  *)
(*             few reports behind k, that another one fits.                *)
(* The last is what the threshold is for: without it a report could be     *)
(* written over its oldest neighbour.  Distances are measured from a node  *)
(* round to the idle area (Dist), so that the ring's edge is one case in   *)
(* few lemmas (Advance, MoreIsLaid) instead of one in each.                *)
(*                                                                         *)
(* A call that frees reports stores the header piece by piece.  Meanwhile  *)
(* the invariant (Freeing) is of the ring the pieces come to (Completed):  *)
(* it is one with no call under way (Rests), each store leaves it as it is *)
(* (StoreGoesOn), and the last one makes it the ring (RestIsSane).         *)
(***************************************************************************)
EXTENDS MqueueSub, WellFoundedInduction, FiniteSetTheorems, SequenceTheorems, TLAPS

\* The smallest number of a set of naturals.
LEMMA SmallestOf ==
  ASSUME NEW S, S \subseteq Nat, S # {}
  PROVE  \E n \in S : \A m \in S : ~(m < n)
<1>1. IsWellFoundedOn(OpToRel(<,Nat), Nat)
  BY NatLessThanWellFounded
<1>2. \E n \in S : \A m \in S : ~(<<m, n>> \in OpToRel(<,Nat))
  BY <1>1, WFMin
<1>3. ASSUME NEW n \in Nat, NEW m \in Nat, m < n PROVE <<m, n>> \in OpToRel(<,Nat)
  BY <1>3 DEF OpToRel
<1> QED BY <1>2, <1>3

-----------------------------------------------------------------------------
(* Following the list.                                                     *)

\* A memory of nodes.
IsMem(mem) ==
    /\ mem = [x \in DOMAIN mem |-> mem[x]]
    /\ DOMAIN mem \subseteq Addr
    /\ \A x \in DOMAIN mem : mem[x] \in Node

\* One more pointer is followed.
Onward(mem, t) == LET p == t[Len(t)] IN IF p \in DOMAIN mem THEN Append(t, mem[p].next) ELSE t

\* The first n steps of the walk inside Trail.
Walks(w, n, mem, a) == w = [m \in 0 .. n |-> IF m = 0 THEN <<a>> ELSE Onward(mem, w[m - 1])]

\* The walk inside Trail exists, whatever the memory.
LEMMA WalkExists ==
  ASSUME NEW mem, NEW a, NEW n \in Nat
  PROVE  \E w : Walks(w, n, mem, a)
<1> DEFINE bad == {m \in Nat : ~ \E w : Walks(w, m, mem, a)}
<1>1. bad = {}
  <2> SUFFICES ASSUME bad # {} PROVE FALSE
    OBVIOUS
  <2>1. PICK k \in bad : \A m \in bad : ~(m < k)
    BY SmallestOf
  <2>2. CASE k = 0
    <3>1. Walks([m \in 0 .. 0 |-> <<a>>], 0, mem, a)
      BY DEF Walks
    <3> QED BY <2>2, <3>1
  <2>3. CASE k # 0
    <3>1. k - 1 \in Nat /\ k - 1 < k
      BY <2>3
    <3>2. k - 1 \notin bad
      BY <2>1, <3>1
    <3>3. PICK w : Walks(w, k - 1, mem, a)
      BY <3>1, <3>2
    <3> DEFINE v == [m \in 0 .. k |-> IF m <= k - 1 THEN w[m] ELSE Onward(mem, w[k - 1])]
    <3>4. ASSUME NEW m \in 0 .. k PROVE v[m] = IF m = 0 THEN <<a>> ELSE Onward(mem, v[m - 1])
      <4>1. CASE m = 0
        BY <4>1, <3>1, <3>3 DEF Walks
      <4>2. CASE m # 0 /\ m <= k - 1
        <5>1. m \in 0 .. k - 1 /\ m - 1 \in 0 .. k /\ m - 1 <= k - 1
          BY <4>2
        <5>2. w[m] = Onward(mem, w[m - 1])
          BY <3>3, <4>2, <5>1 DEF Walks
        <5>3. v[m] = w[m] /\ v[m - 1] = w[m - 1]
          BY <4>2, <5>1
        <5> QED BY <4>2, <5>2, <5>3
      <4>3. CASE m = k
        <5>1. v[m] = Onward(mem, w[k - 1]) /\ v[m - 1] = w[k - 1]
          BY <4>3, <3>1
        <5> QED BY <5>1, <4>3, <2>3
      <4> QED BY <4>1, <4>2, <4>3
    <3> HIDE DEF v
    <3>5. v = [m \in 0 .. k |-> v[m]]
      BY DEF v
    <3>6. Walks(v, k, mem, a)
      BY <3>4, <3>5, Zenon DEF Walks
    <3> QED BY <3>6
  <2> QED BY <2>2, <2>3
<1> QED BY <1>1

\* Trail is the last of its walk.
LEMMA TrailIsWalk ==
  ASSUME NEW mem, NEW a
  PROVE  \E w : Walks(w, RingSize, mem, a) /\ Trail(mem, a) = w[RingSize]
<1> DEFINE w == CHOOSE v : Walks(v, RingSize, mem, a)
<1>1. RingSize \in Nat
  BY SizeAssumption
<1>2. Walks(w, RingSize, mem, a)
  BY <1>1, WalkExists, Zenon
<1>3. Trail(mem, a) = w[RingSize]
  BY Zenon DEF Trail, Walks, Onward
<1> QED BY <1>2, <1>3

\* Whatever the memory holds, what Path gives are nodes in it.
LEMMA PathIsInside ==
  ASSUME NEW mem, IsMem(mem), NEW a \in Pointer
  PROVE  OnPath(mem, a) \subseteq DOMAIN mem
<1>1. PICK w : Walks(w, RingSize, mem, a) /\ Trail(mem, a) = w[RingSize]
  BY TrailIsWalk
<1> DEFINE good(t) == /\ t \in Seq(Pointer) /\ Len(t) >= 1
                      /\ \A k \in 1 .. Len(t) - 1 : t[k] \in DOMAIN mem
           bad == {n \in 0 .. RingSize : ~good(w[n])}
<1>2. bad = {}
  <2> SUFFICES ASSUME bad # {} PROVE FALSE
    OBVIOUS
  <2>0. RingSize \in Nat /\ bad \subseteq Nat
    BY SizeAssumption
  <2>1. PICK n \in bad : \A m \in bad : ~(m < n)
    BY <2>0, SmallestOf
  <2>2. CASE n = 0
    <3>1. w[n] = <<a>>
      BY <1>1, <2>2, <2>0 DEF Walks
    <3>2. good(<<a>>)
      OBVIOUS
    <3> QED BY <3>1, <3>2, <2>1
  <2>3. CASE n # 0
    <3>1. n \in 0 .. RingSize /\ n - 1 \in 0 .. RingSize /\ n - 1 < n
      BY <2>0, <2>3
    <3> DEFINE t == w[n - 1]
    <3>2. good(t)
      BY <2>1, <3>1
    <3>3. w[n] = Onward(mem, t)
      BY <1>1, <2>3, <3>1 DEF Walks
    <3> HIDE DEF t
    <3>4. CASE t[Len(t)] \in DOMAIN mem
      <4> DEFINE x == mem[t[Len(t)]].next
      <4>1. x \in Pointer
        BY <3>4 DEF IsMem, Node
      <4>2. w[n] = Append(t, x)
        BY <3>3, <3>4 DEF Onward
      <4> HIDE DEF x
      <4>3. good(Append(t, x))
        <5>1. Append(t, x) \in Seq(Pointer) /\ Len(Append(t, x)) = Len(t) + 1
          BY <3>2, <4>1, AppendProperties
        <5>2. ASSUME NEW k \in 1 .. Len(Append(t, x)) - 1 PROVE Append(t, x)[k] \in DOMAIN mem
          <6>1. k \in 1 .. Len(t) /\ Len(t) \in Nat
            BY <5>1, <3>2
          <6>2. Append(t, x)[k] = t[k]
            BY <3>2, <4>1, <6>1, AppendProperties
          <6>3. k \in 1 .. Len(t) - 1 \/ k = Len(t)
            BY <6>1
          <6> QED BY <6>2, <6>3, <3>2, <3>4
        <5> QED BY <5>1, <5>2, <3>2
      <4> QED BY <4>2, <4>3, <2>1
    <3>5. CASE t[Len(t)] \notin DOMAIN mem
      BY <3>5, <3>3, <3>2, <2>1 DEF Onward
    <3> QED BY <3>4, <3>5
  <2> QED BY <2>2, <2>3
<1> DEFINE t == Trail(mem, a)
<1>3. good(t)
  <2>1. RingSize \in 0 .. RingSize
    BY SizeAssumption
  <2> QED BY <1>1, <1>2, <2>1
<1> HIDE DEF t
<1>4. ASSUME NEW x \in OnPath(mem, a) PROVE x \in DOMAIN mem
  <2> DEFINE p == SubSeq(t, 1, Len(t) - 1)
  <2>1. PICK k \in DOMAIN p : x = p[k]
    BY DEF OnPath, Path, t
  <2>2. Len(t) \in Nat /\ \A i \in 1 .. Len(t) - 1 : t[i] \in Pointer
    BY <1>3
  <2>3. p \in Seq(Pointer) /\ Len(p) = Len(t) - 1 /\ \A i \in 1 .. Len(t) - 1 : p[i] = t[i]
    <3>1. /\ p \in Seq(Pointer)
          /\ Len(p) = IF 1 <= Len(t) - 1 THEN Len(t) - 1 - 1 + 1 ELSE 0
          /\ \A i \in 1 .. Len(t) - 1 - 1 + 1 : p[i] = t[1 + i - 1]
      BY <2>2, SubSeqProperties
    <3> QED BY <3>1, <2>2, <1>3
  <2>4. k \in 1 .. Len(t) - 1
    BY <2>3
  <2> QED BY <2>1, <2>3, <2>4, <1>3
<1> QED BY <1>4

-----------------------------------------------------------------------------
(* The list.                                                               *)

\* The p-th address of a list, NULL behind the last, and the list from the p-th on.
At(ls, p)   == IF p <= Len(ls) THEN ls[p] ELSE Null
Rest(ls, p) == SubSeq(ls, p, Len(ls))

\* The nodes in mem at ls are linked in this order, with these sizes and masks.
Chain(mem, ls, sz, mk) ==
    /\ ls \in Seq(Addr) /\ sz \in Seq(Sizes) /\ mk \in Seq(SUBSET Slot)
    /\ Len(sz) = Len(ls) /\ Len(mk) = Len(ls)
    /\ \A k \in 1 .. Len(ls) :
          /\ ls[k] \in DOMAIN mem
          /\ mem[ls[k]] = [size |-> sz[k], next |-> At(ls, k + 1), mask |-> mk[k]]

\* NULL is no node.
LEMMA NullIsNoNode == ASSUME NEW mem, IsMem(mem) PROVE Null \notin DOMAIN mem
  BY SizeAssumption DEF IsMem, Null, Addr

\* A sequence from its p-th element on.
LEMMA RestFacts ==
  ASSUME NEW S, NEW ls \in Seq(S), NEW p \in 1 .. Len(ls) + 1
  PROVE  /\ Rest(ls, p) \in Seq(S)
         /\ Len(Rest(ls, p)) = Len(ls) - p + 1
         /\ \A k \in 1 .. Len(ls) - p + 1 : Rest(ls, p)[k] = ls[k + p - 1]
<1>1. Len(ls) \in Nat /\ p \in Int /\ \A k \in p .. Len(ls) : ls[k] \in S
  OBVIOUS
<1>2. /\ Rest(ls, p) \in Seq(S)
      /\ Len(Rest(ls, p)) = IF p <= Len(ls) THEN Len(ls) - p + 1 ELSE 0
      /\ \A k \in 1 .. Len(ls) - p + 1 : Rest(ls, p)[k] = ls[p + k - 1]
  <2> DEFINE n == Len(ls)
  <2>1. n \in Int /\ p \in Int /\ \A k \in p .. n : ls[k] \in S
    BY <1>1
  <2> HIDE DEF n
  <2>2. /\ SubSeq(ls, p, n) \in Seq(S)
        /\ Len(SubSeq(ls, p, n)) = IF p <= n THEN n - p + 1 ELSE 0
        /\ \A k \in 1 .. n - p + 1 : SubSeq(ls, p, n)[k] = ls[p + k - 1]
    BY <2>1, SubSeqProperties
  <2> QED BY <2>2 DEF Rest, n
<1>3. \A k \in 1 .. Len(ls) - p + 1 : p + k - 1 = k + p - 1
  BY <1>1
<1> QED BY <1>1, <1>2, <1>3

\* Two sequences are the same.
LEMMA SeqsAreEqual ==
  ASSUME NEW S, NEW s \in Seq(S), NEW t \in Seq(S), Len(s) = Len(t),
         \A k \in 1 .. Len(s) : s[k] = t[k]
  PROVE  s = t
  BY SeqEqual

\* Following the list from its p-th node gives the rest of it, and then NULL.
LEMMA ListIsTrail ==
  ASSUME NEW mem, IsMem(mem), NEW ls, NEW sz, NEW mk, Chain(mem, ls, sz, mk),
         Len(ls) <= RingSize, NEW p \in 1 .. Len(ls) + 1
  PROVE  Trail(mem, At(ls, p)) = Append(Rest(ls, p), Null)
<1>1. PICK w : Walks(w, RingSize, mem, At(ls, p)) /\ Trail(mem, At(ls, p)) = w[RingSize]
  BY TrailIsWalk
<1>0. Len(ls) \in Nat /\ RingSize \in Nat /\ ls \in Seq(Addr) /\ p \in Int /\ p >= 1 /\ p <= Len(ls) + 1
  BY SizeAssumption DEF Chain
<1> DEFINE L == Len(ls) - p + 1
           tl(n) == IF n < L THEN n + 1 ELSE L + 1    \* the length after n pointers
           good(n) == LET t == w[n] IN
                      /\ t \in Seq(Pointer) /\ Len(t) = tl(n)
                      /\ \A k \in 1 .. Len(t) : t[k] = At(ls, k + p - 1)
           bad == {n \in 0 .. RingSize : ~good(n)}
<1>2. bad = {}
  <2> SUFFICES ASSUME bad # {} PROVE FALSE
    OBVIOUS
  <2>1. PICK n \in bad : \A m \in bad : ~(m < n)
    <3>1. bad \subseteq Nat
      BY <1>0
    <3> QED BY <3>1, SmallestOf
  <2>2. CASE n = 0
    <3>1. w[n] = <<At(ls, p)>>
      BY <1>1, <2>2, <1>0 DEF Walks
    <3>2. At(ls, p) \in Pointer
      BY <1>0 DEF At, Pointer
    <3>3. tl(0) = 1 /\ \A k \in 1 .. 1 : k + p - 1 = p
      BY <1>0
    <3>4. /\ <<At(ls, p)>> \in Seq(Pointer) /\ Len(<<At(ls, p)>>) = 1
          /\ \A k \in 1 .. 1 : <<At(ls, p)>>[k] = At(ls, p)
      BY <3>2
    <3> HIDE DEF tl, L
    <3>5. good(n)
      BY <3>1, <3>3, <3>4, <2>2
    <3> QED BY <3>5, <2>1
  <2>3. CASE n # 0
    <3>1. n \in 0 .. RingSize /\ n - 1 \in 0 .. RingSize /\ n - 1 < n /\ n \in Nat /\ n - 1 \in Nat
      BY <1>0, <2>3
    <3>2. good(n - 1)
      BY <2>1, <3>1
    <3> DEFINE t == w[n - 1]
    <3>3. w[n] = Onward(mem, t)
      BY <1>1, <2>3, <3>1 DEF Walks
    <3>4. /\ t \in Seq(Pointer) /\ Len(t) = tl(n - 1) /\ \A k \in 1 .. Len(t) : t[k] = At(ls, k + p - 1)
      BY <3>2
    <3> HIDE DEF t, bad, good
    <3>5. CASE n - 1 < L
      <4> DEFINE x == At(ls, n + p)
      <4>1. Len(t) = n /\ n + p - 1 \in 1 .. Len(ls) /\ tl(n) = n + 1
        BY <3>4, <3>5, <3>1, <1>0
      <4>2. t[Len(t)] = ls[n + p - 1]
        <5>1. n \in 1 .. Len(t) /\ Len(t) = n
          BY <4>1, <3>1, <2>3
        <5>2. t[n] = At(ls, n + p - 1) /\ n + p - 1 <= Len(ls)
          BY <5>1, <4>1, <3>4
        <5> QED BY <5>1, <5>2 DEF At
      <4>3. ls[n + p - 1] \in DOMAIN mem /\ mem[ls[n + p - 1]].next = At(ls, n + p - 1 + 1)
        <5> DEFINE k == n + p - 1
        <5>1. k \in 1 .. Len(ls)
          BY <4>1
        <5> HIDE DEF k
        <5>2. ls[k] \in DOMAIN mem /\ mem[ls[k]] = [size |-> sz[k], next |-> At(ls, k + 1), mask |-> mk[k]]
          BY <5>1 DEF Chain
        <5>3. ls[k] \in DOMAIN mem /\ mem[ls[k]].next = At(ls, k + 1)
          BY <5>2
        <5> QED BY <5>3 DEF k
      <4>4. n + p - 1 + 1 = n + p
        BY <1>0, <3>1
      <4>5. w[n] = Append(t, x)
        BY <3>3, <4>2, <4>3, <4>4 DEF Onward
      <4>6. x \in Pointer
        BY <1>0, <4>1, <3>1 DEF At, Pointer
      <4> HIDE DEF x, tl
      <4>7. /\ Append(t, x) \in Seq(Pointer) /\ Len(Append(t, x)) = n + 1
            /\ \A k \in 1 .. n : Append(t, x)[k] = t[k]
            /\ Append(t, x)[n + 1] = x
        BY <3>4, <4>6, <4>1, AppendProperties
      <4>8. ASSUME NEW k \in 1 .. n + 1 PROVE Append(t, x)[k] = At(ls, k + p - 1)
        <5>1. CASE k = n + 1
          BY <5>1, <4>7, <3>1, <1>0 DEF x
        <5>2. CASE k # n + 1
          BY <5>2, <4>7, <4>1, <3>4, <3>1
        <5> QED BY <5>1, <5>2
      <4>9. good(n)
        BY <4>5, <4>7, <4>8, <4>1, Zenon DEF good
      <4> QED BY <4>9, <2>1 DEF bad
    <3>6. CASE ~(n - 1 < L)
      <4>1. Len(t) = L + 1 /\ tl(n) = tl(n - 1) /\ L + 1 + p - 1 = Len(ls) + 1 /\ L + 1 >= 1
        BY <3>4, <3>6, <3>1, <1>0
      <4>2. t[Len(t)] = Null
        BY <4>1, <3>4, <1>0 DEF At
      <4>3. w[n] = t
        BY <3>3, <4>2, NullIsNoNode DEF Onward
      <4> HIDE DEF tl
      <4>4. good(n)
        BY <4>1, <4>3, <3>4 DEF good
      <4> QED BY <4>4, <2>1 DEF bad
    <3> QED BY <3>5, <3>6
  <2> QED BY <2>2, <2>3
<1>3. good(RingSize)
  <2>1. RingSize \in 0 .. RingSize
    BY <1>0
  <2> QED BY <1>2, <2>1
<1> DEFINE t == w[RingSize]
           e == Append(Rest(ls, p), Null)
<1>4. t \in Seq(Pointer) /\ Len(t) = L + 1 /\ \A k \in 1 .. L + 1 : t[k] = At(ls, k + p - 1)
  <2>1. tl(RingSize) = L + 1 /\ L + 1 \in Nat
    BY <1>0
  <2> HIDE DEF tl, L, bad
  <2> QED BY <1>3, <2>1
<1>5. /\ Rest(ls, p) \in Seq(Addr) /\ Len(Rest(ls, p)) = L
      /\ \A k \in 1 .. L : Rest(ls, p)[k] = ls[k + p - 1]
  BY <1>0, RestFacts
<1>6. e \in Seq(Pointer) /\ Len(e) = L + 1 /\ e[L + 1] = Null /\ \A k \in 1 .. L : e[k] = ls[k + p - 1]
  <2>1. Rest(ls, p) \in Seq(Pointer) /\ Null \in Pointer
    <3>1. \A k \in 1 .. L : Rest(ls, p)[k] \in Pointer
      BY <1>5 DEF Pointer
    <3> QED BY <1>5, <3>1, IsASeq DEF Pointer
  <2> HIDE DEF L
  <2> QED BY <2>1, <1>5, AppendProperties
<1>7. \A k \in 1 .. L + 1 : t[k] = e[k]
  <2> TAKE k \in 1 .. L + 1
  <2>1. CASE k = L + 1
    <3>1. k + p - 1 = Len(ls) + 1
      BY <2>1, <1>0
    <3>2. At(ls, k + p - 1) = Null
      BY <3>1, <1>0 DEF At
    <3> HIDE DEF t, e, L
    <3> QED BY <3>2, <2>1, <1>4, <1>6
  <2>2. CASE k # L + 1
    <3>1. k \in 1 .. L /\ k + p - 1 <= Len(ls)
      BY <2>2, <1>0
    <3> HIDE DEF t, e, L
    <3> QED BY <3>1, <1>4, <1>6 DEF At
  <2> QED BY <2>1, <2>2
<1> HIDE DEF t, e, L
<1>8. t = e
  BY <1>4, <1>6, <1>7, SeqsAreEqual
<1> QED BY <1>8, <1>1 DEF t, e

\* Following a list from its p-th node on meets the rest of it, and ends.
LEMMA ListIsPath ==
  ASSUME NEW mem, IsMem(mem), NEW ls, NEW sz, NEW mk, Chain(mem, ls, sz, mk),
         Len(ls) <= RingSize, NEW p \in 1 .. Len(ls) + 1
  PROVE  /\ Sound(mem, At(ls, p))
         /\ Path(mem, At(ls, p)) = Rest(ls, p)
         /\ OnPath(mem, At(ls, p)) = {ls[k] : k \in p .. Len(ls)}
<1> DEFINE r == Rest(ls, p)
           t == Append(r, Null)
           L == Len(ls) - p + 1
<1>0. Len(ls) \in Nat /\ ls \in Seq(Addr) /\ L \in Nat
  BY DEF Chain
<1>1. r \in Seq(Addr) /\ Len(r) = L /\ \A k \in 1 .. L : r[k] = ls[k + p - 1]
  BY <1>0, RestFacts
<1>2. r \in Seq(Pointer)
  <2>1. \A k \in 1 .. L : r[k] \in Pointer
    BY <1>1 DEF Pointer
  <2> QED BY <1>1, <2>1, IsASeq DEF Pointer
<1>3. Trail(mem, At(ls, p)) = t
  BY ListIsTrail
<1> HIDE DEF r, L
<1>4. t \in Seq(Pointer) /\ Len(t) = L + 1 /\ t[L + 1] = Null /\ \A k \in 1 .. L : t[k] = r[k]
  <2>1. Null \in Pointer
    BY DEF Pointer
  <2> QED BY <1>1, <1>2, <2>1, AppendProperties
<1> HIDE DEF t
<1>5. Sound(mem, At(ls, p))
  BY <1>3, <1>4 DEF Sound
<1>6. Path(mem, At(ls, p)) = r
  <2> DEFINE s == SubSeq(t, 1, L)
  <2>1. /\ s \in Seq(Pointer)
        /\ Len(s) = (IF 1 <= L THEN L - 1 + 1 ELSE 0)
        /\ \A k \in 1 .. L - 1 + 1 : s[k] = t[1 + k - 1]
    BY <1>4, <1>0, SubSeqProperties
  <2>2. Len(s) = L /\ \A k \in 1 .. L : s[k] = t[k]
    BY <2>1, <1>0
  <2>3. Path(mem, At(ls, p)) = s
    <3>1. Len(t) - 1 = L
      BY <1>4, <1>0
    <3> QED BY <1>3, <3>1 DEF Path
  <2> HIDE DEF s
  <2>4. s = r
    BY <2>1, <2>2, <1>1, <1>2, <1>4, SeqsAreEqual
  <2> QED BY <2>3, <2>4
<1>7. {r[k] : k \in DOMAIN r} = {ls[k] : k \in p .. Len(ls)}
  <2>1. DOMAIN r = 1 .. L
    BY <1>1, <1>2
  <2>2. ASSUME NEW k \in 1 .. L PROVE k + p - 1 \in p .. Len(ls) /\ r[k] = ls[k + p - 1]
    BY <1>1, <1>0 DEF L
  <2>3. ASSUME NEW k \in p .. Len(ls) PROVE k - p + 1 \in 1 .. L /\ r[k - p + 1] = ls[k]
    <3>1. k - p + 1 \in 1 .. L /\ (k - p + 1) + p - 1 = k
      BY <1>0 DEF L
    <3> QED BY <3>1, <1>1
  <2>4. ASSUME NEW x \in {r[k] : k \in DOMAIN r} PROVE x \in {ls[k] : k \in p .. Len(ls)}
    <3>1. PICK k \in 1 .. L : x = r[k]
      BY <2>1
    <3> QED BY <3>1, <2>2
  <2>5. ASSUME NEW x \in {ls[k] : k \in p .. Len(ls)} PROVE x \in {r[k] : k \in DOMAIN r}
    <3>1. PICK k \in p .. Len(ls) : x = ls[k]
      OBVIOUS
    <3> QED BY <3>1, <2>3, <2>1
  <2> QED BY <2>4, <2>5
<1> QED BY <1>5, <1>6, <1>7 DEF OnPath, r

-----------------------------------------------------------------------------
(* The manage header.                                                      *)

\* A manage header with the nodes in the ring.
IsRing(r) ==
    /\ r = [mem |-> r.mem, first |-> r.first, begin |-> r.begin, end |-> r.end,
            size |-> r.size, slot |-> r.slot, num |-> r.num]
    /\ IsMem(r.mem)
    /\ r.first \in Pointer /\ r.begin \in Addr /\ r.end \in Addr
    /\ r.slot \in [Slot -> [uid : User \cup {NoUser}, msg : Pointer]]
    /\ r.num \in 0 .. MaxUser

\* What the model forgets is not on the list.
LEMMA CollectedKeeps ==
  ASSUME NEW r, IsRing(r), NEW also, also \subseteq Pointer
  PROVE  LET c == Collected(r, also)
         IN  /\ c = [r EXCEPT !.mem = c.mem]
             /\ IsRing(c)
             /\ \A ls, sz, mk : /\ Chain(r.mem, ls, sz, mk) /\ Len(ls) <= RingSize
                                /\ r.first = At(ls, 1)
                                => Chain(c.mem, ls, sz, mk)
<1> DEFINE roots == {r.first} \cup {r.slot[i].msg : i \in Slot} \cup also
           used  == UNION {OnPath(r.mem, a) : a \in roots}
           m     == [x \in used |-> r.mem[x]]
           c     == Collected(r, also)
<1>1. roots \subseteq Pointer /\ IsMem(r.mem)
  BY DEF IsRing
<1>2. used \subseteq DOMAIN r.mem
  BY <1>1, PathIsInside
<1>3. c = [r EXCEPT !.mem = m]
  BY Zenon DEF Collected
<1>4. c = [mem |-> m, first |-> r.first, begin |-> r.begin, end |-> r.end,
           size |-> r.size, slot |-> r.slot, num |-> r.num]
  BY <1>3 DEF IsRing
<1>5. OnPath(r.mem, r.first) \subseteq used
  OBVIOUS
<1> HIDE DEF used, c
<1>6. IsMem(m)
  BY <1>1, <1>2 DEF IsMem
<1> HIDE DEF m
<1>7. c.mem = m /\ c = [r EXCEPT !.mem = c.mem] /\ IsRing(c)
  BY <1>3, <1>4, <1>6 DEF IsRing
<1>8. ASSUME NEW ls, NEW sz, NEW mk, Chain(r.mem, ls, sz, mk), Len(ls) <= RingSize, r.first = At(ls, 1)
      PROVE  Chain(m, ls, sz, mk)
  <2>1. 1 \in 1 .. Len(ls) + 1
    BY <1>8 DEF Chain
  <2>2. {ls[k] : k \in 1 .. Len(ls)} \subseteq used
    BY <1>1, <1>5, <1>8, <2>1, ListIsPath
  <2>3. \A k \in 1 .. Len(ls) : ls[k] \in DOMAIN m /\ m[ls[k]] = r.mem[ls[k]]
    BY <2>2 DEF m
  <2> QED BY <1>8, <2>3 DEF Chain
<1> QED BY <1>7, <1>8 DEF c

-----------------------------------------------------------------------------
(* Where the nodes lie.                                                    *)

\* The size of a report of which there is room for one more than there are users in the
\* threshold; no report is longer.
Longest == CHOOSE n \in 2 .. Threshold : /\ (MaxUser + 1) * n <= Threshold
                                         /\ \A m \in Sizes : m <= n

Span(c) == c * Longest

\* The constants are numbers.
LEMMA ConstantsAreInt ==
  /\ RingSize \in Nat /\ Threshold \in Nat /\ Threshold < RingSize
  /\ MaxUser \in Nat /\ 1 <= MaxUser /\ MaxUser <= 255
  /\ Sizes \subseteq Nat \ {0}
  BY SizeAssumption, UserAssumption

\* The longest report: two of them fit in the threshold.
LEMMA LongestIsLong ==
  /\ Longest \in Nat /\ 2 <= Longest /\ 2 * Longest <= Threshold
  /\ Span(MaxUser + 1) <= Threshold
  /\ \A n \in Sizes : n \in Nat /\ 1 <= n /\ n <= Longest
<1>1. Longest \in 2 .. Threshold /\ (MaxUser + 1) * Longest <= Threshold /\ \A n \in Sizes : n <= Longest
  BY SizeAssumption, Zenon DEF Longest
<1>2. 2 * Longest <= (MaxUser + 1) * Longest
  <2> DEFINE n == Longest
  <2>1. n \in Nat
    BY <1>1, ConstantsAreInt
  <2> HIDE DEF n
  <2>2. MaxUser + 1 = 2 + (MaxUser - 1) /\ MaxUser - 1 \in Nat
    BY ConstantsAreInt
  <2>3. (2 + (MaxUser - 1)) * n = 2 * n + (MaxUser - 1) * n /\ (MaxUser - 1) * n \in Nat
    BY <2>1, <2>2, ConstantsAreInt
  <2>4. 2 * n <= (MaxUser + 1) * n
    BY <2>1, <2>2, <2>3
  <2> QED BY <2>4 DEF n
<1> QED BY <1>1, <1>2, ConstantsAreInt DEF Span

\* A span of so many longest reports is a number ...
LEMMA SpanIsNat == ASSUME NEW c \in Nat PROVE Span(c) \in Nat
  BY LongestIsLong DEF Span

\* ... which each report more makes longer by one of them ...
LEMMA SpanStep == ASSUME NEW c \in Nat PROVE Span(c + 1) = Span(c) + Longest
<1> DEFINE n == Longest
<1>1. n \in Nat
  BY LongestIsLong
<1> HIDE DEF n
<1>2. (c + 1) * n = c * n + n
  BY <1>1
<1> QED BY <1>2 DEF Span, n

\* ... so that it grows with their number.
LEMMA SpanGrows == ASSUME NEW c \in Nat, NEW d \in Nat, c <= d PROVE Span(c) <= Span(d)
<1> DEFINE n == Longest
           e == d - c
<1>1. n \in Nat /\ e \in Nat /\ d = c + e
  BY LongestIsLong
<1> HIDE DEF n, e
<1>2. (c + e) * n = c * n + e * n /\ e * n \in Nat /\ c * n \in Nat
  BY <1>1
<1>3. c * n <= d * n
  BY <1>1, <1>2
<1> QED BY <1>3 DEF Span, n

\* As many reports as there are users leave room for one, with a user less for two.
LEMMA SpanLeaves ==
  ASSUME NEW c \in Nat, c <= MaxUser - 1
  PROVE  Span(c) + 2 * Longest <= Threshold
<1>1. MaxUser - 1 \in Nat /\ MaxUser \in Nat /\ (MaxUser - 1) + 1 = MaxUser
  BY ConstantsAreInt
<1>2. Span(MaxUser + 1) = Span(MaxUser) + Longest /\ Span(MaxUser) = Span(MaxUser - 1) + Longest
  BY <1>1, SpanStep
<1>3. Span(c) <= Span(MaxUser - 1)
  BY <1>1, SpanGrows
<1>4. Span(c) \in Nat /\ Span(MaxUser - 1) \in Nat /\ Span(MaxUser) \in Nat /\ Longest \in Nat
      /\ Span(MaxUser + 1) \in Nat /\ Threshold \in Nat
  BY <1>1, SpanIsNat, LongestIsLong, ConstantsAreInt
<1> QED BY <1>2, <1>3, <1>4, LongestIsLong

\* From x on to b, round the ring's edge if need be; a whole ring if they are the same.
Dist(b, x) == IF x < b THEN b - x ELSE b + RingSize - x

\* What a report that did not fit before the edge has left between x and b.
Waste(b, x) == IF b < x THEN Longest - 1 ELSE 0

\* The idle area ends before the oldest node.
EndOf(ls) == IF ls = <<>> THEN RingSize - 1 ELSE ByteBefore(ls[1])

\* The nodes lie one behind the other, oldest first, and the idle area begins at b behind the
\* last; nothing is between them but what is left at the ring's edge.
Laid(b, ls, sz) ==
    /\ b \in Addr
    /\ ls = <<>> => b = 0
    /\ \A k \in 1 .. Len(ls) :
          /\ ls[k] + sz[k] <= RingSize
          /\ sz[k] <= Dist(b, ls[k]) /\ Dist(b, ls[k]) < RingSize
          /\ Len(ls) - k < Dist(b, ls[k])
          /\ Dist(b, ls[k]) <= Span(Len(ls) - k + 1) + Waste(b, ls[k])
          /\ \A j \in 1 .. k - 1 : Dist(b, ls[k]) + sz[j] <= Dist(b, ls[j])

\* There is room for one more report.
Roomy(b, ls) ==
    ls # <<>> => /\ ls[1] < b => RingSize - Dist(b, ls[1]) >= 2 * Longest
                 /\ b < ls[1] => RingSize - Dist(b, ls[1]) > Longest

\* Where a report of n bytes goes when the idle area begins at b, and how far that area's
\* beginning moves.
Placed(b, n) == IF n > RingSize - b THEN 0 ELSE b
Moved(b, n)  == IF n > RingSize - b THEN RingSize - b + n
                ELSE IF b + n = RingSize - 1 THEN n + 1 ELSE n

\* A report is written where nothing is, and the idle area stays clear of the oldest, at f.
LEMMA Advance ==
  ASSUME NEW b \in Addr, NEW n \in Sizes, NEW f \in Addr, NEW x \in Addr,
         Dist(b, x) <= Dist(b, f), Dist(b, f) < RingSize,
         f < b => RingSize - Dist(b, f) >= 2 * Longest,
         b < f => RingSize - Dist(b, f) > Longest,
         NEW s \in Nat, s <= Dist(b, x), x + s <= RingSize
  PROVE  LET at == Placed(b, n)
             c  == Behind(at, n)
         IN  /\ at \in Addr /\ c \in Addr /\ at + n <= RingSize
             /\ Dist(c, x) = Dist(b, x) + Moved(b, n)
             /\ Dist(c, x) < RingSize
             /\ Dist(c, x) <= Dist(b, x) - Waste(b, x) + Longest + Waste(c, x)
             /\ n <= Dist(c, at) /\ Dist(c, at) < RingSize
             /\ Dist(c, at) <= Moved(b, n)
             /\ Dist(c, at) <= Longest + Waste(c, at)
             /\ at + n <= x \/ x + s <= at
<1>1. n \in Nat /\ 1 <= n /\ n <= Longest /\ Longest \in Nat /\ 2 <= Longest /\ 2 * Longest < RingSize
  BY LongestIsLong, ConstantsAreInt
<1>2. RingSize \in Nat /\ b \in Int /\ 0 <= b /\ b < RingSize /\ f \in Int /\ 0 <= f /\ f < RingSize
      /\ x \in Int /\ 0 <= x /\ x < RingSize
  BY ConstantsAreInt DEF Addr
<1> DEFINE N == Longest
           R == RingSize
<1>3. N \in Int /\ R \in Int
  BY <1>1, <1>2
<1>4. CASE n > R - b
  BY <1>1, <1>2, <1>4 DEF Dist, Placed, Behind, Moved, Waste, Addr
<1>5. CASE ~(n > R - b) /\ b + n = R - 1
  BY <1>1, <1>2, <1>5 DEF Dist, Placed, Behind, Moved, Waste, Addr
<1>6. CASE ~(n > R - b) /\ b + n # R - 1
  BY <1>1, <1>2, <1>6 DEF Dist, Placed, Behind, Moved, Waste, Addr
<1> QED BY <1>4, <1>5, <1>6

\* Into the empty ring.
LEMMA AdvanceEmpty ==
  ASSUME NEW n \in Sizes
  PROVE  LET at == Placed(0, n)
             c  == Behind(at, n)
         IN  /\ at = 0 /\ at \in Addr /\ c \in Addr /\ at + n <= RingSize
             /\ n <= Dist(c, at) /\ Dist(c, at) < RingSize
             /\ Dist(c, at) <= Longest + Waste(c, at)
<1>1. n \in Nat /\ 1 <= n /\ n <= Longest /\ Longest \in Nat /\ 2 <= Longest /\ 2 * Longest < RingSize
  BY LongestIsLong, ConstantsAreInt
<1>2. RingSize \in Nat
  BY ConstantsAreInt
<1> QED BY <1>1, <1>2 DEF Dist, Placed, Behind, Waste, Addr

\* A distance is a number, and not zero.
LEMMA DistIsInt ==
  ASSUME NEW b \in Addr, NEW x \in Addr PROVE Dist(b, x) \in Nat /\ Dist(b, x) >= 1
  BY ConstantsAreInt DEF Addr, Dist

\* A sequence with one element more.
LEMMA AppendFacts ==
  ASSUME NEW S, NEW s \in Seq(S), NEW e \in S
  PROVE  /\ Append(s, e) \in Seq(S) /\ Append(s, e) # <<>>
         /\ Len(Append(s, e)) = Len(s) + 1 /\ Len(s) \in Nat
         /\ \A k \in 1 .. Len(s) : Append(s, e)[k] = s[k]
         /\ Append(s, e)[Len(s) + 1] = e
  BY AppendProperties

\* The ring without its oldest nodes.
LEMMA RestIsLaid ==
  ASSUME NEW b, NEW ls \in Seq(Addr), NEW sz \in Seq(Sizes), Len(sz) = Len(ls),
         Laid(b, ls, sz), NEW m \in 1 .. Len(ls)
  PROVE  Laid(b, Rest(ls, m), Rest(sz, m))
<1> DEFINE L  == Len(ls)
           l2 == Rest(ls, m)
           s2 == Rest(sz, m)
<1>0. L \in Nat /\ m \in 1 .. L /\ m \in 1 .. L + 1
  OBVIOUS
<1>1. /\ l2 \in Seq(Addr) /\ Len(l2) = L - m + 1 /\ \A k \in 1 .. L - m + 1 : l2[k] = ls[k + m - 1]
      /\ s2 \in Seq(Sizes) /\ Len(s2) = L - m + 1 /\ \A k \in 1 .. L - m + 1 : s2[k] = sz[k + m - 1]
  BY <1>0, RestFacts
<1> HIDE DEF l2, s2
<1>2. l2 # <<>>
  BY <1>0, <1>1
<1>3. ASSUME NEW k \in 1 .. Len(l2)
      PROVE  /\ l2[k] + s2[k] <= RingSize
             /\ s2[k] <= Dist(b, l2[k]) /\ Dist(b, l2[k]) < RingSize
             /\ Len(l2) - k < Dist(b, l2[k])
             /\ Dist(b, l2[k]) <= Span(Len(l2) - k + 1) + Waste(b, l2[k])
             /\ \A j \in 1 .. k - 1 : Dist(b, l2[k]) + s2[j] <= Dist(b, l2[j])
  <2> DEFINE i == k + m - 1
  <2>1. i \in 1 .. L /\ Len(l2) - k = L - i /\ l2[k] = ls[i] /\ s2[k] = sz[i]
    BY <1>0, <1>1
  <2>2. ASSUME NEW j \in 1 .. k - 1 PROVE l2[j] = ls[j + m - 1] /\ s2[j] = sz[j + m - 1] /\ j + m - 1 \in 1 .. i - 1
    BY <1>0, <1>1
  <2> HIDE DEF i
  <2>3. /\ ls[i] + sz[i] <= RingSize
        /\ sz[i] <= Dist(b, ls[i]) /\ Dist(b, ls[i]) < RingSize
        /\ L - i < Dist(b, ls[i])
        /\ Dist(b, ls[i]) <= Span(L - i + 1) + Waste(b, ls[i])
        /\ \A j \in 1 .. i - 1 : Dist(b, ls[i]) + sz[j] <= Dist(b, ls[j])
    BY <2>1 DEF Laid
  <2>4. ASSUME NEW j \in 1 .. k - 1 PROVE Dist(b, l2[k]) + s2[j] <= Dist(b, l2[j])
    BY <2>1, <2>2, <2>3
  <2> QED BY <2>1, <2>3, <2>4
<1>4. b \in Addr
  BY DEF Laid
<1> QED BY <1>2, <1>3, <1>4, Zenon DEF Laid, l2, s2

\* The ring with one more report.
LEMMA MoreIsLaid ==
  ASSUME NEW b, NEW ls \in Seq(Addr), NEW sz \in Seq(Sizes), Len(sz) = Len(ls),
         Laid(b, ls, sz), Roomy(b, ls), NEW n \in Sizes
  PROVE  LET at == Placed(b, n)
             c  == Behind(at, n)
         IN  /\ at \in Addr /\ c \in Addr /\ at + n <= RingSize
             /\ Laid(c, Append(ls, at), Append(sz, n))
             /\ \A k \in 1 .. Len(ls) : at + n <= ls[k] \/ ls[k] + sz[k] <= at
             /\ \A k \in 1 .. Len(ls) : Dist(c, ls[k]) = Dist(b, ls[k]) + Moved(b, n)
             /\ (n <= Dist(c, at) /\ Dist(c, at) <= Moved(b, n)) \/ ls = <<>>
<1> DEFINE at == Placed(b, n)
           c  == Behind(at, n)
           L  == Len(ls)
           l2 == Append(ls, at)
           s2 == Append(sz, n)
<1>0. b \in Addr /\ L \in Nat /\ n \in Nat /\ 1 <= n /\ Longest \in Nat
  BY LongestIsLong DEF Laid
<1>1. CASE ls = <<>>
  <2>1. b = 0 /\ L = 0
    BY <1>1 DEF Laid
  <2>2. /\ at \in Addr /\ c \in Addr /\ at + n <= RingSize
        /\ n <= Dist(c, at) /\ Dist(c, at) < RingSize
        /\ Dist(c, at) <= Longest + Waste(c, at)
    BY <2>1, AdvanceEmpty
  <2> HIDE DEF at, c
  <2>3. /\ l2 \in Seq(Addr) /\ Len(l2) = 1 /\ l2[1] = at /\ l2 # <<>>
        /\ s2 \in Seq(Sizes) /\ Len(s2) = 1 /\ s2[1] = n
    <3>1. Len(ls) = 0 /\ Len(sz) = 0 /\ 0 + 1 = 1
      BY <2>1
    <3>2. l2 \in Seq(Addr) /\ Len(l2) = Len(ls) + 1 /\ l2[Len(ls) + 1] = at /\ l2 # <<>>
      BY <2>2, AppendFacts
    <3>3. s2 \in Seq(Sizes) /\ Len(s2) = Len(sz) + 1 /\ s2[Len(sz) + 1] = n
      BY AppendFacts
    <3> HIDE DEF l2, s2
    <3> QED BY <3>1, <3>2, <3>3
  <2> HIDE DEF l2, s2
  <2>4. Span(1) = Longest /\ 0 + 1 = 1
    BY <1>0 DEF Span
  <2>5. Laid(c, l2, s2)
    <3> SUFFICES ASSUME NEW k \in 1 .. Len(l2)
                 PROVE  /\ l2[k] + s2[k] <= RingSize
                        /\ s2[k] <= Dist(c, l2[k]) /\ Dist(c, l2[k]) < RingSize
                        /\ Len(l2) - k < Dist(c, l2[k])
                        /\ Dist(c, l2[k]) <= Span(Len(l2) - k + 1) + Waste(c, l2[k])
                        /\ \A j \in 1 .. k - 1 : Dist(c, l2[k]) + s2[j] <= Dist(c, l2[j])
      BY <2>2, <2>3 DEF Laid
    <3>1. k = 1 /\ Len(l2) - k = 0 /\ Len(l2) - k + 1 = 1 /\ 1 .. k - 1 = {}
      BY <2>3
    <3>2. Dist(c, at) \in Nat
      BY <2>2, DistIsInt
    <3> QED BY <3>1, <3>2, <2>2, <2>3, <2>4, <1>0
  <2> QED BY <2>1, <2>2, <2>5, <1>1 DEF at, c, l2, s2
<1>2. CASE ls # <<>>
  <2>1. 1 \in 1 .. L /\ ls[1] \in Addr
    BY <1>2
  <2> DEFINE f == ls[1]
             d(x) == Dist(b, x)
             e(x) == Dist(c, x)
             mv == Moved(b, n)
  <2>2. Dist(b, f) < RingSize /\ (f < b => RingSize - Dist(b, f) >= 2 * Longest)
        /\ (b < f => RingSize - Dist(b, f) > Longest)
    BY <2>1, <1>2 DEF Laid, Roomy
  <2>3. ASSUME NEW k \in 1 .. L
        PROVE  /\ ls[k] \in Addr /\ sz[k] \in Nat /\ sz[k] \in Sizes /\ 1 <= sz[k]
               /\ Dist(b, ls[k]) <= Dist(b, f)
               /\ sz[k] <= Dist(b, ls[k]) /\ ls[k] + sz[k] <= RingSize
               /\ Dist(b, ls[k]) \in Nat
    <3>1. ls[k] \in Addr /\ sz[k] \in Sizes /\ sz[1] \in Sizes
      BY <2>1
    <3>2. sz[k] \in Nat /\ 1 <= sz[k] /\ sz[1] \in Nat
      BY <3>1, LongestIsLong
    <3>3. /\ sz[k] <= Dist(b, ls[k]) /\ ls[k] + sz[k] <= RingSize
          /\ \A j \in 1 .. k - 1 : Dist(b, ls[k]) + sz[j] <= Dist(b, ls[j])
      BY DEF Laid
    <3>4. Dist(b, ls[k]) \in Nat /\ Dist(b, f) \in Nat
      BY <3>1, <2>1, <1>0, DistIsInt
    <3>5. Dist(b, ls[k]) <= Dist(b, f)
      <4>1. CASE k = 1
        BY <4>1, <3>4
      <4>2. CASE k # 1
        <5>1. 1 \in 1 .. k - 1
          BY <4>2, <1>0
        <5>2. Dist(b, ls[k]) + sz[1] <= Dist(b, ls[1])
          BY <5>1, <3>3
        <5> QED BY <5>2, <3>2, <3>4
      <4> QED BY <4>1, <4>2
    <3> QED BY <3>1, <3>2, <3>3, <3>4, <3>5
  <2>4. ASSUME NEW k \in 1 .. L
        PROVE  /\ at \in Addr /\ c \in Addr /\ at + n <= RingSize
               /\ Dist(c, ls[k]) = Dist(b, ls[k]) + mv
               /\ Dist(c, ls[k]) < RingSize
               /\ Dist(c, ls[k]) <= Dist(b, ls[k]) - Waste(b, ls[k]) + Longest + Waste(c, ls[k])
               /\ n <= Dist(c, at) /\ Dist(c, at) < RingSize
               /\ Dist(c, at) <= mv
               /\ Dist(c, at) <= Longest + Waste(c, at)
               /\ at + n <= ls[k] \/ ls[k] + sz[k] <= at
    <3> DEFINE x == ls[k]  s == sz[k]
    <3>1. x \in Addr /\ f \in Addr /\ s \in Nat /\ Dist(b, x) <= Dist(b, f) /\ s <= Dist(b, x) /\ x + s <= RingSize
      BY <2>1, <2>3
    <3> HIDE DEF x, s, f
    <3> QED BY <1>0, <2>2, <3>1, Advance DEF x, s
  <2>5. /\ at \in Addr /\ c \in Addr /\ at + n <= RingSize
        /\ n <= Dist(c, at) /\ Dist(c, at) < RingSize
        /\ Dist(c, at) <= mv /\ Dist(c, at) <= Longest + Waste(c, at)
    BY <2>1, <2>4
  <2> HIDE DEF at, c, f
  <2>6. mv \in Nat /\ mv >= n
    BY <1>0, ConstantsAreInt DEF Moved, Addr
  <2> HIDE DEF mv
  <2>7. /\ l2 \in Seq(Addr) /\ Len(l2) = L + 1 /\ l2[L + 1] = at /\ l2 # <<>>
        /\ s2 \in Seq(Sizes) /\ Len(s2) = L + 1 /\ s2[L + 1] = n
        /\ \A k \in 1 .. L : l2[k] = ls[k] /\ s2[k] = sz[k]
    BY <2>5, AppendFacts
  <2> HIDE DEF l2, s2
  <2>8. ASSUME NEW k \in 1 .. L + 1
        PROVE  /\ l2[k] + s2[k] <= RingSize
               /\ s2[k] <= Dist(c, l2[k]) /\ Dist(c, l2[k]) < RingSize
               /\ L + 1 - k < Dist(c, l2[k])
               /\ Dist(c, l2[k]) <= Span(L + 1 - k + 1) + Waste(c, l2[k])
               /\ \A j \in 1 .. k - 1 : Dist(c, l2[k]) + s2[j] <= Dist(c, l2[j])
    <3>1. CASE k = L + 1
      <4>1. L + 1 - k = 0 /\ L + 1 - k + 1 = 1 /\ Span(1) = Longest
        BY <3>1, <1>0 DEF Span
      <4>2. Dist(c, at) \in Nat /\ Dist(c, at) >= 1
        BY <2>5, DistIsInt
      <4>3. ASSUME NEW j \in 1 .. k - 1 PROVE Dist(c, l2[k]) + s2[j] <= Dist(c, l2[j])
        <5>1. j \in 1 .. L
          BY <3>1, <1>0
        <5>2. Dist(c, ls[j]) = Dist(b, ls[j]) + mv /\ sz[j] <= Dist(b, ls[j])
              /\ sz[j] \in Nat /\ Dist(b, ls[j]) \in Nat
          BY <5>1, <2>3, <2>4
        <5>3. l2[k] = at /\ s2[j] = sz[j] /\ l2[j] = ls[j]
          BY <3>1, <2>7, <5>1
        <5> QED BY <5>2, <5>3, <2>5, <2>6, <4>2
      <4>4. l2[k] = at /\ s2[k] = n
        BY <3>1, <2>7
      <4> QED BY <4>1, <4>2, <4>3, <4>4, <2>5
    <3>2. CASE k # L + 1
      <4>1. k \in 1 .. L
        BY <3>2, <1>0
      <4>2. l2[k] = ls[k] /\ s2[k] = sz[k]
        BY <4>1, <2>7
      <4>3. /\ L - k < Dist(b, ls[k])
            /\ Dist(b, ls[k]) <= Span(L - k + 1) + Waste(b, ls[k])
            /\ \A j \in 1 .. k - 1 : Dist(b, ls[k]) + sz[j] <= Dist(b, ls[j])
        BY <4>1 DEF Laid
      <4>4. /\ Dist(c, ls[k]) = Dist(b, ls[k]) + mv /\ Dist(c, ls[k]) < RingSize
            /\ Dist(c, ls[k]) <= Dist(b, ls[k]) - Waste(b, ls[k]) + Longest + Waste(c, ls[k])
            /\ sz[k] \in Nat /\ Dist(b, ls[k]) \in Nat /\ ls[k] \in Addr
            /\ sz[k] <= Dist(b, ls[k]) /\ ls[k] + sz[k] <= RingSize
        BY <4>1, <2>3, <2>4
      <4>5. Span(L + 1 - k + 1) = Span(L - k + 1) + Longest /\ Span(L - k + 1) \in Nat
        <5>1. L - k + 1 \in Nat /\ L + 1 - k + 1 = (L - k + 1) + 1
          BY <4>1, <1>0
        <5> QED BY <5>1, SpanStep, SpanIsNat
      <4>6. Waste(b, ls[k]) \in Nat /\ Waste(c, ls[k]) \in Nat
        BY LongestIsLong DEF Waste
      <4>7. ASSUME NEW j \in 1 .. k - 1 PROVE Dist(c, l2[k]) + s2[j] <= Dist(c, l2[j])
        <5>1. j \in 1 .. L
          BY <4>1, <1>0
        <5>2. Dist(c, ls[j]) = Dist(b, ls[j]) + mv /\ sz[j] \in Nat /\ Dist(b, ls[j]) \in Nat
          BY <5>1, <2>3, <2>4
        <5>3. Dist(b, ls[k]) + sz[j] <= Dist(b, ls[j])
          BY <4>3
        <5>4. s2[j] = sz[j] /\ l2[j] = ls[j]
          BY <5>1, <2>7
        <5> QED BY <5>2, <5>3, <5>4, <4>2, <4>4, <2>6
      <4>8. L + 1 - k < Dist(c, ls[k])
        BY <4>1, <4>3, <4>4, <2>6, <1>0
      <4>9. Dist(c, ls[k]) <= Span(L + 1 - k + 1) + Waste(c, ls[k])
        BY <4>3, <4>4, <4>5, <4>6, <2>6, <1>0, SMTT(30)
      <4>10. sz[k] <= Dist(c, ls[k])
        BY <4>4, <2>6
      <4> QED BY <4>2, <4>4, <4>7, <4>8, <4>9, <4>10
    <3> QED BY <3>1, <3>2
  <2>9. Laid(c, l2, s2)
    <3> DEFINE K == L + 1
    <3>1. Len(l2) = K
      BY <2>7
    <3>2. ASSUME NEW k \in 1 .. K
          PROVE  /\ l2[k] + s2[k] <= RingSize
                 /\ s2[k] <= Dist(c, l2[k]) /\ Dist(c, l2[k]) < RingSize
                 /\ K - k < Dist(c, l2[k])
                 /\ Dist(c, l2[k]) <= Span(K - k + 1) + Waste(c, l2[k])
                 /\ \A j \in 1 .. k - 1 : Dist(c, l2[k]) + s2[j] <= Dist(c, l2[j])
      BY <2>8
    <3> HIDE DEF K
    <3> QED BY <2>5, <2>7, <3>1, <3>2, Zenon DEF Laid
  <2> QED BY <2>4, <2>5, <2>9 DEF at, c, l2, s2, mv
<1> QED BY <1>1, <1>2

-----------------------------------------------------------------------------
(* How much room is left.                                                  *)

\* The space there would be without the k-th node and those after it is the threshold, but
\* for what did not fit before the ring's edge ...
HadRoom(b, ls, k) ==
    RingSize - Dist(b, ls[1]) + Dist(b, ls[k]) + (IF ls[k] = 0 THEN Longest - 1 ELSE 0) >= Threshold

\* ... and since then each report has cost a subscriber: of u there were, that many are left.
Spacious(b, ls, mk, u) ==
    ls # <<>> => \E k \in 1 .. Len(ls) :
                    /\ HadRoom(b, ls, k)
                    /\ \A j \in k .. Len(ls) : Cardinality(mk[j]) + (Len(ls) - j) <= u

\* A mask is finite, with at most as many slots as there are.
LEMMA MaskIsFinite ==
  ASSUME NEW m, m \subseteq Slot
  PROVE  /\ IsFiniteSet(m) /\ Cardinality(m) \in Nat /\ Cardinality(m) <= MaxUser
         /\ m # {} => Cardinality(m) >= 1
         /\ \A s \in SUBSET m : IsFiniteSet(s) /\ Cardinality(s) \in Nat /\ Cardinality(s) <= Cardinality(m)
<1>1. IsFiniteSet(Slot) /\ Cardinality(Slot) = MaxUser
  BY ConstantsAreInt, FS_Interval DEF Slot
<1>2. IsFiniteSet(m) /\ Cardinality(m) <= MaxUser
  BY <1>1, FS_Subset
<1>3. Cardinality(m) \in Nat
  BY <1>2, FS_CardinalityType
<1>4. m # {} => Cardinality(m) # 0
  BY <1>2, FS_EmptySet
<1>5. ASSUME NEW s \in SUBSET m
      PROVE  IsFiniteSet(s) /\ Cardinality(s) \in Nat /\ Cardinality(s) <= Cardinality(m)
  BY <1>2, FS_Subset, FS_CardinalityType
<1> QED BY <1>2, <1>3, <1>4, <1>5

\* The distances of the nodes are numbers, the oldest's the greatest.
LEMMA LaidFacts ==
  ASSUME NEW b, NEW ls \in Seq(Addr), NEW sz \in Seq(Sizes), Len(sz) = Len(ls), Laid(b, ls, sz)
  PROVE  /\ b \in Addr /\ Len(ls) \in Nat
         /\ \A k \in 1 .. Len(ls) : /\ ls[k] \in Addr /\ sz[k] \in Nat /\ 1 <= sz[k]
                                    /\ Dist(b, ls[k]) \in Nat /\ Dist(b, ls[k]) < RingSize
                                    /\ \A j \in 1 .. k - 1 : Dist(b, ls[k]) < Dist(b, ls[j])
         /\ \A j, k \in 1 .. Len(ls) : j <= k => Dist(b, ls[k]) <= Dist(b, ls[j])
         /\ \A j, k \in 1 .. Len(ls) : ls[j] = ls[k] => j = k
         /\ Len(ls) < RingSize
<1>0. b \in Addr /\ Len(ls) \in Nat
  BY DEF Laid
<1>1. ASSUME NEW k \in 1 .. Len(ls)
      PROVE  /\ ls[k] \in Addr /\ sz[k] \in Nat /\ 1 <= sz[k]
             /\ Dist(b, ls[k]) \in Nat
  <2>1. ls[k] \in Addr /\ sz[k] \in Sizes
    OBVIOUS
  <2> QED BY <1>0, <2>1, LongestIsLong, DistIsInt
<1>2. ASSUME NEW k \in 1 .. Len(ls), NEW j \in 1 .. k - 1
      PROVE  Dist(b, ls[k]) < Dist(b, ls[j])
  <2>1. Dist(b, ls[k]) + sz[j] <= Dist(b, ls[j])
    BY DEF Laid
  <2>2. j \in 1 .. Len(ls)
    BY <1>0
  <2> QED BY <2>1, <2>2, <1>1
<1>3. ASSUME NEW j \in 1 .. Len(ls), NEW k \in 1 .. Len(ls), j <= k
      PROVE  Dist(b, ls[k]) <= Dist(b, ls[j])
  <2>1. CASE j = k
    BY <2>1, <1>1
  <2>2. CASE j # k
    <3>1. j \in 1 .. k - 1
      BY <2>2, <1>3
    <3> QED BY <3>1, <1>1, <1>2
  <2> QED BY <2>1, <2>2
<1>4. ASSUME NEW j \in 1 .. Len(ls), NEW k \in 1 .. Len(ls), ls[j] = ls[k] PROVE j = k
  <2>1. ~(j < k) /\ ~(k < j)
    <3>1. ASSUME j < k PROVE FALSE
      BY <3>1, <1>1, <1>2, <1>4
    <3>2. ASSUME k < j PROVE FALSE
      BY <3>2, <1>1, <1>2, <1>4
    <3> QED BY <3>1, <3>2
  <2> QED BY <2>1
<1>5. Len(ls) < RingSize
  <2>1. CASE Len(ls) = 0
    BY <2>1, ConstantsAreInt
  <2>2. CASE Len(ls) # 0
    <3>1. 1 \in 1 .. Len(ls)
      BY <2>2, <1>0
    <3>2. Len(ls) - 1 < Dist(b, ls[1]) /\ Dist(b, ls[1]) < RingSize
      BY <3>1 DEF Laid
    <3> QED BY <3>1, <3>2, <1>0, <1>1, ConstantsAreInt
  <2> QED BY <2>1, <2>2
<1>6. \A k \in 1 .. Len(ls) : Dist(b, ls[k]) < RingSize
  BY DEF Laid
<1> QED BY <1>0, <1>1, <1>2, <1>3, <1>4, <1>5, <1>6

\* Dropping the oldest makes room.
LEMMA RestIsSpacious ==
  ASSUME NEW b, NEW ls \in Seq(Addr), NEW sz \in Seq(Sizes), Len(sz) = Len(ls), Laid(b, ls, sz),
         NEW mk \in Seq(SUBSET Slot), Len(mk) = Len(ls), NEW u, Spacious(b, ls, mk, u),
         NEW m \in 1 .. Len(ls)
  PROVE  Spacious(b, Rest(ls, m), Rest(mk, m), u)
<1> DEFINE L  == Len(ls)
           l2 == Rest(ls, m)
           m2 == Rest(mk, m)
<1>0. L \in Nat /\ m \in 1 .. L /\ m \in 1 .. L + 1 /\ b \in Addr
  BY DEF Laid
<1>1. /\ Len(l2) = L - m + 1 /\ \A k \in 1 .. L - m + 1 : l2[k] = ls[k + m - 1]
      /\ Len(m2) = L - m + 1 /\ \A k \in 1 .. L - m + 1 : m2[k] = mk[k + m - 1]
  BY <1>0, RestFacts
<1> HIDE DEF l2, m2
<1>2. PICK k \in 1 .. L : /\ HadRoom(b, ls, k)
                          /\ \A j \in k .. L : Cardinality(mk[j]) + (L - j) <= u
  <2>1. ls # <<>>
    BY <1>0
  <2> QED BY <2>1 DEF Spacious
<1>3. \A j, i \in 1 .. L : ls[j] \in Addr /\ Dist(b, ls[j]) \in Nat /\ (j <= i => Dist(b, ls[i]) <= Dist(b, ls[j]))
  BY LaidFacts
<1>4. l2[1] = ls[m]
  <2>1. 1 \in 1 .. L - m + 1 /\ 1 + m - 1 = m
    BY <1>0
  <2>2. l2[1] = ls[1 + m - 1]
    BY <2>1, <1>1, Zenon
  <2> QED BY <2>1, <2>2
<1>5. ASSUME NEW j \in 1 .. Len(l2)
      PROVE  m2[j] = mk[j + m - 1] /\ Len(l2) - j = L - (j + m - 1) /\ j + m - 1 \in m .. L
  <2>1. j \in 1 .. L - m + 1
    BY <1>1
  <2>2. m2[j] = mk[j + m - 1]
    BY <2>1, <1>1, Zenon
  <2> HIDE DEF L
  <2> QED BY <1>0, <1>1, <2>1, <2>2
<1>6. CASE m <= k
  <2> DEFINE i == k - m + 1
  <2>1. i \in 1 .. Len(l2) /\ l2[i] = ls[k]
    BY <1>0, <1>1, <1>6
  <2>2. HadRoom(b, l2, i)
    <3>1. Dist(b, ls[m]) <= Dist(b, ls[1]) /\ Dist(b, ls[m]) \in Nat /\ Dist(b, ls[1]) \in Nat /\ Dist(b, ls[k]) \in Nat
      BY <1>0, <1>3
    <3>2. l2[i] = ls[k]
      BY <2>1
    <3> HIDE DEF i
    <3> QED BY <1>2, <1>4, <3>1, <3>2, ConstantsAreInt, LongestIsLong DEF HadRoom
  <2>3. ASSUME NEW j \in i .. Len(l2) PROVE Cardinality(m2[j]) + (Len(l2) - j) <= u
    <3>1. j \in 1 .. Len(l2) /\ j + m - 1 \in k .. L
      BY <1>0, <1>1, <1>6
    <3> QED BY <3>1, <1>2, <1>5
  <2> HIDE DEF i
  <2> QED BY <2>1, <2>2, <2>3 DEF Spacious, l2, m2
<1>7. CASE ~(m <= k)
  <2>1. 1 \in 1 .. Len(l2)
    BY <1>0, <1>1
  <2>2. HadRoom(b, l2, 1)
    BY <1>4, <1>3, <1>0, ConstantsAreInt, LongestIsLong DEF HadRoom
  <2>3. ASSUME NEW j \in 1 .. Len(l2) PROVE Cardinality(m2[j]) + (Len(l2) - j) <= u
    <3>1. j + m - 1 \in k .. L
      BY <1>0, <1>1, <1>7
    <3> QED BY <3>1, <1>2, <1>5
  <2> QED BY <2>1, <2>2, <2>3 DEF Spacious, l2, m2
<1> QED BY <1>6, <1>7

\* Taking d slots from every mask.
LEMMA FewerAreSpacious ==
  ASSUME NEW b, NEW ls \in Seq(Addr), NEW mk \in Seq(SUBSET Slot), Len(mk) = Len(ls),
         NEW u \in Int, Spacious(b, ls, mk, u), NEW m2 \in Seq(SUBSET Slot), Len(m2) = Len(ls), NEW d \in Nat,
         \A k \in 1 .. Len(ls) : Cardinality(m2[k]) + d <= Cardinality(mk[k])
  PROVE  Spacious(b, ls, m2, u - d)
<1> SUFFICES ASSUME ls # <<>>
             PROVE  \E k \in 1 .. Len(ls) :
                       /\ HadRoom(b, ls, k)
                       /\ \A j \in k .. Len(ls) : Cardinality(m2[j]) + (Len(ls) - j) <= u - d
  BY DEF Spacious
<1>1. PICK k \in 1 .. Len(ls) : /\ HadRoom(b, ls, k)
                                /\ \A j \in k .. Len(ls) : Cardinality(mk[j]) + (Len(ls) - j) <= u
  BY DEF Spacious
<1>2. ASSUME NEW j \in k .. Len(ls) PROVE Cardinality(m2[j]) + (Len(ls) - j) <= u - d
  <2>1. j \in 1 .. Len(ls) /\ Len(ls) - j \in Nat
    OBVIOUS
  <2>2. Cardinality(mk[j]) \in Nat /\ Cardinality(m2[j]) \in Nat
    BY <2>1, MaskIsFinite
  <2>3. Cardinality(mk[j]) + (Len(ls) - j) <= u /\ Cardinality(m2[j]) + d <= Cardinality(mk[j])
    BY <1>1, <2>1
  <2> QED BY <2>1, <2>2, <2>3
<1> QED BY <1>1, <1>2

\* If one user less is left and every report has a reader, there is room for a report.
LEMMA SpaciousIsRoomy ==
  ASSUME NEW b, NEW ls \in Seq(Addr), NEW sz \in Seq(Sizes), Len(sz) = Len(ls), Laid(b, ls, sz),
         NEW mk \in Seq(SUBSET Slot), Len(mk) = Len(ls), Spacious(b, ls, mk, MaxUser - 1),
         \A k \in 1 .. Len(ls) : mk[k] # {}
  PROVE  Roomy(b, ls)
<1> SUFFICES ASSUME ls # <<>> PROVE Roomy(b, ls)
  BY DEF Roomy
<1> DEFINE L == Len(ls)
<1>1. PICK k \in 1 .. L : /\ HadRoom(b, ls, k)
                          /\ \A j \in k .. L : Cardinality(mk[j]) + (L - j) <= MaxUser - 1
  BY DEF Spacious
<1>2. L \in Nat /\ 1 \in 1 .. L /\ k \in k .. L /\ b \in Addr /\ ls[1] \in Addr /\ ls[k] \in Addr
  BY DEF Laid
<1> DEFINE c == L - k + 1
<1>3. c \in Nat /\ c <= MaxUser - 1
  <2>1. mk[k] # {} /\ mk[k] \subseteq Slot
    BY <1>1
  <2>2. Cardinality(mk[k]) >= 1 /\ Cardinality(mk[k]) \in Nat
    BY <2>1, MaskIsFinite
  <2>3. Cardinality(mk[k]) + (L - k) <= MaxUser - 1
    BY <1>1, <1>2
  <2> QED BY <2>2, <2>3, <1>2, ConstantsAreInt
<1>4. Dist(b, ls[k]) <= Span(c) + Waste(b, ls[k])
  BY <1>1 DEF Laid
<1>5. Span(c) \in Nat /\ Span(c) + 2 * Longest <= Threshold
  BY <1>3, SpanIsNat, SpanLeaves
<1>6. Dist(b, ls[k]) <= Dist(b, ls[1]) /\ Dist(b, ls[1]) < RingSize /\ Dist(b, ls[k]) \in Nat /\ Dist(b, ls[1]) \in Nat
      /\ (ls[k] = ls[1] => Dist(b, ls[k]) = Dist(b, ls[1]))
  <2>1. 1 <= k
    OBVIOUS
  <2> QED BY <1>2, <2>1, LaidFacts
<1> DEFINE x == ls[k]  f == ls[1]  s == Span(c)
<1>7. x \in Addr /\ f \in Addr /\ s \in Nat /\ s + 2 * Longest <= Threshold
      /\ Dist(b, x) <= s + Waste(b, x) /\ Dist(b, x) <= Dist(b, f) /\ Dist(b, f) < RingSize
      /\ RingSize - Dist(b, f) + Dist(b, x) + (IF x = 0 THEN Longest - 1 ELSE 0) >= Threshold
  BY <1>1, <1>2, <1>4, <1>5, <1>6 DEF HadRoom
<1> HIDE DEF x, f, s
<1>8. /\ f < b => RingSize - Dist(b, f) >= 2 * Longest
      /\ b < f => RingSize - Dist(b, f) > Longest
  BY <1>2, <1>7, ConstantsAreInt, LongestIsLong DEF Dist, Waste, Addr
<1> QED BY <1>8 DEF Roomy, f

\* Nor is a report in the way if the idle area is not below the threshold.
LEMMA UncrowdedIsRoomy ==
  ASSUME NEW b, NEW ls \in Seq(Addr), NEW sz \in Seq(Sizes), Len(sz) = Len(ls), Laid(b, ls, sz),
         IdleSize(b, EndOf(ls)) >= Threshold
  PROVE  /\ Roomy(b, ls)
         /\ ls # <<>> => RingSize - Dist(b, ls[1]) >= Threshold
<1> SUFFICES ASSUME ls # <<>> PROVE Roomy(b, ls) /\ RingSize - Dist(b, ls[1]) >= Threshold
  BY DEF Roomy
<1> DEFINE f == ls[1]
<1>1. b \in Addr /\ f \in Addr /\ Dist(b, f) < RingSize
  BY DEF Laid
<1>2. IdleSize(b, ByteBefore(f)) >= Threshold
  BY DEF EndOf
<1> HIDE DEF f
<1>3. RingSize - Dist(b, f) >= Threshold
  BY <1>1, <1>2, ConstantsAreInt DEF IdleSize, ByteBefore, Dist, Addr
<1>4. Dist(b, f) \in Nat /\ Longest \in Nat /\ 2 * Longest <= Threshold /\ 2 <= Longest
  BY <1>1, DistIsInt, LongestIsLong
<1>5. RingSize - Dist(b, f) >= 2 * Longest /\ RingSize - Dist(b, f) > Longest
  BY <1>3, <1>4, ConstantsAreInt
<1> QED BY <1>3, <1>5 DEF Roomy, f

\* A report that costs a subscriber.
LEMMA MoreIsSpacious ==
  ASSUME NEW b, NEW ls \in Seq(Addr), NEW sz \in Seq(Sizes), Len(sz) = Len(ls), Laid(b, ls, sz),
         ls # <<>>, NEW mk \in Seq(SUBSET Slot), Len(mk) = Len(ls), Spacious(b, ls, mk, MaxUser - 1),
         NEW c \in Addr, NEW d \in Nat, \A k \in 1 .. Len(ls) : Dist(c, ls[k]) = Dist(b, ls[k]) + d,
         NEW at \in Addr, NEW new \in SUBSET Slot
  PROVE  Spacious(c, Append(ls, at), Append(mk, new), MaxUser)
<1> DEFINE L == Len(ls)
           l2 == Append(ls, at)
           m2 == Append(mk, new)
<1>1. PICK k \in 1 .. L : /\ HadRoom(b, ls, k)
                          /\ \A j \in k .. L : Cardinality(mk[j]) + (L - j) <= MaxUser - 1
  BY DEF Spacious
<1>2. /\ Len(l2) = L + 1 /\ L \in Nat /\ \A j \in 1 .. L : l2[j] = ls[j] /\ m2[j] = mk[j]
      /\ m2[L + 1] = new
  <2>1. Len(l2) = L + 1 /\ L \in Nat /\ \A j \in 1 .. L : l2[j] = ls[j]
    BY AppendFacts
  <2>2. Len(mk) = L /\ (\A j \in 1 .. Len(mk) : m2[j] = mk[j]) /\ m2[Len(mk) + 1] = new
    BY AppendFacts
  <2> QED BY <2>1, <2>2
<1> HIDE DEF l2, m2
<1>3. 1 \in 1 .. L /\ k \in 1 .. L + 1
  BY <1>2
<1>4. HadRoom(c, l2, k)
  <2>1. l2[1] = ls[1] /\ l2[k] = ls[k]
    BY <1>1, <1>2, <1>3
  <2>2. Dist(c, ls[1]) = Dist(b, ls[1]) + d /\ Dist(c, ls[k]) = Dist(b, ls[k]) + d
        /\ Dist(b, ls[1]) \in Nat /\ Dist(b, ls[k]) \in Nat
    BY <1>1, <1>3, LaidFacts
  <2> DEFINE p == Dist(b, ls[1])  r == Dist(b, ls[k])
             v == IF ls[k] = 0 THEN Longest - 1 ELSE 0
  <2>3. v \in Int
    BY LongestIsLong
  <2>4. RingSize - p + r + v >= Threshold
    BY <1>1 DEF HadRoom
  <2>5. Dist(c, ls[1]) = p + d /\ Dist(c, ls[k]) = r + d /\ p \in Nat /\ r \in Nat
    BY <2>2
  <2> HIDE DEF p, r, v
  <2>6. RingSize - (p + d) + (r + d) + v >= Threshold
    BY <2>3, <2>4, <2>5, ConstantsAreInt
  <2> QED BY <2>1, <2>5, <2>6 DEF HadRoom, v
<1>5. ASSUME NEW j \in k .. L + 1 PROVE Cardinality(m2[j]) + (L + 1 - j) <= MaxUser
  <2>1. CASE j = L + 1
    <3>1. Cardinality(new) \in Nat /\ Cardinality(new) <= MaxUser
      BY MaskIsFinite
    <3> QED BY <2>1, <3>1, <1>2
  <2>2. CASE j # L + 1
    <3>1. j \in k .. L /\ j \in 1 .. L
      <4>1. k \in 1 .. L /\ L \in Nat /\ j \in k .. L + 1
        BY <1>1, <1>2
      <4> HIDE DEF L
      <4> QED BY <4>1, <2>2
    <3>2. Cardinality(mk[j]) + (L - j) <= MaxUser - 1 /\ m2[j] = mk[j]
      BY <3>1, <1>1, <1>2
    <3>3. Cardinality(mk[j]) \in Nat
      BY <3>1, MaskIsFinite
    <3> QED BY <3>1, <3>2, <3>3, <1>2, ConstantsAreInt
  <2> QED BY <2>1, <2>2
<1>6. \E i \in 1 .. Len(l2) : /\ HadRoom(c, l2, i)
                              /\ \A j \in i .. Len(l2) : Cardinality(m2[j]) + (Len(l2) - j) <= MaxUser
  <2>1. k \in 1 .. Len(l2)
    BY <1>2, <1>3
  <2>2. \A j \in k .. Len(l2) : Cardinality(m2[j]) + (Len(l2) - j) <= MaxUser
    BY <1>2, <1>5
  <2> QED BY <2>1, <2>2, <1>4
<1> QED BY <1>6 DEF Spacious, l2, m2

\* How far the idle area's begin moves for the report itself.
LEMMA MovedFor ==
  ASSUME NEW b \in Addr, NEW n \in Sizes
  PROVE  LET at == Placed(b, n)
             c  == Behind(at, n)
         IN  Moved(b, n) <= Dist(c, at) + (IF at = 0 THEN Longest - 1 ELSE 0)
<1>1. n \in Nat /\ 1 <= n /\ n <= Longest /\ Longest \in Nat /\ 2 <= Longest /\ 2 * Longest < RingSize
  BY LongestIsLong, ConstantsAreInt
<1>2. RingSize \in Nat
  BY ConstantsAreInt
<1> QED BY <1>1, <1>2 DEF Dist, Placed, Behind, Moved, Addr

\* A report that costs nobody.
LEMMA FreshIsSpacious ==
  ASSUME NEW b, NEW ls \in Seq(Addr), NEW sz \in Seq(Sizes), Len(sz) = Len(ls), Laid(b, ls, sz),
         ls # <<>> => RingSize - Dist(b, ls[1]) >= Threshold,
         NEW mk \in Seq(SUBSET Slot), Len(mk) = Len(ls),
         NEW n \in Sizes, NEW at, at = Placed(b, n), NEW c, c = Behind(at, n), at \in Addr, c \in Addr,
         \A k \in 1 .. Len(ls) : Dist(c, ls[k]) = Dist(b, ls[k]) + Moved(b, n),
         NEW new \in SUBSET Slot
  PROVE  Spacious(c, Append(ls, at), Append(mk, new), MaxUser)
<1> DEFINE L == Len(ls)
           l2 == Append(ls, at)
           m2 == Append(mk, new)
<1>2. /\ Len(l2) = L + 1 /\ L \in Nat /\ \A j \in 1 .. L : l2[j] = ls[j]
      /\ l2[L + 1] = at /\ m2[L + 1] = new
  <2>1. Len(l2) = L + 1 /\ L \in Nat /\ l2[L + 1] = at /\ \A j \in 1 .. L : l2[j] = ls[j]
    BY AppendFacts
  <2>2. Len(mk) = L /\ m2[Len(mk) + 1] = new
    BY AppendFacts
  <2> QED BY <2>1, <2>2
<1> HIDE DEF l2, m2
<1> DEFINE v == IF at = 0 THEN Longest - 1 ELSE 0
<1>3. b \in Addr /\ v \in Nat /\ Dist(c, at) \in Nat
  BY LongestIsLong, DistIsInt DEF Laid
<1>4. Moved(b, n) <= Dist(c, at) + v
  BY <1>3, MovedFor
<1>5. HadRoom(c, l2, L + 1)
  <2>1. CASE ls = <<>>
    <3>1. L + 1 = 1
      BY <2>1
    <3>2. l2[1] = at /\ l2[L + 1] = at
      BY <3>1, <1>2
    <3> QED BY <3>2, <1>3, ConstantsAreInt DEF HadRoom
  <2>2. CASE ls # <<>>
    <3>1. 1 \in 1 .. L /\ l2[1] = ls[1] /\ l2[L + 1] = at
      BY <2>2, <1>2
    <3>2. Dist(c, ls[1]) = Dist(b, ls[1]) + Moved(b, n) /\ Dist(b, ls[1]) \in Nat
      BY <3>1, LaidFacts
    <3>3. Moved(b, n) \in Int
      BY <1>3, ConstantsAreInt DEF Moved, Addr
    <3> DEFINE p == Dist(b, ls[1])  mv == Moved(b, n)  r == Dist(c, at)
    <3>4. Dist(c, ls[1]) = p + mv /\ p \in Nat /\ mv \in Int /\ mv <= r + v /\ r \in Nat /\ RingSize - p >= Threshold
      BY <3>2, <3>3, <1>4, <1>3, <2>2
    <3> HIDE DEF p, mv, r, v
    <3>5. RingSize - (p + mv) + r + v >= Threshold
      BY <3>4, <1>3, ConstantsAreInt
    <3> QED BY <3>1, <3>4, <3>5 DEF HadRoom, r, v
  <2> QED BY <2>1, <2>2
<1>6. ASSUME NEW j \in L + 1 .. L + 1 PROVE Cardinality(m2[j]) + (L + 1 - j) <= MaxUser
  <2>1. j = L + 1
    BY <1>2
  <2>2. Cardinality(new) \in Nat /\ Cardinality(new) <= MaxUser
    BY MaskIsFinite
  <2> QED BY <2>1, <2>2, <1>2
<1>7. L + 1 \in 1 .. Len(l2)
  BY <1>2
<1> QED BY <1>2, <1>5, <1>6, <1>7 DEF Spacious, l2, m2

-----------------------------------------------------------------------------
(* Taking slots out of the masks, and the read reports off the list.       *)

\* The list from its m-th node on is linked, too.
LEMMA RestIsChain ==
  ASSUME NEW mem, NEW ls, NEW sz, NEW mk, Chain(mem, ls, sz, mk), NEW m \in 1 .. Len(ls) + 1
  PROVE  Chain(mem, Rest(ls, m), Rest(sz, m), Rest(mk, m))
<1> DEFINE L  == Len(ls)
           l2 == Rest(ls, m)
           s2 == Rest(sz, m)
           m2 == Rest(mk, m)
<1>0. /\ ls \in Seq(Addr) /\ sz \in Seq(Sizes) /\ mk \in Seq(SUBSET Slot)
      /\ Len(sz) = L /\ Len(mk) = L /\ L \in Nat /\ m \in 1 .. L + 1
  BY DEF Chain
<1>1. l2 \in Seq(Addr) /\ Len(l2) = L - m + 1 /\ \A k \in 1 .. L - m + 1 : l2[k] = ls[k + m - 1]
  BY <1>0, RestFacts
<1>2. s2 \in Seq(Sizes) /\ Len(s2) = L - m + 1 /\ \A k \in 1 .. L - m + 1 : s2[k] = sz[k + m - 1]
  BY <1>0, RestFacts
<1>3. m2 \in Seq(SUBSET Slot) /\ Len(m2) = L - m + 1 /\ \A k \in 1 .. L - m + 1 : m2[k] = mk[k + m - 1]
  BY <1>0, RestFacts
<1> HIDE DEF l2, s2, m2
<1>4. ASSUME NEW k \in 1 .. Len(l2)
      PROVE  /\ l2[k] \in DOMAIN mem
             /\ mem[l2[k]] = [size |-> s2[k], next |-> At(l2, k + 1), mask |-> m2[k]]
  <2> DEFINE i == k + m - 1
  <2>1. i \in 1 .. L /\ k \in 1 .. L - m + 1
    BY <1>0, <1>1
  <2>2. l2[k] = ls[i] /\ s2[k] = sz[i] /\ m2[k] = mk[i]
    BY <2>1, <1>1, <1>2, <1>3, Zenon
  <2>3. At(l2, k + 1) = At(ls, i + 1)
    <3>1. CASE k + 1 <= L - m + 1
      <4>1. k + 1 \in 1 .. L - m + 1 /\ (k + 1) + m - 1 = i + 1 /\ i + 1 <= L
        BY <3>1, <2>1, <1>0
      <4>2. l2[k + 1] = ls[(k + 1) + m - 1]
        BY <4>1, <1>1, Zenon
      <4> QED BY <4>1, <4>2, <1>1, <3>1 DEF At
    <3>2. CASE ~(k + 1 <= L - m + 1)
      <4>1. ~(i + 1 <= L)
        BY <3>2, <2>1, <1>0
      <4> QED BY <4>1, <3>2, <1>1 DEF At
    <3> QED BY <3>1, <3>2
  <2>4. ls[i] \in DOMAIN mem /\ mem[ls[i]] = [size |-> sz[i], next |-> At(ls, i + 1), mask |-> mk[i]]
    BY <2>1 DEF Chain
  <2> HIDE DEF i
  <2> QED BY <2>2, <2>3, <2>4
<1> QED BY <1>1, <1>2, <1>3, <1>4 DEF Chain, l2, s2, m2

\* The empty list is linked.
LEMMA EmptyIsChain ==
  ASSUME NEW mem PROVE Chain(mem, <<>>, <<>>, <<>>)
  BY DEF Chain

\* Giving up slots from the h-th node on.
Fewer(mk, h, gone) == [k \in 1 .. Len(mk) |-> IF k >= h THEN mk[k] \ gone ELSE mk[k]]

\* The masks from the h-th node on without the slots in gone.
LEMMA FewerFacts ==
  ASSUME NEW mk \in Seq(SUBSET Slot), NEW h, NEW gone
  PROVE  /\ Fewer(mk, h, gone) \in Seq(SUBSET Slot) /\ Len(Fewer(mk, h, gone)) = Len(mk)
         /\ \A k \in 1 .. Len(mk) : Fewer(mk, h, gone)[k] = IF k >= h THEN mk[k] \ gone ELSE mk[k]
<1>1. Len(mk) \in Nat /\ \A k \in 1 .. Len(mk) : mk[k] \in SUBSET Slot
  OBVIOUS
<1>2. \A k \in 1 .. Len(mk) : Fewer(mk, h, gone)[k] \in SUBSET Slot
  BY <1>1 DEF Fewer
<1> QED BY <1>1, <1>2, IsASeq DEF Fewer

\* The node x without the slots in gone.
Without(x, gone) == [x EXCEPT !.mask = @ \ gone]

\* A node without those slots.
LEMMA MaskIsTaken ==
  ASSUME NEW s, NEW p, NEW m, NEW gone
  PROVE  Without([size |-> s, next |-> p, mask |-> m], gone) = [size |-> s, next |-> p, mask |-> m \ gone]
  BY DEF Without

\* No node is twice on the list.
Distinct(ls) == Len(ls) <= RingSize /\ \A j, k \in 1 .. Len(ls) : ls[j] = ls[k] => j = k

\* The oldest node kept is the first from the h-th on whose mask is not emptied.
KeepsFrom(m2, h, m, len) == (\A k \in h .. m - 1 : m2[k] = {}) /\ (m <= len => m2[m] # {})

\* The list without the nodes before the m-th.
Dropped(r, mem, ls, m) ==
    IF m <= Len(ls)
    THEN [r EXCEPT !.mem = mem, !.first = ls[m], !.end = ByteBefore(ls[m]),
                   !.size = IdleSize(r.begin, ByteBefore(ls[m]))]
    ELSE Emptied([r EXCEPT !.mem = mem])

\* d is r with the masks m2, and without the nodes from the h-th on before the first with a reader.
ReleasedAs(r, d, ls, sz, m2, h) ==
    /\ IsMem(d.mem) /\ Chain(d.mem, ls, sz, m2)
    /\ \E m \in h .. Len(ls) + 1 : KeepsFrom(m2, h, m, Len(ls)) /\ d = Dropped(r, d.mem, ls, m)

\* Giving up nodes takes the slots out of the masks, and the nodes before the first that somebody
\* has still to read off the list.
LEMMA ReleasedIs ==
  ASSUME NEW r, IsRing(r), NEW ls, NEW sz, NEW mk, Chain(r.mem, ls, sz, mk),
         Distinct(ls), NEW h \in 1 .. Len(ls) + 1, NEW gone
  PROVE  ReleasedAs(r, Released(r, At(ls, h), gone), ls, sz, Fewer(mk, h, gone), h)
<1> DEFINE a    == At(ls, h)
           L    == Len(ls)
           m2   == Fewer(mk, h, gone)
           on   == OnPath(r.mem, a)
           mem  == [x \in DOMAIN r.mem |->
                      IF x \in on THEN [r.mem[x] EXCEPT !.mask = @ \ gone] ELSE r.mem[x]]
           path == Path(r.mem, a)
           kept == {n \in DOMAIN path : mem[path[n]].mask # {}}
           n0   == CHOOSE n \in kept : \A i \in kept : n <= i
           d    == Released(r, a, gone)
<1>0. /\ ls \in Seq(Addr) /\ sz \in Seq(Sizes) /\ mk \in Seq(SUBSET Slot)
      /\ Len(sz) = L /\ Len(mk) = L /\ L \in Nat /\ h \in 1 .. L + 1 /\ IsMem(r.mem)
  BY DEF Chain, IsRing
<1>1. d = IF kept = {} THEN Emptied([r EXCEPT !.mem = mem])
          ELSE [r EXCEPT !.mem = mem, !.first = path[n0], !.end = ByteBefore(path[n0]),
                         !.size = IdleSize(r.begin, ByteBefore(path[n0]))]
  BY DEF Released
<1>2. path = Rest(ls, h) /\ on = {ls[k] : k \in h .. L}
  BY <1>0, ListIsPath DEF Distinct
<1>3. Len(path) = L - h + 1 /\ path \in Seq(Addr) /\ \A k \in 1 .. L - h + 1 : path[k] = ls[k + h - 1]
  BY <1>0, <1>2, RestFacts
<1>4. /\ m2 \in Seq(SUBSET Slot) /\ Len(m2) = L
      /\ \A k \in 1 .. L : m2[k] = IF k >= h THEN mk[k] \ gone ELSE mk[k]
  <2>1. /\ m2 \in Seq(SUBSET Slot) /\ Len(m2) = Len(mk)
        /\ \A k \in 1 .. Len(mk) : m2[k] = IF k >= h THEN mk[k] \ gone ELSE mk[k]
    BY <1>0, FewerFacts, Zenon
  <2> HIDE DEF m2
  <2> QED BY <2>1, <1>0
<1>5. ASSUME NEW k \in 1 .. L PROVE ls[k] \in on <=> k >= h
  <2>1. ASSUME ls[k] \in on PROVE k >= h
    <3>1. PICK j \in h .. L : ls[k] = ls[j]
      BY <1>2, <2>1
    <3>2. j \in 1 .. L
      BY <1>0
    <3> QED BY <3>1, <3>2, <1>0 DEF Distinct
  <2>2. ASSUME k >= h PROVE ls[k] \in on
    <3>1. k \in h .. L
      BY <2>2, <1>0
    <3> QED BY <3>1, <1>2
  <2> QED BY <2>1, <2>2
<1> HIDE DEF on, path, d, m2
<1>6. IsMem(mem)
  <2>1. ASSUME NEW x \in DOMAIN r.mem PROVE mem[x] \in Node
    BY <1>0 DEF IsMem, Node
  <2>2. DOMAIN mem = DOMAIN r.mem
    OBVIOUS
  <2> HIDE DEF mem
  <2>3. mem = [x \in DOMAIN r.mem |-> mem[x]]
    BY DEF mem
  <2> QED BY <2>1, <2>2, <2>3, <1>0 DEF IsMem
<1>7. ASSUME NEW k \in 1 .. L
      PROVE  /\ ls[k] \in DOMAIN mem
             /\ mem[ls[k]] = [size |-> sz[k], next |-> At(ls, k + 1), mask |-> m2[k]]
  <2>1. ls[k] \in DOMAIN r.mem /\ r.mem[ls[k]] = [size |-> sz[k], next |-> At(ls, k + 1), mask |-> mk[k]]
    BY DEF Chain
  <2>2. CASE k >= h
    <3>1. mem[ls[k]] = [r.mem[ls[k]] EXCEPT !.mask = @ \ gone]
      BY <2>1, <2>2, <1>5
    <3>2. mem[ls[k]] = [size |-> sz[k], next |-> At(ls, k + 1), mask |-> mk[k] \ gone]
      <4> DEFINE x == r.mem[ls[k]]
      <4>1. x = [size |-> sz[k], next |-> At(ls, k + 1), mask |-> mk[k]]
        BY <2>1
      <4>2. mem[ls[k]] = [x EXCEPT !.mask = @ \ gone]
        BY <3>1
      <4> HIDE DEF x, mem
      <4>3. [x EXCEPT !.mask = @ \ gone] = [size |-> sz[k], next |-> At(ls, k + 1), mask |-> mk[k] \ gone]
        <5>1. Without([size |-> sz[k], next |-> At(ls, k + 1), mask |-> mk[k]], gone)
              = [size |-> sz[k], next |-> At(ls, k + 1), mask |-> mk[k] \ gone]
          BY MaskIsTaken
        <5>2. Without(x, gone) = [size |-> sz[k], next |-> At(ls, k + 1), mask |-> mk[k] \ gone]
          BY <5>1, <4>1, Zenon
        <5> QED BY <5>2, Zenon DEF Without
      <4> QED BY <4>2, <4>3
    <3> QED BY <3>2, <2>1, <2>2, <1>4
  <2>3. CASE ~(k >= h)
    BY <2>1, <2>3, <1>4, <1>5
  <2> QED BY <2>2, <2>3
<1> HIDE DEF mem
<1>8. Chain(mem, ls, sz, m2)
  BY <1>0, <1>4, <1>7 DEF Chain
<1>9. DOMAIN path = 1 .. L - h + 1
  BY <1>3
<1>10. ASSUME NEW n \in 1 .. L - h + 1 PROVE n \in kept <=> m2[n + h - 1] # {}
  <2>1. n + h - 1 \in 1 .. L /\ path[n] = ls[n + h - 1]
    BY <1>3, <1>0
  <2>2. mem[ls[n + h - 1]].mask = m2[n + h - 1]
    <3> DEFINE i == n + h - 1
    <3>1. i \in 1 .. L
      BY <2>1
    <3> HIDE DEF i
    <3>2. mem[ls[i]] = [size |-> sz[i], next |-> At(ls, i + 1), mask |-> m2[i]]
      BY <3>1, <1>7
    <3>3. mem[ls[i]].mask = m2[i]
      BY <3>2
    <3> QED BY <3>3 DEF i
  <2> QED BY <2>1, <2>2, <1>9
<1>11. CASE kept = {}
  <2>1. ASSUME NEW k \in h .. L PROVE m2[k] = {}
    <3>1. k - h + 1 \in 1 .. L - h + 1 /\ (k - h + 1) + h - 1 = k
      BY <1>0
    <3> QED BY <3>1, <1>10, <1>11
  <2>2. d = Emptied([r EXCEPT !.mem = mem])
    BY <1>1, <1>11
  <2>3. d.mem = mem
    BY <2>2 DEF Emptied, IsRing
  <2>4. L + 1 \in h .. L + 1 /\ L + 1 - 1 = L /\ ~(L + 1 <= L)
    BY <1>0
  <2>5. d = Dropped(r, d.mem, ls, L + 1)
    BY <2>2, <2>3, <2>4 DEF Dropped
  <2>6. KeepsFrom(m2, h, L + 1, L)
    BY <2>1, <2>4 DEF KeepsFrom
  <2>7. IsMem(d.mem) /\ Chain(d.mem, ls, sz, m2)
    BY <2>3, <1>6, <1>8
  <2>8. ReleasedAs(r, d, ls, sz, m2, h)
    BY <2>4, <2>5, <2>6, <2>7, Zenon DEF ReleasedAs
  <2> QED BY <2>8 DEF d, m2
<1>12. CASE kept # {}
  <2>1. \E n \in kept : \A i \in kept : n <= i
    <3>1. kept \subseteq Nat
      BY <1>9, <1>0
    <3>2. \E n \in kept : \A i \in kept : ~(i < n)
      BY <3>1, <1>12, SmallestOf
    <3> HIDE DEF kept
    <3> QED BY <3>1, <3>2
  <2>2. n0 \in kept /\ \A i \in kept : n0 <= i
    BY <2>1, Zenon
  <2> HIDE DEF n0
  <2>3. n0 \in 1 .. L - h + 1
    BY <2>2, <1>9
  <2> DEFINE m == n0 + h - 1
  <2>4. m \in h .. L /\ path[n0] = ls[m] /\ m2[m] # {}
    <3>1. m \in h .. L
      BY <2>3, <1>0
    <3>2. path[n0] = ls[n0 + h - 1]
      BY <2>3, <1>3
    <3>3. m2[n0 + h - 1] # {}
      BY <2>2, <2>3, <1>10
    <3> QED BY <3>1, <3>2, <3>3
  <2>5. ASSUME NEW k \in h .. m - 1 PROVE m2[k] = {}
    <3>1. k - h + 1 \in 1 .. L - h + 1 /\ (k - h + 1) + h - 1 = k /\ ~(n0 <= k - h + 1)
      BY <1>0, <2>3
    <3>2. k - h + 1 \notin kept
      BY <3>1, <2>2
    <3> QED BY <3>1, <3>2, <1>10
  <2> HIDE DEF m, kept
  <2>6. d = [r EXCEPT !.mem = mem, !.first = ls[m], !.end = ByteBefore(ls[m]),
                      !.size = IdleSize(r.begin, ByteBefore(ls[m]))]
    BY <1>1, <1>12, <2>4
  <2>7. d.mem = mem
    BY <2>6 DEF IsRing
  <2>8. d = Dropped(r, d.mem, ls, m) /\ m \in h .. L + 1
    <3>1. m <= L /\ m \in h .. L + 1
      BY <2>4, <1>0
    <3> QED BY <3>1, <2>6, <2>7 DEF Dropped
  <2>9. KeepsFrom(m2, h, m, L)
    BY <2>4, <2>5 DEF KeepsFrom
  <2>10. IsMem(d.mem) /\ Chain(d.mem, ls, sz, m2)
    BY <2>7, <1>6, <1>8
  <2>11. ReleasedAs(r, d, ls, sz, m2, h)
    BY <2>8, <2>9, <2>10, Zenon DEF ReleasedAs
  <2> QED BY <2>11 DEF d, m2
<1> QED BY <1>11, <1>12

-----------------------------------------------------------------------------
(* The ring holds a list.                                                  *)

\* The manage header fits the nodes at ls, of these sizes and masks.
Holds(r, ls, sz, mk) ==
    /\ IsRing(r)
    /\ Chain(r.mem, ls, sz, mk)
    /\ r.first = At(ls, 1)
    /\ Laid(r.begin, ls, sz)
    /\ r.end = EndOf(ls)
    /\ r.size = IdleSize(r.begin, r.end)

\* Nothing is left behind the last element.
LEMMA RestIsEmpty ==
  ASSUME NEW S, NEW s \in Seq(S), NEW m, m = Len(s) + 1
  PROVE  Rest(s, m) = <<>>
<1>1. m \in 1 .. Len(s) + 1 /\ Len(s) - m + 1 = 0
  OBVIOUS
<1>2. Rest(s, m) \in Seq(S) /\ Len(Rest(s, m)) = 0
  BY <1>1, RestFacts
<1> QED BY <1>2, EmptySeq

\* The ring without its oldest nodes is a ring.
LEMMA DroppedHolds ==
  ASSUME NEW r, IsRing(r), NEW ls, NEW sz, NEW mk, NEW mem, IsMem(mem), Chain(mem, ls, sz, mk),
         Laid(r.begin, ls, sz), NEW m \in 1 .. Len(ls) + 1
  PROVE  LET d == Dropped(r, mem, ls, m)
         IN  /\ Holds(d, Rest(ls, m), Rest(sz, m), Rest(mk, m))
             /\ d.slot = r.slot /\ d.num = r.num /\ d.first = At(ls, m) /\ d.mem = mem
             /\ m <= Len(ls) => d.begin = r.begin
<1> DEFINE d  == Dropped(r, mem, ls, m)
           L  == Len(ls)
           l2 == Rest(ls, m)
           s2 == Rest(sz, m)
           m2 == Rest(mk, m)
<1>0. /\ ls \in Seq(Addr) /\ sz \in Seq(Sizes) /\ mk \in Seq(SUBSET Slot)
      /\ Len(sz) = L /\ Len(mk) = L /\ L \in Nat /\ m \in 1 .. L + 1
  BY DEF Chain
<1>1. l2 \in Seq(Addr) /\ Len(l2) = L - m + 1 /\ \A k \in 1 .. L - m + 1 : l2[k] = ls[k + m - 1]
  BY <1>0, RestFacts
<1>2. Chain(mem, l2, s2, m2)
  BY RestIsChain
<1>3. CASE m <= L
  <2>1. d = [r EXCEPT !.mem = mem, !.first = ls[m], !.end = ByteBefore(ls[m]),
                      !.size = IdleSize(r.begin, ByteBefore(ls[m]))]
    BY <1>3 DEF Dropped
  <2>2. d = [mem |-> mem, first |-> ls[m], begin |-> r.begin, end |-> ByteBefore(ls[m]),
             size |-> IdleSize(r.begin, ByteBefore(ls[m])), slot |-> r.slot, num |-> r.num]
    BY <2>1 DEF IsRing
  <2>3. Laid(r.begin, l2, s2)
    <3>1. m \in 1 .. Len(ls)
      BY <1>0, <1>3
    <3> QED BY <1>0, <3>1, RestIsLaid
  <2> HIDE DEF d
  <2>4. At(l2, 1) = ls[m] /\ EndOf(l2) = ByteBefore(ls[m]) /\ At(ls, m) = ls[m] /\ ls[m] \in Addr
    <3>1. 1 \in 1 .. L - m + 1 /\ 1 + m - 1 = m /\ m \in 1 .. L
      BY <1>0, <1>3
    <3>2. l2[1] = ls[1 + m - 1]
      BY <3>1, <1>1, Zenon
    <3>3. l2[1] = ls[m] /\ 1 <= Len(l2) /\ l2 # <<>>
      BY <3>1, <3>2, <1>1, <1>0
    <3>4. ls[m] \in Addr
      BY <3>1, <1>0
    <3> HIDE DEF l2
    <3> QED BY <3>3, <3>4, <1>3 DEF At, EndOf
  <2>5. ls[m] \in Pointer /\ ByteBefore(ls[m]) \in Addr
    BY <2>4, ConstantsAreInt DEF Pointer, ByteBefore, Addr
  <2>6. IsRing(d)
    BY <2>2, <2>5 DEF IsRing
  <2>7. /\ d.mem = mem /\ d.first = ls[m] /\ d.begin = r.begin /\ d.end = ByteBefore(ls[m])
        /\ d.size = IdleSize(r.begin, ByteBefore(ls[m])) /\ d.slot = r.slot /\ d.num = r.num
    BY <2>2
  <2> QED BY <2>3, <2>4, <2>6, <2>7, <1>2 DEF Holds, d
<1>4. CASE ~(m <= L)
  <2>0. m = L + 1
    BY <1>0, <1>4
  <2>1. d = Emptied([r EXCEPT !.mem = mem])
    BY <1>4 DEF Dropped
  <2>2. d = [mem |-> mem, first |-> Null, begin |-> 0, end |-> RingSize - 1,
             size |-> RingSize, slot |-> r.slot, num |-> r.num]
    BY <2>1 DEF IsRing, Emptied
  <2> HIDE DEF d
  <2>3. l2 = <<>> /\ s2 = <<>> /\ m2 = <<>>
    <3>1. l2 = <<>>
      BY <2>0, <1>0, RestIsEmpty
    <3>2. s2 = <<>>
      <4>1. m = Len(sz) + 1
        BY <2>0, <1>0
      <4> QED BY <4>1, <1>0, RestIsEmpty
    <3>3. m2 = <<>>
      <4>1. m = Len(mk) + 1
        BY <2>0, <1>0
      <4> QED BY <4>1, <1>0, RestIsEmpty
    <3> QED BY <3>1, <3>2, <3>3
  <2>4. At(l2, 1) = Null /\ EndOf(l2) = RingSize - 1 /\ At(ls, m) = Null /\ Laid(0, l2, s2)
    <3>1. Len(<<>>) = 0 /\ 0 \in Addr
      BY ConstantsAreInt DEF Addr
    <3>2. At(<<>>, 1) = Null /\ EndOf(<<>>) = RingSize - 1 /\ Laid(0, <<>>, <<>>)
      BY <3>1 DEF At, EndOf, Laid
    <3>3. At(ls, m) = Null
      BY <1>4 DEF At
    <3> QED BY <3>2, <3>3, <2>3
  <2>5. Null \in Pointer /\ 0 \in Addr /\ RingSize - 1 \in Addr /\ RingSize = IdleSize(0, RingSize - 1)
    BY ConstantsAreInt DEF Pointer, Addr, IdleSize
  <2>6. IsRing(d)
    BY <2>2, <2>5 DEF IsRing
  <2>7. /\ d.mem = mem /\ d.first = Null /\ d.begin = 0 /\ d.end = RingSize - 1
        /\ d.size = RingSize /\ d.slot = r.slot /\ d.num = r.num
    BY <2>2
  <2> HIDE DEF l2, s2, m2
  <2>8. Holds(d, l2, s2, m2)
    BY <2>4, <2>5, <2>6, <2>7, <1>2 DEF Holds
  <2> QED BY <2>4, <2>7, <2>8, <1>4 DEF d, l2, s2, m2
<1> QED BY <1>3, <1>4

\* No two nodes lie at the same address.
LEMMA LaidIsDistinct ==
  ASSUME NEW b, NEW ls \in Seq(Addr), NEW sz \in Seq(Sizes), Len(sz) = Len(ls), Laid(b, ls, sz)
  PROVE  Distinct(ls)
<1>1. Len(ls) < RingSize /\ Len(ls) \in Nat /\ \A j, k \in 1 .. Len(ls) : ls[j] = ls[k] => j = k
  BY LaidFacts
<1>2. Len(ls) <= RingSize
  BY <1>1, ConstantsAreInt
<1> QED BY <1>1, <1>2 DEF Distinct

\* The bytes of a node on the list are not idle.
LEMMA NodeIsNotIdle ==
  ASSUME NEW b \in Addr, NEW f \in Addr, NEW x \in Addr, NEW s \in Nat, x + s <= RingSize,
         s <= Dist(b, x), Dist(b, x) <= Dist(b, f), Dist(b, f) < RingSize, NEW r, r.begin = b, r.end = ByteBefore(f)
  PROVE  Bytes(x, s) \cap IdleBytes(r) = {}
<1>1. RingSize \in Nat /\ b \in Int /\ 0 <= b /\ b < RingSize /\ f \in Int /\ 0 <= f /\ f < RingSize
      /\ x \in Int /\ 0 <= x /\ x < RingSize
  BY ConstantsAreInt DEF Addr
<1>2. SUFFICES ASSUME NEW y \in Bytes(x, s), y \in IdleBytes(r) PROVE FALSE
  OBVIOUS
<1>3. y \in Int /\ x <= y /\ y <= x + s - 1
  BY <1>1 DEF Bytes
<1> DEFINE e == ByteBefore(f)
<1>4. IF b <= e THEN b <= y /\ y <= e ELSE b <= y \/ y <= e
  BY <1>1, <1>2, <1>3 DEF IdleBytes, ByteBefore
<1>5. CASE f = 0
  BY <1>1, <1>3, <1>4, <1>5 DEF ByteBefore, Dist
<1>6. CASE f # 0
  BY <1>1, <1>3, <1>4, <1>6 DEF ByteBefore, Dist
<1> QED BY <1>5, <1>6

\* From any node of the list on, none is idle.
LEMMA ListIsOffIdle ==
  ASSUME NEW ls, NEW sz, NEW mk, NEW r, IsMem(r.mem), Chain(r.mem, ls, sz, mk), Laid(r.begin, ls, sz),
         r.end = EndOf(ls), NEW p \in 1 .. Len(ls) + 1, NEW x \in OnPath(r.mem, At(ls, p))
  PROVE  Bytes(x, r.mem[x].size) \cap IdleBytes(r) = {}
<1>1. /\ ls \in Seq(Addr) /\ sz \in Seq(Sizes) /\ Len(sz) = Len(ls) /\ Len(ls) \in Nat
  BY DEF Chain
<1>2. Len(ls) <= RingSize
  BY <1>1, LaidIsDistinct DEF Distinct
<1>3. PICK k \in p .. Len(ls) : x = ls[k]
  <2>1. OnPath(r.mem, At(ls, p)) = {ls[k] : k \in p .. Len(ls)}
    BY <1>1, <1>2, ListIsPath
  <2> QED BY <2>1
<1>4. k \in 1 .. Len(ls) /\ 1 \in 1 .. Len(ls) /\ 1 <= k
  BY <1>1
<1>5. r.mem[x].size = sz[k] /\ x \in Addr /\ sz[k] \in Nat
  <2>1. r.mem[ls[k]] = [size |-> sz[k], next |-> At(ls, k + 1), mask |-> mk[k]]
    BY <1>4 DEF Chain
  <2>2. ls[k] \in Addr /\ sz[k] \in Nat
    BY <1>1, <1>4, LaidFacts
  <2>3. r.mem[ls[k]].size = sz[k]
    BY <2>1
  <2> QED BY <1>3, <2>2, <2>3
<1>6. /\ x + sz[k] <= RingSize /\ sz[k] <= Dist(r.begin, x) /\ r.begin \in Addr
      /\ Dist(r.begin, x) <= Dist(r.begin, ls[1]) /\ Dist(r.begin, ls[1]) < RingSize /\ ls[1] \in Addr
  BY <1>1, <1>3, <1>4, LaidFacts DEF Laid
<1>7. r.end = ByteBefore(ls[1])
  BY <1>1, <1>4 DEF EndOf
<1>8. Bytes(x, sz[k]) \cap IdleBytes(r) = {}
  BY <1>5, <1>6, <1>7, NodeIsNotIdle
<1> QED BY <1>5, <1>8

-----------------------------------------------------------------------------
(* One more report.                                                        *)

\* The new node is in the memory with the list, which is still whole.
WrittenBeside(mem, at, ls, sz, mk, n, num) ==
    /\ IsMem(mem) /\ Chain(mem, ls, sz, mk)
    /\ at \in DOMAIN mem /\ mem[at] = [size |-> n, next |-> Null, mask |-> 1 .. num]
    /\ \A k \in 1 .. Len(ls) : ls[k] # at

\* A report that does not fit before the edge goes to the start: nothing else changes.
LEMMA WrappedIs ==
  ASSUME NEW r, IsRing(r), NEW n
  PROVE  LET w == Wrapped(r, n)
         IN  /\ w = [mem |-> r.mem, first |-> r.first, begin |-> Placed(r.begin, n), end |-> r.end,
                     size |-> w.size, slot |-> r.slot, num |-> r.num]
             /\ w.mem = r.mem /\ w.first = r.first /\ w.begin = Placed(r.begin, n) /\ w.end = r.end
             /\ w.slot = r.slot /\ w.num = r.num
<1>1. CASE n > RingSize - r.begin
  <2>1. Wrapped(r, n) = [r EXCEPT !.begin = 0, !.size = 1 + r.end] /\ Placed(r.begin, n) = 0
    BY <1>1 DEF Wrapped, Placed
  <2> QED BY <2>1 DEF IsRing
<1>2. CASE ~(n > RingSize - r.begin)
  <2>1. Wrapped(r, n) = r /\ Placed(r.begin, n) = r.begin
    BY <1>2 DEF Wrapped, Placed
  <2> QED BY <2>1 DEF IsRing
<1> QED BY <1>1, <1>2

\* A report is written where no node of the list lies.
LEMMA WrittenIsBeside ==
  ASSUME NEW r, NEW ls, NEW sz, NEW mk, Holds(r, ls, sz, mk), Roomy(r.begin, ls), NEW n \in Sizes
  PROVE  WrittenBeside(Written(Wrapped(r, n), n), Placed(r.begin, n), ls, sz, mk, n, r.num)
<1> DEFINE w     == Wrapped(r, n)
           at    == Placed(r.begin, n)
           whole == {x \in DOMAIN r.mem : Bytes(x, r.mem[x].size) \cap Bytes(at, n) = {}}
           new   == [size |-> n, next |-> Null, mask |-> 1 .. r.num]
           mem   == [x \in whole \cup {at} |-> IF x = at THEN new ELSE r.mem[x]]
<1>0. /\ ls \in Seq(Addr) /\ sz \in Seq(Sizes) /\ Len(sz) = Len(ls) /\ Len(ls) \in Nat /\ IsRing(r)
      /\ Laid(r.begin, ls, sz) /\ IsMem(r.mem) /\ Chain(r.mem, ls, sz, mk)
  BY DEF Holds, Chain, IsRing
<1>1. Written(w, n) = mem
  <2>1. w.begin = at /\ w.mem = r.mem /\ w.num = r.num
    BY <1>0, WrappedIs
  <2> HIDE DEF w, at
  <2> QED BY <2>1 DEF Written
<1>2. at \in Addr /\ \A k \in 1 .. Len(ls) : at + n <= ls[k] \/ ls[k] + sz[k] <= at
  BY <1>0, MoreIsLaid
<1>3. new \in Node
  <2>1. 1 .. r.num \in SUBSET Slot
    BY <1>0, ConstantsAreInt DEF IsRing, Slot
  <2> QED BY <2>1 DEF Node, Pointer
<1> HIDE DEF at, new, w
<1>4. IsMem(mem)
  <2>1. \A x \in whole \cup {at} : mem[x] \in Node
    BY <1>0, <1>3 DEF IsMem
  <2>2. whole \cup {at} \subseteq Addr
    BY <1>0, <1>2 DEF IsMem
  <2>3. DOMAIN mem = whole \cup {at}
    OBVIOUS
  <2>4. mem = [x \in DOMAIN mem |-> mem[x]]
    OBVIOUS
  <2> HIDE DEF mem
  <2> QED BY <2>1, <2>2, <2>3, <2>4 DEF IsMem
<1>5. ASSUME NEW k \in 1 .. Len(ls) PROVE ls[k] # at /\ ls[k] \in DOMAIN mem /\ mem[ls[k]] = r.mem[ls[k]]
  <2>1. /\ ls[k] \in Addr /\ ls[k] \in Int /\ at \in Int /\ n \in Nat /\ 1 <= n /\ sz[k] \in Nat /\ 1 <= sz[k]
        /\ at + n <= ls[k] \/ ls[k] + sz[k] <= at
    <3>1. ls[k] \in Addr /\ sz[k] \in Nat /\ 1 <= sz[k]
      BY <1>0, LaidFacts
    <3>2. n \in Nat /\ 1 <= n
      BY LongestIsLong
    <3> QED BY <3>1, <3>2, <1>2 DEF Addr
  <2>2. ls[k] # at
    BY <2>1
  <2>3. ls[k] \in DOMAIN r.mem /\ r.mem[ls[k]].size = sz[k]
    <3>1. ls[k] \in DOMAIN r.mem /\ r.mem[ls[k]] = [size |-> sz[k], next |-> At(ls, k + 1), mask |-> mk[k]]
      BY <1>0 DEF Chain
    <3> QED BY <3>1
  <2>4. Bytes(ls[k], sz[k]) \cap Bytes(at, n) = {}
    BY <2>1 DEF Bytes
  <2>5. ls[k] \in whole
    BY <2>3, <2>4
  <2> QED BY <2>2, <2>5
<1>6. at \in DOMAIN mem /\ mem[at] = new
  OBVIOUS
<1> HIDE DEF mem
<1>7. Chain(mem, ls, sz, mk)
  BY <1>0, <1>5 DEF Chain
<1> QED BY <1>1, <1>4, <1>5, <1>6, <1>7 DEF WrittenBeside, at, new, w

\* The last node points to the new one.
LinkTo(x, at) == [x EXCEPT !.next = at]

\* A node that is linked to at.
LEMMA NextIsSet ==
  ASSUME NEW s, NEW p, NEW m, NEW at
  PROVE  LinkTo([size |-> s, next |-> p, mask |-> m], at) = [size |-> s, next |-> at, mask |-> m]
  BY DEF LinkTo

\* The last node of the list is linked to at.
Linking(mem, ls, at) == IF ls = <<>> THEN mem ELSE [mem EXCEPT ![ls[Len(ls)]].next = at]

\* The new node is the list's last.
LEMMA LinkedIsChain ==
  ASSUME NEW mem, NEW at \in Addr, NEW ls, NEW sz, NEW mk, NEW n \in Sizes, NEW num,
         1 .. num \in SUBSET Slot, WrittenBeside(mem, at, ls, sz, mk, n, num), Distinct(ls)
  PROVE  /\ IsMem(Linking(mem, ls, at))
         /\ Chain(Linking(mem, ls, at), Append(ls, at), Append(sz, n), Append(mk, 1 .. num))
<1> DEFINE L   == Len(ls)
           l2  == Append(ls, at)
           s2  == Append(sz, n)
           m2  == Append(mk, 1 .. num)
           out == Linking(mem, ls, at)
           last == ls[Len(ls)]
<1>0. /\ ls \in Seq(Addr) /\ sz \in Seq(Sizes) /\ mk \in Seq(SUBSET Slot) /\ L \in Nat
      /\ Len(sz) = L /\ Len(mk) = L /\ IsMem(mem) /\ at \in DOMAIN mem
      /\ mem[at] = [size |-> n, next |-> Null, mask |-> 1 .. num]
      /\ \A k \in 1 .. L : ls[k] # at
  BY DEF WrittenBeside, Chain
<1>1. ASSUME NEW k \in 1 .. L
      PROVE  ls[k] \in DOMAIN mem /\ mem[ls[k]] = [size |-> sz[k], next |-> At(ls, k + 1), mask |-> mk[k]]
  BY DEF WrittenBeside, Chain
<1>2. l2 \in Seq(Addr) /\ Len(l2) = L + 1 /\ l2[L + 1] = at /\ \A k \in 1 .. L : l2[k] = ls[k]
  BY <1>0, AppendFacts
<1>3. s2 \in Seq(Sizes) /\ Len(s2) = L + 1 /\ s2[L + 1] = n /\ \A k \in 1 .. L : s2[k] = sz[k]
  <2>1. s2 \in Seq(Sizes) /\ Len(s2) = Len(sz) + 1 /\ s2[Len(sz) + 1] = n /\ \A k \in 1 .. Len(sz) : s2[k] = sz[k]
    BY <1>0, AppendFacts
  <2> QED BY <2>1, <1>0
<1>4. m2 \in Seq(SUBSET Slot) /\ Len(m2) = L + 1 /\ m2[L + 1] = 1 .. num /\ \A k \in 1 .. L : m2[k] = mk[k]
  <2> DEFINE new == 1 .. num
  <2>0. new \in SUBSET Slot
    OBVIOUS
  <2> HIDE DEF new
  <2>1. /\ Append(mk, new) \in Seq(SUBSET Slot) /\ Len(Append(mk, new)) = Len(mk) + 1
        /\ Append(mk, new)[Len(mk) + 1] = new /\ \A k \in 1 .. Len(mk) : Append(mk, new)[k] = mk[k]
    BY <2>0, <1>0, AppendFacts
  <2> QED BY <2>1, <1>0 DEF new
<1> HIDE DEF l2, s2, m2
<1>5. DOMAIN out = DOMAIN mem /\ out = [x \in DOMAIN mem |-> out[x]]
  BY <1>0 DEF Linking, IsMem
<1>6. ASSUME NEW x \in DOMAIN mem PROVE out[x] = IF ls # <<>> /\ x = last THEN LinkTo(mem[x], at) ELSE mem[x]
  BY <1>0, Zenon DEF Linking, IsMem, LinkTo
<1>7. ASSUME NEW x \in DOMAIN mem PROVE out[x] \in Node
  <2>1. mem[x] \in Node /\ at \in Pointer
    BY <1>0 DEF IsMem, Pointer
  <2>2. LinkTo(mem[x], at) \in Node
    BY <2>1 DEF LinkTo, Node
  <2> QED BY <2>1, <2>2, <1>6
<1> HIDE DEF out, last
<1>8. IsMem(out)
  BY <1>0, <1>5, <1>7 DEF IsMem
<1>9. ASSUME NEW k \in 1 .. L + 1
      PROVE  l2[k] \in DOMAIN out /\ out[l2[k]] = [size |-> s2[k], next |-> At(l2, k + 1), mask |-> m2[k]]
  <2>1. CASE k = L + 1
    <3>1. l2[k] = at /\ s2[k] = n /\ m2[k] = 1 .. num
      BY <2>1, <1>2, <1>3, <1>4
    <3>2. ~(ls # <<>> /\ at = last)
      BY <1>0 DEF last
    <3>3. out[at] = mem[at]
      BY <1>0, <1>6, <3>2
    <3>4. At(l2, k + 1) = Null
      BY <2>1, <1>2, <1>0 DEF At
    <3> QED BY <3>1, <3>3, <3>4, <1>0, <1>5
  <2>2. CASE k \in 1 .. L - 1
    <3>1. k \in 1 .. L /\ k + 1 \in 1 .. L
      BY <2>2, <1>0
    <3>2. l2[k] = ls[k] /\ s2[k] = sz[k] /\ m2[k] = mk[k] /\ l2[k + 1] = ls[k + 1]
      BY <3>1, <1>2, <1>3, <1>4
    <3>3. At(l2, k + 1) = At(ls, k + 1)
      BY <3>1, <3>2, <1>2, <1>0 DEF At
    <3>4. ls[k] # last
      <4>1. L \in 1 .. Len(ls) /\ k # L
        BY <2>2, <1>0
      <4> QED BY <4>1, <3>1 DEF Distinct, last
    <3>5. out[ls[k]] = mem[ls[k]]
      BY <3>1, <3>4, <1>1, <1>6
    <3> QED BY <3>1, <3>2, <3>3, <3>5, <1>1, <1>5
  <2>3. CASE k = L
    <3>1. k \in 1 .. L /\ ls # <<>> /\ ls[k] = last
      BY <2>3, <1>0 DEF last
    <3>2. l2[k] = ls[k] /\ s2[k] = sz[k] /\ m2[k] = mk[k]
      BY <3>1, <1>2, <1>3, <1>4
    <3>3. At(l2, k + 1) = at
      BY <2>3, <1>2, <1>0 DEF At
    <3>4. out[ls[k]] = LinkTo(mem[ls[k]], at)
      BY <3>1, <1>1, <1>6
    <3>5. LinkTo(mem[ls[k]], at) = [size |-> sz[k], next |-> at, mask |-> mk[k]]
      <4>1. mem[ls[k]] = [size |-> sz[k], next |-> At(ls, k + 1), mask |-> mk[k]]
        BY <3>1, <1>1
      <4>2. LinkTo([size |-> sz[k], next |-> At(ls, k + 1), mask |-> mk[k]], at) = [size |-> sz[k], next |-> at, mask |-> mk[k]]
        BY NextIsSet
      <4> QED BY <4>1, <4>2, Zenon
    <3> QED BY <3>1, <3>2, <3>3, <3>4, <3>5, <1>1, <1>5
  <2>4. k = L + 1 \/ k \in 1 .. L - 1 \/ k = L
    BY <1>0
  <2> QED BY <2>1, <2>2, <2>3, <2>4
<1>10. Chain(out, l2, s2, m2)
  BY <1>0, <1>2, <1>3, <1>4, <1>9 DEF Chain
<1> QED BY <1>8, <1>10 DEF out, l2, s2, m2

\* Who had nothing to read has the new report to read.
Handed(s, num, at) ==
    [i \in Slot |-> IF i <= num /\ s[i].msg = Null THEN [uid |-> s[i].uid, msg |-> at] ELSE s[i]]

\* d is r with one report more, of n bytes.
LinkedAs(r, d, ls, sz, mk, n) ==
    LET at == Placed(r.begin, n)
    IN  /\ Holds(d, Append(ls, at), Append(sz, n), Append(mk, 1 .. r.num))
        /\ d.slot = Handed(r.slot, r.num, at)
        /\ d.num = r.num
        /\ d.begin = Behind(at, n)

\* After the report is written the list can still be followed to its end.
LEMMA WrittenIsSound ==
  ASSUME NEW r, NEW ls, NEW sz, NEW mk, Holds(r, ls, sz, mk), Roomy(r.begin, ls), NEW n \in Sizes
  PROVE  LET w == Wrapped(r, n) IN Sound(Written(w, n), w.first) /\ Path(Written(w, n), w.first) = ls
<1> DEFINE w   == Wrapped(r, n)
           mem == Written(w, n)
<1>0. /\ ls \in Seq(Addr) /\ sz \in Seq(Sizes) /\ Len(sz) = Len(ls) /\ Len(ls) \in Nat /\ IsRing(r)
      /\ Laid(r.begin, ls, sz) /\ r.first = At(ls, 1)
  BY DEF Holds, Chain
<1>1. w.first = At(ls, 1)
  BY <1>0, WrappedIs
<1>2. WrittenBeside(mem, Placed(r.begin, n), ls, sz, mk, n, r.num)
  BY WrittenIsBeside
<1> HIDE DEF w, mem
<1>3. IsMem(mem) /\ Chain(mem, ls, sz, mk)
  BY <1>2 DEF WrittenBeside
<1>4. Len(ls) <= RingSize
  BY <1>0, LaidIsDistinct DEF Distinct
<1>5. 1 \in 1 .. Len(ls) + 1
  BY <1>0
<1>6. Sound(mem, At(ls, 1)) /\ Path(mem, At(ls, 1)) = Rest(ls, 1)
  BY <1>3, <1>4, <1>5, ListIsPath
<1>7. Rest(ls, 1) = ls
  <2>1. /\ Rest(ls, 1) \in Seq(Addr) /\ Len(Rest(ls, 1)) = Len(ls) - 1 + 1
        /\ \A k \in 1 .. Len(ls) - 1 + 1 : Rest(ls, 1)[k] = ls[k + 1 - 1]
    BY <1>0, <1>5, RestFacts
  <2>2. Len(ls) - 1 + 1 = Len(ls) /\ \A k \in 1 .. Len(ls) : k + 1 - 1 = k
    BY <1>0
  <2>3. Len(Rest(ls, 1)) = Len(ls) /\ \A k \in 1 .. Len(ls) : Rest(ls, 1)[k] = ls[k]
    BY <2>1, <2>2
  <2> QED BY <1>0, <2>1, <2>3, SeqsAreEqual
<1> QED BY <1>1, <1>6, <1>7 DEF w, mem

\* The ring with one report more is a ring.
LEMMA LinkedIs ==
  ASSUME NEW r, NEW ls, NEW sz, NEW mk, Holds(r, ls, sz, mk), Roomy(r.begin, ls), NEW n \in Sizes
  PROVE  LinkedAs(r, Linked(Wrapped(r, n), n), ls, sz, mk, n)
<1> DEFINE w    == Wrapped(r, n)
           at   == Placed(r.begin, n)
           c    == Behind(at, n)
           mem  == Written(w, n)
           l2   == Append(ls, at)
           s2   == Append(sz, n)
           m2   == Append(mk, 1 .. r.num)
           out  == Linking(mem, ls, at)
           slot == Handed(r.slot, r.num, at)
           d    == Linked(w, n)
<1>0. /\ ls \in Seq(Addr) /\ sz \in Seq(Sizes) /\ Len(sz) = Len(ls) /\ Len(ls) \in Nat /\ IsRing(r)
      /\ Laid(r.begin, ls, sz) /\ r.first = At(ls, 1) /\ r.end = EndOf(ls)
  BY DEF Holds, Chain
<1>1. /\ w = [mem |-> r.mem, first |-> r.first, begin |-> at, end |-> r.end,
              size |-> w.size, slot |-> r.slot, num |-> r.num]
      /\ w.first = r.first /\ w.begin = at /\ w.end = r.end /\ w.slot = r.slot /\ w.num = r.num
  BY <1>0, WrappedIs
<1>2. WrittenBeside(mem, at, ls, sz, mk, n, r.num)
  BY WrittenIsBeside
<1>3. Path(mem, w.first) = ls
  BY WrittenIsSound
<1>4. at \in Addr /\ c \in Addr /\ Laid(c, l2, s2)
  BY <1>0, MoreIsLaid
<1>5. r.first = Null <=> ls = <<>>
  <2>1. CASE ls = <<>>
    <3>1. Len(ls) = 0
      BY <2>1
    <3> QED BY <2>1, <3>1, <1>0 DEF At
  <2>2. CASE ls # <<>>
    <3>1. 1 \in 1 .. Len(ls)
      BY <2>2, <1>0
    <3>2. r.first \in Addr
      BY <3>1, <1>0 DEF At
    <3> QED BY <2>2, <3>2, ConstantsAreInt DEF Addr, Null
  <2> QED BY <2>1, <2>2
<1> HIDE DEF w, mem, c
<1>6. d = [w EXCEPT !.mem   = out,
                    !.first = IF @ = Null THEN at ELSE @,
                    !.slot  = [i \in Slot |-> IF i <= w.num /\ @[i].msg = Null
                                              THEN [@[i] EXCEPT !.msg = at] ELSE @[i]],
                    !.begin = c,
                    !.size  = IdleSize(c, w.end)]
  BY <1>1, <1>3, <1>5 DEF Linked, Linking, mem, c
<1>7. [i \in Slot |-> IF i <= r.num /\ r.slot[i].msg = Null THEN [r.slot[i] EXCEPT !.msg = at] ELSE r.slot[i]] = slot
  <2>1. ASSUME NEW i \in Slot PROVE [r.slot[i] EXCEPT !.msg = at] = [uid |-> r.slot[i].uid, msg |-> at]
    BY <1>0 DEF IsRing
  <2> QED BY <2>1 DEF Handed
<1> HIDE DEF slot, at, out
<1>8. d = [mem |-> out, first |-> IF r.first = Null THEN at ELSE r.first, begin |-> c, end |-> r.end,
           size |-> IdleSize(c, r.end), slot |-> slot, num |-> r.num]
  <2> DEFINE s == [i \in Slot |-> IF i <= w.num /\ w.slot[i].msg = Null
                                 THEN [w.slot[i] EXCEPT !.msg = at] ELSE w.slot[i]]
             f == IF w.first = Null THEN at ELSE w.first
             z == IdleSize(c, w.end)
  <2>1. s = slot
    BY <1>1, <1>7, Zenon
  <2>2. d = [w EXCEPT !.mem = out, !.first = f, !.slot = s, !.begin = c, !.size = z]
    BY <1>6, Zenon
  <2>3. f = (IF r.first = Null THEN at ELSE r.first) /\ z = IdleSize(c, r.end)
    BY <1>1
  <2> HIDE DEF d, f, s, z
  <2>4. d = [mem |-> out, first |-> f, begin |-> c, end |-> r.end, size |-> z, slot |-> s, num |-> r.num]
    BY <1>1, <2>2
  <2> QED BY <2>1, <2>3, <2>4
<1>9. IsMem(out) /\ Chain(out, l2, s2, m2)
  <2>1. 1 .. r.num \in SUBSET Slot
    BY <1>0, ConstantsAreInt DEF IsRing, Slot
  <2>2. Distinct(ls)
    BY <1>0, LaidIsDistinct
  <2> QED BY <2>1, <2>2, <1>2, <1>4, LinkedIsChain, Zenon DEF out
<1>10. Len(l2) = Len(ls) + 1 /\ l2[Len(ls) + 1] = at /\ \A k \in 1 .. Len(ls) : l2[k] = ls[k]
  BY <1>0, <1>4, AppendFacts
<1>11. (IF r.first = Null THEN at ELSE r.first) = At(l2, 1) /\ r.end = EndOf(l2)
  <2>1. CASE ls = <<>>
    <3>1. Len(ls) = 0 /\ l2[1] = at /\ Len(l2) = 1 /\ r.end = RingSize - 1
      BY <2>1, <1>10, <1>0 DEF EndOf
    <3>2. at = 0
      <4>1. r.begin = 0
        BY <2>1, <1>0 DEF Laid
      <4> QED BY <4>1, AdvanceEmpty DEF at
    <3>3. l2 # <<>>
      OBVIOUS
    <3>4. r.end = EndOf(l2)
      BY <3>1, <3>2, <3>3 DEF EndOf, ByteBefore
    <3> QED BY <3>1, <3>4, <2>1, <1>5 DEF At
  <2>2. CASE ls # <<>>
    <3>1. 1 \in 1 .. Len(ls)
      BY <2>2, <1>0
    <3>2. l2[1] = ls[1] /\ 1 <= Len(l2) /\ 1 <= Len(ls)
      BY <3>1, <1>10, <1>0
    <3>3. l2 # <<>>
      OBVIOUS
    <3> QED BY <3>2, <3>3, <2>2, <1>5, <1>0 DEF At, EndOf
  <2> QED BY <2>1, <2>2
<1>12. slot \in [Slot -> [uid : User \cup {NoUser}, msg : Pointer]]
  <2>1. ASSUME NEW i \in Slot PROVE slot[i] \in [uid : User \cup {NoUser}, msg : Pointer]
    BY <1>0, <1>4 DEF slot, Handed, IsRing, Pointer
  <2>2. slot = [i \in Slot |-> slot[i]]
    BY DEF slot, Handed
  <2> QED BY <2>1, <2>2
<1>13. IsRing(d)
  <2>1. (IF r.first = Null THEN at ELSE r.first) \in Pointer
    BY <1>4, <1>0 DEF IsRing, Pointer
  <2> HIDE DEF d
  <2>2. /\ d.mem = out /\ d.first = (IF r.first = Null THEN at ELSE r.first) /\ d.begin = c /\ d.end = r.end
        /\ d.slot = slot /\ d.num = r.num
        /\ d = [mem |-> d.mem, first |-> d.first, begin |-> d.begin, end |-> d.end,
                size |-> d.size, slot |-> d.slot, num |-> d.num]
    BY <1>8
  <2>3. r.end \in Addr /\ r.num \in 0 .. MaxUser
    BY <1>0 DEF IsRing
  <2> QED BY <2>1, <2>2, <2>3, <1>4, <1>9, <1>12, Zenon DEF IsRing
<1> HIDE DEF d, l2, s2, m2
<1>14. /\ d.mem = out /\ d.first = (IF r.first = Null THEN at ELSE r.first) /\ d.begin = c /\ d.end = r.end
       /\ d.slot = slot /\ d.num = r.num /\ d.size = IdleSize(c, r.end)
  BY <1>8
<1>15. Holds(d, l2, s2, m2)
  BY <1>4, <1>9, <1>11, <1>13, <1>14, Zenon DEF Holds
<1> QED BY <1>14, <1>15, Zenon DEF LinkedAs, d, l2, s2, m2, slot, at, c, w

-----------------------------------------------------------------------------
(* What the subscribers have still to read.                                *)

\* Slot i is at the p-th node, for some p from h on: it is to read from there what is due to
\* it, the rest of the list, and is in the masks from there on.
Reads(ls, mk, i, from, due, h) ==
    \E p \in h .. Len(ls) + 1 : /\ from = At(ls, p)
                                /\ due = Rest(ls, p)
                                /\ \A k \in 1 .. Len(ls) : i \in mk[k] <=> k >= p

\* What is left of what is left.
LEMMA RestOfRest ==
  ASSUME NEW S, NEW ls \in Seq(S), NEW m \in 1 .. Len(ls) + 1, NEW p \in m .. Len(ls) + 1
  PROVE  /\ p - m + 1 \in 1 .. Len(Rest(ls, m)) + 1
         /\ Rest(Rest(ls, m), p - m + 1) = Rest(ls, p)
         /\ At(Rest(ls, m), p - m + 1) = At(ls, p)
<1> DEFINE L == Len(ls)  l2 == Rest(ls, m)  j == p - m + 1
<1>0. L \in Nat /\ m \in 1 .. L + 1 /\ p \in m .. L + 1
  OBVIOUS
<1>1. l2 \in Seq(S) /\ Len(l2) = L - m + 1 /\ \A k \in 1 .. L - m + 1 : l2[k] = ls[k + m - 1]
  BY RestFacts
<1>2. j \in 1 .. Len(l2) + 1 /\ p \in 1 .. L + 1 /\ Len(l2) - j + 1 = L - p + 1
  BY <1>0, <1>1
<1> HIDE DEF l2
<1>3. Rest(l2, j) \in Seq(S) /\ Len(Rest(l2, j)) = L - p + 1 /\ \A k \in 1 .. L - p + 1 : Rest(l2, j)[k] = l2[k + j - 1]
  <2> HIDE DEF j
  <2>1. /\ Rest(l2, j) \in Seq(S) /\ Len(Rest(l2, j)) = Len(l2) - j + 1
        /\ \A k \in 1 .. Len(l2) - j + 1 : Rest(l2, j)[k] = l2[k + j - 1]
    BY <1>1, <1>2, RestFacts
  <2> QED BY <2>1, <1>2
<1>4. Rest(ls, p) \in Seq(S) /\ Len(Rest(ls, p)) = L - p + 1 /\ \A k \in 1 .. L - p + 1 : Rest(ls, p)[k] = ls[k + p - 1]
  BY <1>2, RestFacts
<1>5. ASSUME NEW k \in 1 .. L - p + 1 PROVE Rest(l2, j)[k] = Rest(ls, p)[k]
  <2> DEFINE i == k + j - 1
  <2>1. i \in 1 .. L - m + 1 /\ i + m - 1 = k + p - 1
    BY <1>0
  <2>2. l2[i] = ls[i + m - 1]
    BY <2>1, <1>1, Zenon
  <2> QED BY <2>1, <2>2, <1>3, <1>4
<1>6. Rest(l2, j) = Rest(ls, p)
  <2>1. Len(Rest(l2, j)) = Len(Rest(ls, p)) /\ \A k \in 1 .. Len(Rest(l2, j)) : Rest(l2, j)[k] = Rest(ls, p)[k]
    <3> HIDE DEF j
    <3> QED BY <1>3, <1>4, <1>5
  <2> HIDE DEF j
  <2> QED BY <2>1, <1>3, <1>4, SeqsAreEqual
<1>7. At(l2, j) = At(ls, p)
  <2>1. CASE p <= L
    <3>1. j \in 1 .. L - m + 1 /\ j + m - 1 = p
      BY <2>1, <1>0
    <3>2. l2[j] = ls[j + m - 1]
      BY <3>1, <1>1, Zenon
    <3> QED BY <3>1, <3>2, <2>1, <1>1 DEF At
  <2>2. CASE ~(p <= L)
    <3>1. ~(j <= L - m + 1)
      BY <2>2, <1>0
    <3> QED BY <3>1, <2>2, <1>1 DEF At
  <2> QED BY <2>1, <2>2
<1> QED BY <1>2, <1>6, <1>7 DEF l2

\* Who reads from the m-th node on at the earliest does not miss those before it.
LEMMA ReadsRest ==
  ASSUME NEW ls \in Seq(Addr), NEW mk \in Seq(SUBSET Slot), Len(mk) = Len(ls),
         NEW i, NEW from, NEW due, NEW m \in 1 .. Len(ls) + 1, Reads(ls, mk, i, from, due, m)
  PROVE  Reads(Rest(ls, m), Rest(mk, m), i, from, due, 1)
<1> DEFINE L == Len(ls)  l2 == Rest(ls, m)  m2 == Rest(mk, m)
<1>0. L \in Nat /\ m \in 1 .. L + 1
  OBVIOUS
<1>1. PICK p \in m .. L + 1 : /\ from = At(ls, p) /\ due = Rest(ls, p)
                              /\ \A k \in 1 .. L : i \in mk[k] <=> k >= p
  BY DEF Reads
<1>2. p - m + 1 \in 1 .. Len(l2) + 1 /\ Rest(l2, p - m + 1) = Rest(ls, p) /\ At(l2, p - m + 1) = At(ls, p)
  BY RestOfRest
<1>3. Len(l2) = L - m + 1
  BY RestFacts
<1>4. \A k \in 1 .. L - m + 1 : m2[k] = mk[k + m - 1]
  BY RestFacts
<1> HIDE DEF l2, m2
<1>5. ASSUME NEW k \in 1 .. Len(l2) PROVE i \in m2[k] <=> k >= p - m + 1
  <2>1. k \in 1 .. L - m + 1 /\ k + m - 1 \in 1 .. L /\ (k + m - 1 >= p <=> k >= p - m + 1)
    BY <1>0, <1>3
  <2>2. m2[k] = mk[k + m - 1]
    BY <2>1, <1>4
  <2> QED BY <2>1, <2>2, <1>1
<1>6. Reads(l2, m2, i, from, due, 1)
  BY <1>1, <1>2, <1>5 DEF Reads
<1> QED BY <1>6 DEF l2, m2

\* Every mask is of slots in use, and not empty.
Manned(mk, stay) == \A k \in 1 .. Len(mk) : mk[k] \subseteq stay /\ mk[k] # {}

\* The slots in stay are in what their users have still to read.
Serves(ls, mk, stay, from, due, h) == \A i \in stay : Reads(ls, mk, i, from[i], due[i], h)

\* Some slots leave the masks from the h-th node on, and the nodes before the m-th, which nobody
\* reads now, leave the list: whoever stays reads on.
LEMMA StayersReadOn ==
  ASSUME NEW ls \in Seq(Addr), NEW mk \in Seq(SUBSET Slot), Len(mk) = Len(ls),
         NEW h \in 1 .. Len(ls) + 1, NEW m \in h .. Len(ls) + 1, NEW gone, NEW stay, NEW from, NEW due,
         KeepsFrom(Fewer(mk, h, gone), h, m, Len(ls)),
         stay \cap gone = {}, \A k \in 1 .. Len(mk) : mk[k] \ gone \subseteq stay,
         Serves(ls, mk, stay, from, due, h)
  PROVE  /\ Serves(Rest(ls, m), Rest(Fewer(mk, h, gone), m), stay, from, due, 1)
         /\ Manned(Rest(Fewer(mk, h, gone), m), stay)
<1> DEFINE L == Len(ls)  f == Fewer(mk, h, gone)  m2 == Rest(f, m)
<1>0. L \in Nat /\ h \in 1 .. L + 1 /\ m \in h .. L + 1 /\ m \in 1 .. L + 1
  OBVIOUS
<1>1. f \in Seq(SUBSET Slot) /\ Len(f) = L /\ \A k \in 1 .. L : f[k] = IF k >= h THEN mk[k] \ gone ELSE mk[k]
  <2>1. /\ f \in Seq(SUBSET Slot) /\ Len(f) = Len(mk)
        /\ \A k \in 1 .. Len(mk) : f[k] = IF k >= h THEN mk[k] \ gone ELSE mk[k]
    BY FewerFacts, Zenon
  <2> HIDE DEF f
  <2> QED BY <2>1
<1> HIDE DEF f
<1>2. ASSUME NEW i \in stay PROVE Reads(ls, f, i, from[i], due[i], m)
  <2>1. PICK p \in h .. L + 1 : /\ from[i] = At(ls, p) /\ due[i] = Rest(ls, p)
                                /\ \A k \in 1 .. L : i \in mk[k] <=> k >= p
    BY DEF Serves, Reads
  <2>2. ASSUME NEW k \in 1 .. L PROVE i \in f[k] <=> i \in mk[k]
    BY <1>1
  <2>3. p >= m
    <3> SUFFICES ASSUME ~(p >= m) PROVE FALSE
      OBVIOUS
    <3>1. p \in h .. m - 1 /\ p \in 1 .. L
      BY <1>0
    <3>2. f[p] = {}
      BY <3>1 DEF KeepsFrom, f
    <3>3. p >= p
      BY <3>1
    <3> QED BY <3>1, <3>2, <3>3, <2>1, <2>2
  <2>4. p \in m .. L + 1
    BY <2>3, <1>0
  <2> QED BY <2>1, <2>2, <2>4 DEF Reads
<1>3. ASSUME NEW i \in stay PROVE Reads(Rest(ls, m), m2, i, from[i], due[i], 1)
  BY <1>0, <1>1, <1>2, ReadsRest
<1>4. Len(m2) = L - m + 1 /\ \A k \in 1 .. L - m + 1 : m2[k] = f[k + m - 1]
  <2>1. m \in 1 .. Len(f) + 1
    BY <1>0, <1>1
  <2>2. Len(m2) = Len(f) - m + 1 /\ \A k \in 1 .. Len(f) - m + 1 : m2[k] = f[k + m - 1]
    BY <2>1, <1>1, RestFacts
  <2> QED BY <2>2, <1>1
<1> HIDE DEF m2
<1>5. ASSUME NEW k \in 1 .. Len(m2) PROVE m2[k] \subseteq stay /\ m2[k] # {}
  <2> DEFINE i == k + m - 1
  <2>1. i \in 1 .. L /\ i >= m /\ i >= h /\ m \in 1 .. L /\ m <= L
    BY <1>0, <1>4
  <2>2. m2[k] = f[i]
    BY <1>4
  <2> HIDE DEF i
  <2>3. f[i] = mk[i] \ gone /\ f[m] = mk[m] \ gone
    <3>1. m >= h
      BY <1>0
    <3> QED BY <2>1, <3>1, <1>1, Zenon
  <2>4. m2[k] \subseteq stay
    BY <2>1, <2>2, <2>3
  <2>5. f[m] # {}
    BY <2>1 DEF KeepsFrom, f
  <2>6. PICK j \in mk[m] \ gone : TRUE
    BY <2>3, <2>5
  <2>7. j \in stay
    BY <2>6, <2>1
  <2>8. PICK p \in h .. L + 1 : \A x \in 1 .. L : j \in mk[x] <=> x >= p
    BY <2>7 DEF Serves, Reads
  <2>9. j \in mk[i]
    BY <2>1, <2>6, <2>8
  <2> QED BY <2>2, <2>3, <2>4, <2>6, <2>9
<1> QED BY <1>3, <1>5, Zenon DEF Serves, Manned, m2, f

\* A report is due to each: it is read after the rest of the list.
LEMMA ReadsMore ==
  ASSUME NEW ls \in Seq(Addr), NEW mk \in Seq(SUBSET Slot), Len(mk) = Len(ls),
         NEW i, NEW from, NEW due, Reads(ls, mk, i, from, due, 1),
         NEW at \in Addr, NEW new \in SUBSET Slot, i \in new
  PROVE  Reads(Append(ls, at), Append(mk, new), i, IF from = Null THEN at ELSE from, Append(due, at), 1)
<1> DEFINE L == Len(ls)  l2 == Append(ls, at)  m2 == Append(mk, new)
<1>0. L \in Nat
  OBVIOUS
<1>1. PICK p \in 1 .. L + 1 : /\ from = At(ls, p) /\ due = Rest(ls, p)
                              /\ \A k \in 1 .. L : i \in mk[k] <=> k >= p
  BY DEF Reads
<1>2. l2 \in Seq(Addr) /\ Len(l2) = L + 1 /\ l2[L + 1] = at /\ \A k \in 1 .. L : l2[k] = ls[k]
  BY AppendFacts
<1>3. m2[L + 1] = new /\ \A k \in 1 .. L : m2[k] = mk[k]
  <2>1. m2[Len(mk) + 1] = new /\ \A k \in 1 .. Len(mk) : m2[k] = mk[k]
    BY AppendFacts
  <2> QED BY <2>1
<1> HIDE DEF m2
<1>4. (IF from = Null THEN at ELSE from) = At(l2, p)
  <2> HIDE DEF l2
  <2>1. CASE p <= L
    <3>1. p \in 1 .. L /\ ls[p] \in Addr /\ p <= L + 1
      BY <2>1
    <3>2. from = ls[p] /\ from # Null
      BY <2>1, <3>1, <1>1, ConstantsAreInt DEF At, Addr, Null
    <3> QED BY <3>1, <3>2, <1>2 DEF At
  <2>2. CASE p = L + 1
    <3>1. from = Null
      BY <2>2, <1>0, <1>1 DEF At
    <3> QED BY <2>2, <3>1, <1>0, <1>2 DEF At
  <2> QED BY <2>1, <2>2, <1>0
<1>5. Append(due, at) = Rest(l2, p)
  <2>1. due \in Seq(Addr) /\ Len(due) = L - p + 1 /\ \A k \in 1 .. L - p + 1 : due[k] = ls[k + p - 1]
    BY <1>1, RestFacts
  <2>2. p \in 1 .. Len(l2) + 1
    BY <1>2, <1>0
  <2>3. /\ Rest(l2, p) \in Seq(Addr) /\ Len(Rest(l2, p)) = Len(l2) - p + 1
        /\ \A k \in 1 .. Len(l2) - p + 1 : Rest(l2, p)[k] = l2[k + p - 1]
    <3> HIDE DEF l2
    <3> QED BY <1>2, <2>2, RestFacts
  <2>4. /\ Append(due, at) \in Seq(Addr) /\ Len(Append(due, at)) = Len(due) + 1
        /\ Append(due, at)[Len(due) + 1] = at /\ \A k \in 1 .. Len(due) : Append(due, at)[k] = due[k]
    BY <2>1, AppendFacts
  <2> HIDE DEF l2
  <2> DEFINE a == Append(due, at)  b == Rest(l2, p)
  <2>5. Len(a) = L - p + 2 /\ Len(b) = L - p + 2
    BY <2>1, <2>3, <2>4, <1>2, <1>0
  <2>6. ASSUME NEW k \in 1 .. L - p + 2 PROVE a[k] = b[k]
    <3>1. b[k] = l2[k + p - 1]
      BY <2>3, <1>2, <1>0
    <3>2. CASE k = L - p + 2
      <4>1. k + p - 1 = L + 1 /\ k = Len(due) + 1
        BY <3>2, <2>1, <1>0
      <4> QED BY <4>1, <3>1, <2>4, <1>2
    <3>3. CASE k # L - p + 2
      <4>1. k \in 1 .. L - p + 1 /\ k + p - 1 \in 1 .. L
        BY <3>3, <1>0
      <4> QED BY <4>1, <3>1, <2>1, <2>4, <1>2
    <3> QED BY <3>2, <3>3
  <2>7. a \in Seq(Addr) /\ b \in Seq(Addr)
    BY <2>3, <2>4
  <2> HIDE DEF a, b
  <2>8. a = b
    BY <2>5, <2>6, <2>7, SeqsAreEqual
  <2> QED BY <2>8 DEF a, b
<1>6. ASSUME NEW k \in 1 .. Len(l2) PROVE i \in m2[k] <=> k >= p
  <2>1. CASE k = L + 1
    BY <2>1, <1>3, <1>0
  <2>2. CASE k # L + 1
    <3>1. k \in 1 .. L
      BY <2>2, <1>2, <1>0
    <3> QED BY <3>1, <1>1, <1>3
  <2> QED BY <2>1, <2>2
<1>7. p \in 1 .. Len(l2) + 1
  BY <1>2, <1>0
<1> HIDE DEF l2
<1>8. Reads(l2, m2, i, IF from = Null THEN at ELSE from, Append(due, at), 1)
  BY <1>4, <1>5, <1>6, <1>7, Zenon DEF Reads
<1> QED BY <1>8 DEF l2, m2

-----------------------------------------------------------------------------
(* The invariant, as long as no hazard has happened.                       *)

\* The call of a user that comes has taken a slot; that of one that goes may have vacated its.
InUse == IF changing.step = "taken" THEN 1 .. q.num + 1 ELSE 1 .. q.num
\* The slot that is vacated but still in masks.
Left  == IF changing.step = "vacated" THEN {changing.slot} ELSE {}

\* The last user's slot is vacated, and its reports are not given up yet.
Gone == changing.step = "vacated" /\ q.num = 0

\* Per slot the oldest report it has still to read, and what its user is owed.
Oldest == [i \in Slot |-> Unread(i)]
Due    == [i \in Slot |-> owed[q.slot[i].uid]]

\* A read that was preempted: its slot has still to leave the mask of the node, or has left it.
BeforeMask == {"found", "masked"}
AfterMask  == {"loaded", "stored", "freed"}
ReadRecord == [step : BeforeMask \cup AfterMask, slot : Slot, node : Addr, mask : SUBSET Slot, next : Pointer]

\* What the variables hold.
Types ==
    /\ IsRing(q) /\ q.size = IdleSize(q.begin, q.end)
    /\ reading \in ReadRecord \cup {NotReading}
    /\ changing \in [step : {"taken", "found", "vacated"}, slot : Slot, head : Pointer] \cup {NotChanging}
    /\ owed = [u \in User |-> owed[u]] /\ \A u \in User : owed[u] \in Seq(Addr)

\* A read is of the node its slot points to; the slot of one that has left the mask may be
\* another's by then, or nobody's.
Calls ==
    /\ reading = NotReading \/ changing = NotChanging
    /\ changing.step = "found" => changing.slot \in 1 .. q.num
    /\ changing.step \in {"taken", "vacated"} => changing.slot = q.num + 1
    /\ changing.step = "taken" => q.slot[changing.slot].msg = Null
    /\ reading.step \in BeforeMask => /\ reading.slot \in 1 .. q.num
                                     /\ reading.node = q.slot[reading.slot].msg

\* The slots in use are the first ones, with different users, and nobody else is owed anything.
Users ==
    /\ Occupied(q.slot) = InUse
    /\ \A i, j \in InUse : q.slot[i].uid = q.slot[j].uid => i = j
    /\ \A u \in User : owed[u] # <<>> => \E i \in 1 .. q.num : q.slot[i].uid = u

\* Only the node that is being read may have no reader left, and it is the oldest.
Masked(ls, mk) ==
    \A k \in 1 .. Len(mk) : /\ mk[k] \subseteq (1 .. q.num) \cup Left
                            /\ mk[k] = {} => k = 1 /\ reading.step \in AfterMask /\ reading.node = ls[1]

\* What a read has loaded is still so: the mask of its node, or, of the oldest, which it frees,
\* the next.
Halfway(ls, mk) ==
    /\ reading.step = "masked" => \E p \in 1 .. Len(ls) : reading.node = ls[p] /\ reading.mask = mk[p]
    /\ reading.step = "freed" =>
          ls # <<>> /\ mk[1] = {} /\ reading.node = ls[1] /\ reading.next = At(ls, 2)

\* The ring holds the list, and the users are in it (see the comment above).
Queued(ls, sz, mk) ==
    /\ Holds(q, ls, sz, mk)
    /\ q.num = 0 => ls = <<>>
    /\ Spacious(q.begin, ls, mk, MaxUser)
    /\ Masked(ls, mk)
    /\ Halfway(ls, mk)
    /\ Serves(ls, mk, 1 .. q.num, Oldest, Due, 1)
    /\ changing.step \in {"found", "vacated"} => \E h \in 1 .. Len(ls) + 1 : changing.head = At(ls, h)

\* The list itself is left open: after the last user has left it may be anything.
Sane == Types /\ Calls /\ Users /\ (Gone \/ \E ls, sz, mk : Queued(ls, sz, mk))

\* The ring when no call was preempted, and every node has a reader; o is what is owed.
Rests(r, o) ==
    /\ IsRing(r)
    /\ o = [u \in User |-> o[u]] /\ \A u \in User : o[u] \in Seq(Addr)
    /\ Occupied(r.slot) = 1 .. r.num
    /\ \A i, j \in 1 .. r.num : r.slot[i].uid = r.slot[j].uid => i = j
    /\ \A u \in User : o[u] # <<>> => \E i \in 1 .. r.num : r.slot[i].uid = u
    /\ \E ls, sz, mk : /\ Holds(r, ls, sz, mk)
                       /\ r.num = 0 => ls = <<>>
                       /\ Spacious(r.begin, ls, mk, MaxUser)
                       /\ Manned(mk, 1 .. r.num)
                       /\ Serves(ls, mk, 1 .. r.num, [i \in Slot |-> r.slot[i].msg],
                                 [i \in Slot |-> o[r.slot[i].uid]], 1)

\* The ring with another header.
Header(first, begin, end, size) ==
    [mem |-> q.mem, first |-> first, begin |-> begin, end |-> end, size |-> size, slot |-> q.slot, num |-> q.num]

\* The ring when the call that frees reports has stored what it has still to store.
Completed ==
    IF freeing.step = "first" THEN Header(Null, 0, RingSize - 1, RingSize)
    ELSE IF freeing.step = "begin" \/ (freeing.step = "test" /\ q.first = Null)
         THEN Header(q.first, 0, RingSize - 1, RingSize)
    ELSE IF freeing.step = "end" THEN Header(q.first, q.begin, RingSize - 1, RingSize)
    ELSE IF freeing.step = "size" THEN Header(q.first, q.begin, q.end, RingSize)
    ELSE IF freeing.step \in {"test", "advance"}
         THEN Header(q.first, q.begin, ByteBefore(q.first), IdleSize(q.begin, ByteBefore(q.first)))
    ELSE IF freeing.step = "measure" THEN Header(q.first, q.begin, q.end, IdleSize(q.begin, q.end))
    ELSE Header(q.first, q.begin, q.end, freeing.size)

\* No byte of a report that somebody has still to read is idle.
Shielded ==
    \A i \in Occupied(q.slot) : \A x \in OnPath(q.mem, q.slot[i].msg) :
        Bytes(x, q.mem[x].size) \cap IdleBytes(q) = {}

\* A call is about to store the header: the ring that this makes is one at rest, and a read that
\* loads the oldest report from the freed node finds it.
Freeing ==
    /\ reading = NotReading /\ changing = NotChanging
    /\ freeing.step \in {"test", "first", "begin", "end", "size", "advance", "measure", "room"}
    /\ freeing = [step |-> freeing.step, node |-> freeing.node, size |-> freeing.size]
    /\ q = Header(q.first, q.begin, q.end, q.size)
    /\ Rests(Completed, owed)
    /\ freeing.step \in {"test", "advance"} =>
          /\ Shielded
          /\ freeing.node # Null => freeing.node \in DOMAIN q.mem /\ q.mem[freeing.node].next = q.first
    /\ freeing.step \in {"begin", "end", "size"} => q.first = Null
    /\ freeing.step = "advance" => q.first # Null

\* Until a hazard happens.
IInv == spoilt = {} => ~crashed /\ IF freeing = NotFreeing THEN Sane ELSE Freeing

\* The list does not depend on the slots.
LEMMA SlotsAreSet ==
  ASSUME NEW r, NEW ls, NEW sz, NEW mk, Holds(r, ls, sz, mk),
         NEW s \in [Slot -> [uid : User \cup {NoUser}, msg : Pointer]], NEW n \in 0 .. MaxUser, NEW d,
         d = [mem |-> r.mem, first |-> r.first, begin |-> r.begin, end |-> r.end, size |-> r.size,
              slot |-> s, num |-> n]
  PROVE  Holds(d, ls, sz, mk)
<1>1. /\ d.mem = r.mem /\ d.first = r.first /\ d.begin = r.begin /\ d.end = r.end /\ d.size = r.size
      /\ d.slot = s /\ d.num = n
      /\ d = [mem |-> d.mem, first |-> d.first, begin |-> d.begin, end |-> d.end, size |-> d.size,
              slot |-> d.slot, num |-> d.num]
  OBVIOUS
<1>2. IsRing(d)
  BY <1>1, Zenon DEF IsRing, Holds
<1> QED BY <1>1, <1>2, Zenon DEF Holds

\* Nor on what the model forgets.
LEMMA CollectedHolds ==
  ASSUME NEW r, NEW ls, NEW sz, NEW mk, Holds(r, ls, sz, mk), NEW also, also \subseteq Pointer
  PROVE  LET c == Collected(r, also)
         IN  /\ Holds(c, ls, sz, mk)
             /\ c.slot = r.slot /\ c.num = r.num /\ c.begin = r.begin
<1> DEFINE c == Collected(r, also)
<1>1. /\ IsRing(r) /\ Chain(r.mem, ls, sz, mk) /\ r.first = At(ls, 1) /\ Laid(r.begin, ls, sz)
      /\ r.end = EndOf(ls) /\ r.size = IdleSize(r.begin, r.end)
  BY DEF Holds
<1>2. Len(ls) <= RingSize
  BY <1>1, LaidIsDistinct DEF Chain, Distinct
<1>3. c = [r EXCEPT !.mem = c.mem] /\ IsRing(c) /\ Chain(c.mem, ls, sz, mk)
  BY <1>1, <1>2, CollectedKeeps
<1> HIDE DEF c
<1>4. /\ c.first = r.first /\ c.begin = r.begin /\ c.end = r.end /\ c.size = r.size
      /\ c.slot = r.slot /\ c.num = r.num
  BY <1>1, <1>3 DEF IsRing
<1> QED BY <1>1, <1>3, <1>4 DEF Holds, c

\* What is in the variables.
Idling   == /\ reading.step = "none" /\ reading.slot = 0 /\ reading.node = Null
            /\ reading.step \notin BeforeMask /\ reading.step \notin AfterMask
ReadCall == /\ reading.step \in BeforeMask \cup AfterMask /\ reading.slot \in Slot /\ reading.node \in Addr
            /\ reading.mask \in SUBSET Slot /\ reading.next \in Pointer
Settled  == changing.step = "none" /\ changing.slot = 0 /\ changing.head = Null
UserCall == changing.step \in {"taken", "found", "vacated"} /\ changing.slot \in Slot /\ changing.head \in Pointer

\* The slots are numbered from one.
LEMMA SlotIsNotZero == 0 \notin Slot /\ Slot \subseteq Nat /\ Slot = 1 .. MaxUser
  BY ConstantsAreInt DEF Slot

\* What the variables hold, as the proofs of the actions use it.
LEMMA TypeFacts ==
  ASSUME Types
  PROVE  /\ IsRing(q) /\ q.size = IdleSize(q.begin, q.end)
         /\ q.num \in Nat /\ q.num <= MaxUser /\ 1 .. q.num \subseteq Slot
         /\ q.slot \in [Slot -> [uid : User \cup {NoUser}, msg : Pointer]]
         /\ reading = NotReading => Idling
         /\ reading # NotReading => ReadCall
         /\ changing = NotChanging => Settled
         /\ changing # NotChanging => UserCall
         /\ reading.node \in Pointer /\ changing.head \in Pointer
<1>1. IsRing(q) /\ q.size = IdleSize(q.begin, q.end) /\ q.num \in 0 .. MaxUser
      /\ q.slot \in [Slot -> [uid : User \cup {NoUser}, msg : Pointer]]
  BY DEF Types, IsRing
<1>2. q.num \in Nat /\ q.num <= MaxUser /\ 1 .. q.num \subseteq Slot
  BY <1>1, SlotIsNotZero, ConstantsAreInt
<1>3. reading = NotReading => Idling
  BY DEF NotReading, Idling, BeforeMask, AfterMask
<1>4. reading # NotReading => ReadCall
  BY DEF Types, ReadCall, ReadRecord
<1>5. changing = NotChanging => Settled
  BY DEF NotChanging, Settled
<1>6. changing # NotChanging => UserCall
  BY DEF Types, UserCall
<1>7. Null \in Pointer
  BY DEF Pointer
<1>8. reading.node \in Pointer /\ changing.head \in Pointer
  BY <1>3, <1>4, <1>5, <1>6, <1>7 DEF Idling, ReadCall, Settled, UserCall, Pointer
<1> QED BY <1>1, <1>2, <1>3, <1>4, <1>5, <1>6, <1>8

\* The driver starts with an empty ring and nobody to read.
LEMMA InitIsSane == Init => IInv
<1> SUFFICES ASSUME Init PROVE ~crashed /\ freeing = NotFreeing /\ Sane
  BY DEF IInv
<1> USE DEF Init
<1>0. Null \in Pointer /\ 0 \in Addr /\ RingSize - 1 \in Addr /\ RingSize = IdleSize(0, RingSize - 1) /\ 0 \in 0 .. MaxUser
  BY ConstantsAreInt DEF Pointer, Addr, IdleSize
<1>1. /\ q.mem = [x \in {} |-> Null] /\ q.first = Null /\ q.begin = 0 /\ q.end = RingSize - 1
      /\ q.size = RingSize /\ q.slot = NoSubscriber /\ q.num = 0
  OBVIOUS
<1>2. IsMem(q.mem)
  BY <1>1 DEF IsMem
<1>3. NoSubscriber \in [Slot -> [uid : User \cup {NoUser}, msg : Pointer]]
  BY <1>0 DEF NoSubscriber, Vacant
<1>4. IsRing(q)
  <2>1. q = [mem |-> q.mem, first |-> q.first, begin |-> q.begin, end |-> q.end,
             size |-> q.size, slot |-> q.slot, num |-> q.num]
    OBVIOUS
  <2> QED BY <1>0, <1>1, <1>2, <1>3, <2>1 DEF IsRing
<1>5. Idling /\ Settled /\ reading = NotReading /\ changing = NotChanging
  BY DEF Idling, Settled, NotReading, NotChanging, BeforeMask, AfterMask
<1>6. Types
  BY <1>0, <1>1, <1>4 DEF Types
<1>7. Calls
  BY <1>5 DEF Calls, Settled, Idling
<1>8. Users
  <2>1. InUse = {}
    BY <1>1, <1>5 DEF InUse, Settled
  <2>2. Occupied(q.slot) = {}
    BY <1>1 DEF Occupied, NoSubscriber, Vacant
  <2> QED BY <2>1, <2>2 DEF Users
<1>9. Queued(<<>>, <<>>, <<>>)
  <2>1. Len(<<>>) = 0
    OBVIOUS
  <2>2. At(<<>>, 1) = Null /\ EndOf(<<>>) = RingSize - 1 /\ Laid(0, <<>>, <<>>)
    BY <2>1, <1>0 DEF At, EndOf, Laid
  <2>3. Holds(q, <<>>, <<>>, <<>>)
    BY <1>0, <1>1, <1>4, <2>2, EmptyIsChain DEF Holds
  <2>4. Spacious(q.begin, <<>>, <<>>, MaxUser)
    BY DEF Spacious
  <2>5. Masked(<<>>, <<>>)
    BY <2>1 DEF Masked
  <2>6. Serves(<<>>, <<>>, 1 .. q.num, Oldest, Due, 1)
    BY <1>1 DEF Serves
  <2>7. ~(changing.step \in {"found", "vacated"}) /\ Halfway(<<>>, <<>>)
    BY <1>5 DEF Settled, Halfway, Idling
  <2> QED BY <2>3, <2>4, <2>5, <2>6, <2>7 DEF Queued
<1> QED BY <1>6, <1>7, <1>8, <1>9, Zenon DEF Sane

-----------------------------------------------------------------------------
(* A user comes.                                                           *)

\* A slot is taken.
LEMMA SubscribeIsSane ==
  ASSUME Sane, ~crashed, NEW u \in User, Subscribe(u)
  PROVE  ~crashed' /\ Sane'
<1> DEFINE free == Slot \ Occupied(q.slot)
           i    == CHOOSE k \in free : \A j \in free : k <= j
           new  == [uid |-> u, msg |-> Null]
           slot == [q.slot EXCEPT ![i] = new]
<1>0. Types /\ Calls /\ Users
  BY DEF Sane
<1>1. reading = NotReading /\ changing = NotChanging /\ q.num < MaxUser /\ u \notin Subscribers(q)
  BY DEF Subscribe, SystemCall
<1>2. Idling /\ Settled
  BY <1>0, <1>1, TypeFacts
<1>3. InUse = 1 .. q.num /\ Left = {} /\ ~Gone
  BY <1>2 DEF InUse, Left, Gone, Settled
<1>4. PICK ls, sz, mk : Queued(ls, sz, mk)
  BY <1>3 DEF Sane
<1>5. /\ IsRing(q) /\ q.num \in Nat /\ q.num <= MaxUser /\ Slot = 1 .. MaxUser /\ MaxUser \in Nat
      /\ q.slot \in [Slot -> [uid : User \cup {NoUser}, msg : Pointer]]
  BY <1>0, TypeFacts, SlotIsNotZero, ConstantsAreInt
<1>6. free = q.num + 1 .. MaxUser
  <2>1. Occupied(q.slot) = 1 .. q.num
    BY <1>0, <1>3 DEF Users
  <2> QED BY <2>1, <1>5
<1>7. i = q.num + 1 /\ i \in Slot /\ free # {}
  <2>1. q.num + 1 \in free /\ \A j \in free : q.num + 1 <= j
    BY <1>1, <1>5, <1>6
  <2>2. i \in free /\ \A j \in free : i <= j
    BY <2>1, Zenon
  <2> HIDE DEF i
  <2> QED BY <2>1, <2>2, <1>1, <1>5, <1>6
<1> HIDE DEF i, free
<1>8. /\ q' = [q EXCEPT !.slot[i] = new]
      /\ changing' = [step |-> "taken", slot |-> i, head |-> Null]
      /\ UNCHANGED <<reading, owed, spoilt, crashed>>
  BY <1>7, Zenon DEF Subscribe, i, free
<1>9. q' = [mem |-> q.mem, first |-> q.first, begin |-> q.begin, end |-> q.end, size |-> q.size,
            slot |-> slot, num |-> q.num]
  BY <1>5, <1>8 DEF IsRing
<1>10. slot \in [Slot -> [uid : User \cup {NoUser}, msg : Pointer]]
  BY <1>5, <1>7 DEF Pointer
<1>11. q'.slot = slot /\ q'.num = q.num /\ q'.begin = q.begin /\ q'.end = q.end /\ q'.size = q.size
  BY <1>9
<1>12. slot[i] = new /\ \A j \in Slot : j # i => slot[j] = q.slot[j]
  BY <1>5, <1>7
<1>13. changing'.step = "taken" /\ changing'.slot = i /\ changing'.head = Null /\ changing' # NotChanging
  BY <1>8 DEF NotChanging
<1>14. Holds(q', ls, sz, mk)
  <2>1. Holds(q, ls, sz, mk) /\ q.num \in 0 .. MaxUser
    BY <1>4, <1>5 DEF Queued
  <2> QED BY <2>1, <1>9, <1>10, SlotsAreSet
<1> HIDE DEF slot
<1>15. Types'
  <2>1. IsRing(q')
    BY <1>14 DEF Holds
  <2>2. changing' \in [step : {"taken", "found", "vacated"}, slot : Slot, head : Pointer]
    BY <1>7, <1>8 DEF Pointer
  <2> QED BY <2>1, <2>2, <1>0, <1>8, <1>11 DEF Types
<1>16. Calls'
  <2>1. new.msg = Null
    OBVIOUS
  <2> QED BY <2>1, <1>1, <1>2, <1>7, <1>8, <1>11, <1>12, <1>13 DEF Calls, Idling
<1>17. InUse' = 1 .. q.num + 1
  BY <1>11, <1>13 DEF InUse
<1>18. ASSUME NEW j \in 1 .. q.num PROVE j \in Slot /\ j # i /\ q'.slot[j] = q.slot[j] /\ q.slot[j].uid # u
  <2>1. j \in Slot /\ j # i
    BY <1>5, <1>7
  <2>2. q.slot[j].uid \in Subscribers(q)
    <3>1. j \in Occupied(q.slot)
      BY <1>0, <1>3 DEF Users
    <3> QED BY <3>1 DEF Occupied, Subscribers
  <2> QED BY <2>1, <2>2, <1>1, <1>11, <1>12
<1>19. Users'
  <2>1. u # NoUser
    BY UserAssumption
  <2>2. q'.slot[i].uid = u
    BY <1>11, <1>12
  <2>3. Occupied(q'.slot) = 1 .. q.num + 1
    <3>1. ASSUME NEW j \in Slot PROVE j \in Occupied(q'.slot) <=> j \in 1 .. q.num + 1
      <4>1. CASE j = i
        BY <4>1, <2>1, <2>2, <1>7, <1>5 DEF Occupied
      <4>2. CASE j # i
        <5>1. q'.slot[j] = q.slot[j]
          BY <4>2, <1>11, <1>12
        <5>2. j \in Occupied(q.slot) <=> j \in 1 .. q.num
          BY <1>0, <1>3 DEF Users
        <5>3. j \in 1 .. q.num + 1 <=> j \in 1 .. q.num
          BY <4>2, <1>7, <1>5
        <5> QED BY <5>1, <5>2, <5>3 DEF Occupied
      <4> QED BY <4>1, <4>2
    <3>2. 1 .. q.num + 1 \subseteq Slot
      BY <1>1, <1>5
    <3> QED BY <3>1, <3>2 DEF Occupied
  <2>4. ASSUME NEW j \in 1 .. q.num + 1, NEW k \in 1 .. q.num + 1, q'.slot[j].uid = q'.slot[k].uid PROVE j = k
    <3>1. j \in 1 .. q.num \/ j = i
      BY <1>5, <1>7
    <3>2. k \in 1 .. q.num \/ k = i
      BY <1>5, <1>7
    <3>3. CASE j \in 1 .. q.num /\ k \in 1 .. q.num
      BY <3>3, <2>4, <1>18, <1>0, <1>3 DEF Users
    <3>4. CASE j = i /\ k = i
      BY <3>4
    <3>5. CASE j = i /\ k \in 1 .. q.num
      BY <3>5, <2>4, <2>2, <1>18
    <3>6. CASE k = i /\ j \in 1 .. q.num
      BY <3>6, <2>4, <2>2, <1>18
    <3> QED BY <3>1, <3>2, <3>3, <3>4, <3>5, <3>6
  <2>5. ASSUME NEW v \in User, owed'[v] # <<>> PROVE \E j \in 1 .. q'.num : q'.slot[j].uid = v
    <3>1. owed[v] # <<>>
      BY <2>5, <1>8
    <3>2. PICK j \in 1 .. q.num : q.slot[j].uid = v
      BY <3>1, <1>0 DEF Users
    <3> QED BY <3>2, <1>11, <1>18
  <2> QED BY <2>3, <2>4, <2>5, <1>17, Zenon DEF Users
<1>20. Queued(ls, sz, mk)'
  <2>1. q'.num = 0 => ls = <<>>
    BY <1>4, <1>11 DEF Queued
  <2>2. Spacious(q'.begin, ls, mk, MaxUser)
    BY <1>4, <1>11 DEF Queued
  <2>3. Masked(ls, mk)'
    BY <1>2, <1>3, <1>4, <1>8, <1>11 DEF Queued, Masked
  <2>4. ASSUME NEW j \in 1 .. q.num PROVE Oldest'[j] = Oldest[j] /\ Due'[j] = Due[j]
    <3>1. j \in Slot /\ q'.slot[j] = q.slot[j]
      BY <1>18
    <3>2. Unread(j)' = Unread(j)
      BY <3>1, <1>8, SMT DEF Unread
    <3> QED BY <3>1, <3>2, <1>8 DEF Oldest, Due
  <2>5. Serves(ls, mk, 1 .. q'.num, Oldest', Due', 1)
    <3>1. Serves(ls, mk, 1 .. q.num, Oldest, Due, 1)
      BY <1>4 DEF Queued
    <3> QED BY <3>1, <2>4, <1>11 DEF Serves
  <2>6. ~(changing'.step \in {"found", "vacated"}) /\ Halfway(ls, mk)'
    BY <1>2, <1>8, <1>13 DEF Halfway, Idling
  <2> QED BY <1>14, <2>1, <2>2, <2>3, <2>5, <2>6 DEF Queued
<1> QED BY <1>8, <1>15, <1>16, <1>19, <1>20, Zenon DEF Sane

\* The user of the slot is counted.
LEMMA SubscribeEndIsSane ==
  ASSUME Sane, ~crashed, SubscribeEnd
  PROVE  ~crashed' /\ Sane'
<1> DEFINE i == q.num + 1
<1>0. Types /\ Calls /\ Users
  BY DEF Sane
<1>1. /\ changing.step = "taken" /\ q' = [q EXCEPT !.num = Uint8(q.num + 1)] /\ changing' = NotChanging
      /\ UNCHANGED <<reading, owed, spoilt, crashed>>
  BY Zenon DEF SubscribeEnd
<1>2. changing # NotChanging /\ reading = NotReading /\ UserCall /\ Idling
  <2>1. changing # NotChanging
    BY <1>1 DEF NotChanging
  <2>2. reading = NotReading
    BY <2>1, <1>0 DEF Calls
  <2> QED BY <2>1, <2>2, <1>0, TypeFacts
<1>3. InUse = 1 .. i /\ Left = {} /\ ~Gone /\ changing.slot = i /\ q.slot[i].msg = Null /\ i \in Slot
  BY <1>0, <1>1, <1>2 DEF InUse, Left, Gone, Calls, UserCall
<1>4. PICK ls, sz, mk : Queued(ls, sz, mk)
  BY <1>3 DEF Sane
<1>5. /\ IsRing(q) /\ q.num \in Nat /\ q.num <= MaxUser /\ Slot = 1 .. MaxUser /\ MaxUser \in Nat /\ MaxUser <= 255
      /\ q.slot \in [Slot -> [uid : User \cup {NoUser}, msg : Pointer]]
  BY <1>0, TypeFacts, SlotIsNotZero, ConstantsAreInt
<1>6. Uint8(q.num + 1) = i /\ i \in 0 .. MaxUser
  <2>1. i \in Nat /\ i <= MaxUser /\ i \in 0 .. MaxUser /\ i < 256
    BY <1>3, <1>5
  <2>2. \A x \in 0 .. 255 : x % 256 = x
    OBVIOUS
  <2>3. i \in 0 .. 255
    BY <2>1
  <2> QED BY <2>1, <2>2, <2>3 DEF Uint8
<1> HIDE DEF i
<1>7. q' = [mem |-> q.mem, first |-> q.first, begin |-> q.begin, end |-> q.end, size |-> q.size,
            slot |-> q.slot, num |-> i]
  BY <1>1, <1>5, <1>6 DEF IsRing
<1>8. q'.slot = q.slot /\ q'.num = i /\ q'.begin = q.begin /\ q'.end = q.end /\ q'.size = q.size
  BY <1>7
<1>9. Holds(q', ls, sz, mk)
  <2>1. Holds(q, ls, sz, mk)
    BY <1>4 DEF Queued
  <2> QED BY <2>1, <1>5, <1>6, <1>7, SlotsAreSet
<1>10. changing' = NotChanging /\ changing'.step = "none"
  BY <1>1 DEF NotChanging
<1>11. Types'
  <2>1. IsRing(q')
    BY <1>9 DEF Holds
  <2> QED BY <2>1, <1>0, <1>1, <1>8 DEF Types
<1>12. Calls'
  BY <1>1, <1>2, <1>10 DEF Calls, Idling
<1>13. InUse' = 1 .. i
  BY <1>8, <1>10 DEF InUse
<1>14. Users'
  <2>1. ASSUME NEW v \in User, owed'[v] # <<>> PROVE \E j \in 1 .. q'.num : q'.slot[j].uid = v
    <3>1. PICK j \in 1 .. q.num : q.slot[j].uid = v
      BY <2>1, <1>0, <1>1 DEF Users
    <3>2. j \in 1 .. i
      BY <1>5 DEF i
    <3> QED BY <3>1, <3>2, <1>8
  <2> QED BY <2>1, <1>0, <1>3, <1>8, <1>13 DEF Users
<1>15. i \notin 1 .. q.num /\ 1 .. i = (1 .. q.num) \cup {i} /\ i # 0
  BY <1>5 DEF i
<1>16. ls \in Seq(Addr) /\ mk \in Seq(SUBSET Slot) /\ Len(mk) = Len(ls) /\ Len(ls) \in Nat
  BY <1>4 DEF Queued, Holds, Chain
<1>17. Reads(ls, mk, i, Oldest'[i], Due'[i], 1)
  <2>1. Oldest'[i] = Null
    BY <1>1, <1>2, <1>3, <1>8, SMT DEF Oldest, Unread, Idling
  <2>2. Due'[i] = <<>>
    <3>1. q.slot[i].uid \in User
      <4>1. i \in Occupied(q.slot)
        BY <1>0, <1>3, <1>15 DEF Users
      <4> QED BY <4>1, <1>3, <1>5 DEF Occupied
    <3>2. ASSUME owed[q.slot[i].uid] # <<>> PROVE FALSE
      <4>1. PICK j \in 1 .. q.num : q.slot[j].uid = q.slot[i].uid
        BY <3>1, <3>2, <1>0 DEF Users
      <4>2. j = i
        BY <4>1, <1>0, <1>3, <1>15 DEF Users
      <4> QED BY <4>2, <1>15
    <3>3. owed[q.slot[i].uid] = <<>>
      BY <3>2
    <3> QED BY <3>3, <1>1, <1>3, <1>8 DEF Due
  <2> DEFINE p == Len(ls) + 1
  <2>3. p \in 1 .. Len(ls) + 1 /\ At(ls, p) = Null /\ Rest(ls, p) = <<>>
    <3>1. Rest(ls, p) = <<>>
      BY <1>16, RestIsEmpty
    <3> QED BY <3>1, <1>16 DEF At
  <2>4. ASSUME NEW k \in 1 .. Len(ls) PROVE i \in mk[k] <=> k >= p
    <3>1. mk[k] \subseteq 1 .. q.num
      BY <1>3, <1>4, <1>16 DEF Queued, Masked
    <3>2. ~(k >= p)
      BY <1>16
    <3> QED BY <3>1, <3>2, <1>15
  <2> HIDE DEF p
  <2> QED BY <2>1, <2>2, <2>3, <2>4 DEF Reads
<1>18. Queued(ls, sz, mk)'
  <2>1. q'.num = 0 => ls = <<>>
    BY <1>8, <1>15
  <2>2. Spacious(q'.begin, ls, mk, MaxUser)
    BY <1>4, <1>8 DEF Queued
  <2>3. Masked(ls, mk)'
    <3>1. \A k \in 1 .. Len(mk) : /\ mk[k] \subseteq 1 .. q.num
                                  /\ mk[k] = {} => k = 1 /\ reading.step \in AfterMask /\ reading.node = ls[1]
      BY <1>3, <1>4 DEF Queued, Masked
    <3>2. 1 .. q.num \subseteq 1 .. q'.num
      BY <1>8, <1>15
    <3> QED BY <3>1, <3>2, <1>1 DEF Masked
  <2>4. ASSUME NEW j \in 1 .. q.num PROVE Oldest'[j] = Oldest[j] /\ Due'[j] = Due[j]
    <3>1. j \in Slot /\ q'.slot[j] = q.slot[j]
      BY <1>8, <1>5
    <3>2. Unread(j)' = Unread(j)
      BY <3>1, <1>1, SMT DEF Unread
    <3> QED BY <3>1, <3>2, <1>1 DEF Oldest, Due
  <2>5. Serves(ls, mk, 1 .. q'.num, Oldest', Due', 1)
    <3>1. Serves(ls, mk, 1 .. q.num, Oldest, Due, 1)
      BY <1>4 DEF Queued
    <3>2. ASSUME NEW j \in 1 .. q'.num PROVE Reads(ls, mk, j, Oldest'[j], Due'[j], 1)
      <4>1. j \in 1 .. q.num \/ j = i
        BY <1>8, <1>15
      <4>2. CASE j \in 1 .. q.num
        BY <4>2, <2>4, <3>1 DEF Serves
      <4> QED BY <4>1, <4>2, <1>17
    <3> QED BY <3>2 DEF Serves
  <2>6. ~(changing'.step \in {"found", "vacated"}) /\ Halfway(ls, mk)'
    BY <1>1, <1>2, <1>10 DEF Halfway, Idling
  <2> QED BY <1>9, <2>1, <2>2, <2>3, <2>5, <2>6 DEF Queued
<1> QED BY <1>1, <1>11, <1>12, <1>14, <1>18, Zenon DEF Sane

-----------------------------------------------------------------------------
(* A user goes.                                                            *)

\* A user that goes loads its oldest report.
LEMMA UnsubscribeIsSane ==
  ASSUME Sane, ~crashed, NEW i \in Slot, Unsubscribe(i)
  PROVE  ~crashed' /\ Sane'
<1>0. Types /\ Calls /\ Users
  BY DEF Sane
<1>1. /\ reading = NotReading /\ changing = NotChanging /\ i \in Occupied(q.slot)
      /\ changing' = [step |-> "found", slot |-> i, head |-> q.slot[i].msg]
      /\ UNCHANGED <<q, reading, owed, spoilt, crashed>>
  BY Zenon DEF Unsubscribe, SystemCall
<1>2. Idling /\ Settled
  BY <1>0, <1>1, TypeFacts
<1>3. InUse = 1 .. q.num /\ Left = {} /\ ~Gone
  BY <1>2 DEF InUse, Left, Gone, Settled
<1>4. PICK ls, sz, mk : Queued(ls, sz, mk)
  BY <1>3 DEF Sane
<1>5. i \in 1 .. q.num /\ q.slot \in [Slot -> [uid : User \cup {NoUser}, msg : Pointer]]
  BY <1>0, <1>1, <1>3, TypeFacts DEF Users
<1>6. changing'.step = "found" /\ changing'.slot = i /\ changing'.head = q.slot[i].msg /\ changing' # NotChanging
  BY <1>1 DEF NotChanging
<1>7. Types'
  BY <1>0, <1>1, <1>5 DEF Types
<1>8. Calls'
  BY <1>1, <1>2, <1>5, <1>6 DEF Calls, Idling
<1>9. InUse' = 1 .. q.num /\ Left' = {} /\ ~Gone'
  BY <1>1, <1>6 DEF InUse, Left, Gone
<1>10. Users'
  BY <1>0, <1>1, <1>3, <1>9 DEF Users
<1>11. Queued(ls, sz, mk)'
  <2>1. Oldest' = Oldest /\ Due' = Due
    BY <1>1 DEF Oldest, Due, Unread
  <2>2. Masked(ls, mk)'
    BY <1>1, <1>3, <1>4, <1>9 DEF Queued, Masked
  <2>3. \E h \in 1 .. Len(ls) + 1 : changing'.head = At(ls, h)
    <3>1. Reads(ls, mk, i, Oldest[i], Due[i], 1)
      BY <1>4, <1>5 DEF Queued, Serves
    <3>2. Oldest[i] = q.slot[i].msg
      BY <1>2 DEF Oldest, Unread, Idling
    <3> QED BY <3>1, <3>2, <1>6 DEF Reads
  <2>4. Halfway(ls, mk)'
    BY <1>1, <1>2 DEF Halfway, Idling
  <2> QED BY <2>1, <2>2, <2>3, <2>4, <1>1, <1>4 DEF Queued
<1> QED BY <1>1, <1>7, <1>8, <1>10, <1>11, Zenon DEF Sane

\* A number of users fits in its byte.
LEMMA ByteIsItself == ASSUME NEW x \in Nat, x <= 255 PROVE Uint8(x) = x
<1>1. \A y \in 0 .. 255 : y % 256 = y
  OBVIOUS
<1>2. x \in 0 .. 255
  OBVIOUS
<1> QED BY <1>1, <1>2 DEF Uint8

\* The slot is vacated: it is the last, or the slots are sparse.
LEMMA UnsubscribeVacateIsSane ==
  ASSUME Sane, ~crashed, UnsubscribeVacate, spoilt' = {}
  PROVE  ~crashed' /\ Sane'
<1> DEFINE i    == changing.slot
           m    == q.num - 1
           slot == [q.slot EXCEPT ![i] = Vacant]
           r    == [q EXCEPT !.slot[i] = Vacant, !.num = Uint8(q.num - 1)]
<1>0. Types /\ Calls /\ Users
  BY DEF Sane
<1>1. /\ changing.step = "found" /\ q' = r /\ changing' = [changing EXCEPT !.step = "vacated"]
      /\ spoilt' = spoilt \cup {h \in Hazard : h = "slots sparse" /\ Sparse(r)}
      /\ owed' = [u \in User |-> IF u \in Subscribers(r) THEN owed[u] ELSE <<>>]
      /\ UNCHANGED <<reading, crashed>>
  BY Zenon DEF UnsubscribeVacate
<1>1a. changing.step = "found" /\ changing' = [changing EXCEPT !.step = "vacated"]
  BY <1>1
<1>1b. UNCHANGED <<reading, crashed>> /\ changing.step = "found"
  BY <1>1
<1>2. changing # NotChanging /\ reading = NotReading /\ UserCall /\ Idling
  <2>1. changing # NotChanging
    BY <1>1b DEF NotChanging
  <2>2. reading = NotReading
    BY <2>1, <1>0 DEF Calls
  <2> QED BY <2>1, <2>2, <1>0, TypeFacts
<1>3. InUse = 1 .. q.num /\ Left = {} /\ ~Gone /\ i \in 1 .. q.num /\ i \in Slot
  BY <1>0, <1>1, <1>2 DEF InUse, Left, Gone, Calls, UserCall
<1>4. PICK ls, sz, mk : Queued(ls, sz, mk)
  BY <1>3 DEF Sane
<1>5. /\ IsRing(q) /\ q.num \in Nat /\ q.num <= MaxUser /\ Slot = 1 .. MaxUser /\ MaxUser \in Nat /\ MaxUser <= 255
      /\ q.slot \in [Slot -> [uid : User \cup {NoUser}, msg : Pointer]]
  BY <1>0, TypeFacts, SlotIsNotZero, ConstantsAreInt
<1> HIDE DEF i, r
<1>6. m \in Nat /\ m \in 0 .. MaxUser /\ q.num = m + 1 /\ Uint8(q.num - 1) = m
  <2>1. m \in Nat /\ m <= 255 /\ m \in 0 .. MaxUser /\ q.num = m + 1
    BY <1>3, <1>5
  <2> QED BY <2>1, ByteIsItself
<1> HIDE DEF m
<1>7. r = [mem |-> q.mem, first |-> q.first, begin |-> q.begin, end |-> q.end, size |-> q.size,
           slot |-> slot, num |-> m]
  <2>1. r = [q EXCEPT !.slot = slot, !.num = m]
    BY <1>6, Zenon DEF r
  <2> HIDE DEF r, slot
  <2> QED BY <2>1, <1>5 DEF IsRing
<1>8. slot \in [Slot -> [uid : User \cup {NoUser}, msg : Pointer]]
  BY <1>5, <1>3 DEF Vacant, Pointer
<1>9. slot[i] = Vacant /\ \A j \in Slot : j # i => slot[j] = q.slot[j]
  BY <1>5, <1>3
<1> HIDE DEF slot
<1>10. /\ q'.slot = slot /\ q'.num = m /\ q'.begin = q.begin /\ q'.end = q.end /\ q'.size = q.size
       /\ r.slot = slot /\ r.num = m
  BY <1>1, <1>7
<1>11. Occupied(slot) = (1 .. q.num) \ {i}
  <2>1. \A j \in Slot : q.slot[j].uid # NoUser <=> j \in 1 .. q.num
    BY <1>0, <1>3 DEF Users, Occupied
  <2>2. \A j \in Slot : slot[j].uid # NoUser <=> j \in (1 .. q.num) \ {i}
    BY <2>1, <1>9 DEF Vacant
  <2>3. (1 .. q.num) \ {i} \subseteq Slot
    BY <1>5
  <2> QED BY <2>2, <2>3 DEF Occupied
<1>12. i = q.num /\ Occupied(slot) = 1 .. m
  <2>1. ~Sparse(r)
    <3>1. "slots sparse" \in Hazard
      BY DEF Hazard
    <3> QED BY <3>1, <1>1
  <2>2. Occupied(slot) = 1 .. m \/ m = 0
    BY <2>1, <1>10 DEF Sparse
  <2>3. i = q.num
    <3>1. CASE m = 0
      BY <3>1, <1>3, <1>6 DEF i
    <3>2. CASE Occupied(slot) = 1 .. m
      <4>1. q.num \in 1 .. q.num /\ q.num \notin 1 .. m
        BY <1>6
      <4> QED BY <4>1, <3>2, <1>11
    <3> QED BY <3>1, <3>2, <2>2
  <2> QED BY <2>3, <1>6, <1>11
<1>13. Holds(q', ls, sz, mk)
  <2>1. Holds(q, ls, sz, mk) /\ q' = r
    BY <1>1, <1>4 DEF Queued
  <2> QED BY <2>1, <1>6, <1>7, <1>8, SlotsAreSet
<1>14. /\ changing'.step = "vacated" /\ changing'.slot = i /\ changing'.head = changing.head
       /\ changing' \in [step : {"taken", "found", "vacated"}, slot : Slot, head : Pointer]
  <2>1. changing \in [step : {"taken", "found", "vacated"}, slot : Slot, head : Pointer]
    BY <1>0, <1>2 DEF Types
  <2> QED BY <2>1, <1>1a DEF i
<1>15. Types'
  <2>1. IsRing(q')
    BY <1>13 DEF Holds
  <2>2. owed' = [u \in User |-> owed'[u]] /\ \A u \in User : owed'[u] \in Seq(Addr)
    <3> DEFINE f(u) == IF u \in Subscribers(r) THEN owed[u] ELSE <<>>
    <3>1. owed' = [u \in User |-> f(u)]
      BY <1>1, Zenon
    <3>2. \A u \in User : f(u) \in Seq(Addr)
      BY <1>0 DEF Types
    <3> HIDE DEF f
    <3> QED BY <3>1, <3>2
  <2> QED BY <2>1, <2>2, <1>0, <1>1b, <1>10, <1>14 DEF Types
<1>16. Calls'
  BY <1>1b, <1>2, <1>6, <1>10, <1>12, <1>14 DEF Calls, Idling
<1>17. InUse' = 1 .. m /\ Left' = {i}
  BY <1>10, <1>14 DEF InUse, Left
<1>18. ASSUME NEW j \in 1 .. m PROVE j \in 1 .. q.num /\ j \in Slot /\ j # i /\ slot[j] = q.slot[j]
  <2>1. j \in 1 .. q.num /\ j \in Slot /\ j # i
    BY <1>5, <1>6, <1>12
  <2> QED BY <2>1, <1>9
<1>19. ASSUME NEW j \in 1 .. m PROVE q.slot[j].uid \in User /\ owed'[q.slot[j].uid] = owed[q.slot[j].uid]
  <2>1. j \in Occupied(slot) /\ j \in Slot /\ slot[j] = q.slot[j]
    BY <1>12, <1>18
  <2>2. q.slot[j].uid \in User /\ q.slot[j].uid # NoUser
    BY <2>1, <1>5 DEF Occupied
  <2>3. q.slot[j].uid \in Subscribers(r)
    BY <2>1, <2>2, <1>10 DEF Subscribers
  <2> QED BY <2>2, <2>3, <1>1
<1>20. Users'
  <2>1. ASSUME NEW v \in User, owed'[v] # <<>> PROVE \E j \in 1 .. q'.num : q'.slot[j].uid = v
    <3>1. v \in Subscribers(r)
      BY <2>1, <1>1
    <3>2. PICK j \in Slot : slot[j].uid = v /\ v # NoUser
      BY <3>1, <1>10 DEF Subscribers
    <3>3. j \in Occupied(slot)
      BY <3>2 DEF Occupied
    <3> QED BY <3>2, <3>3, <1>10, <1>12
  <2>2. ASSUME NEW j \in 1 .. m, NEW k \in 1 .. m, q'.slot[j].uid = q'.slot[k].uid PROVE j = k
    BY <2>2, <1>0, <1>3, <1>10, <1>18 DEF Users
  <2> QED BY <2>1, <2>2, <1>10, <1>12, <1>17, Zenon DEF Users
<1>21. CASE m = 0
  <2>1. Gone'
    BY <1>21, <1>10, <1>14 DEF Gone
  <2> QED BY <2>1, <1>1, <1>15, <1>16, <1>20, Zenon DEF Sane
<1>22. CASE m # 0
  <2>1. q'.num = 0 => ls = <<>>
    BY <1>10, <1>22
  <2>2. Spacious(q'.begin, ls, mk, MaxUser)
    BY <1>4, <1>10 DEF Queued
  <2>3. Masked(ls, mk)'
    <3>1. \A k \in 1 .. Len(mk) : /\ mk[k] \subseteq 1 .. q.num
                                  /\ mk[k] = {} => k = 1 /\ reading.step \in AfterMask /\ reading.node = ls[1]
      BY <1>3, <1>4 DEF Queued, Masked
    <3>2. 1 .. q.num \subseteq (1 .. q'.num) \cup Left'
      BY <1>6, <1>10, <1>12, <1>17
    <3> QED BY <3>1, <3>2, <1>1 DEF Masked
  <2>4. ASSUME NEW j \in 1 .. m PROVE Oldest'[j] = Oldest[j] /\ Due'[j] = Due[j]
    <3>1. j \in Slot /\ q'.slot[j] = q.slot[j]
      BY <1>10, <1>18
    <3>2. Unread(j)' = Unread(j)
      BY <3>1, <1>1b, SMT DEF Unread
    <3> QED BY <3>1, <3>2, <1>19 DEF Oldest, Due
  <2>5. Serves(ls, mk, 1 .. q'.num, Oldest', Due', 1)
    <3>1. Serves(ls, mk, 1 .. q.num, Oldest, Due, 1)
      BY <1>4 DEF Queued
    <3> QED BY <3>1, <2>4, <1>10, <1>18 DEF Serves
  <2>6. \E h \in 1 .. Len(ls) + 1 : changing'.head = At(ls, h)
    BY <1>1, <1>4, <1>14 DEF Queued
  <2>7. Queued(ls, sz, mk)'
    <3>1. Halfway(ls, mk)'
      BY <1>1b, <1>2 DEF Halfway, Idling
    <3> QED BY <1>13, <2>1, <2>2, <2>3, <2>5, <2>6, <3>1 DEF Queued
  <2> QED BY <2>7, <1>1, <1>15, <1>16, <1>20, Zenon DEF Sane
<1> QED BY <1>21, <1>22

-----------------------------------------------------------------------------
(* A read.                                                                 *)

\* A read begins.
LEMMA ReadBeginIsSane ==
  ASSUME Sane, ~crashed, NEW i \in Slot, ReadBegin(i)
  PROVE  ~crashed' /\ Sane'
<1>0. Types /\ Calls /\ Users
  BY DEF Sane
<1>1. /\ reading = NotReading /\ changing = NotChanging /\ i \in Occupied(q.slot) /\ q.slot[i].msg # Null
      /\ reading' = [NotReading EXCEPT !.step = "found", !.slot = i, !.node = q.slot[i].msg]
      /\ UNCHANGED <<q, changing, owed, spoilt, crashed>>
  BY Zenon DEF ReadBegin, SystemCall
<1>2. Idling /\ Settled
  BY <1>0, <1>1, TypeFacts
<1>3. InUse = 1 .. q.num /\ Left = {} /\ ~Gone
  BY <1>2 DEF InUse, Left, Gone, Settled
<1>4. PICK ls, sz, mk : Queued(ls, sz, mk)
  BY <1>3 DEF Sane
<1>5. i \in 1 .. q.num /\ q.slot \in [Slot -> [uid : User \cup {NoUser}, msg : Pointer]]
  BY <1>0, <1>1, <1>3, TypeFacts DEF Users
<1>6. reading' = [step |-> "found", slot |-> i, node |-> q.slot[i].msg, mask |-> {}, next |-> Null]
  BY <1>1 DEF NotReading
<1>7. q.slot[i].msg \in Addr
  BY <1>1, <1>5 DEF Pointer
<1>8. /\ reading'.step = "found" /\ reading'.slot = i /\ reading'.node = q.slot[i].msg
      /\ reading' \in ReadRecord
  <2>1. i \in Slot /\ Null \in Pointer /\ "found" \in BeforeMask
    BY DEF Pointer, BeforeMask
  <2> QED BY <2>1, <1>6, <1>7 DEF ReadRecord
<1>9. Types'
  BY <1>0, <1>1, <1>8 DEF Types
<1>10. Calls'
  BY <1>1, <1>2, <1>5, <1>8 DEF Calls, Settled
<1>11. InUse' = 1 .. q.num /\ Left' = {}
  BY <1>1, <1>2 DEF InUse, Left, Settled
<1>12. Users'
  BY <1>0, <1>1, <1>3, <1>11 DEF Users
<1>13. Queued(ls, sz, mk)'
  <2>1. Oldest' = Oldest /\ Due' = Due
    BY <1>1, <1>2, <1>8 DEF Oldest, Due, Unread, Idling
  <2>2. Masked(ls, mk)'
    BY <1>1, <1>2, <1>3, <1>4, <1>11 DEF Queued, Masked, Idling
  <2>3. Halfway(ls, mk)'
    BY <1>8 DEF Halfway
  <2> QED BY <2>1, <2>2, <2>3, <1>1, <1>4 DEF Queued
<1> QED BY <1>1, <1>9, <1>10, <1>12, <1>13, Zenon DEF Sane

\* The reader's node is its first on the list.
ReaderAt(ls, sz, mk) ==
    \E p \in 1 .. Len(ls) :
       /\ reading.node = ls[p] /\ reading.node \in DOMAIN q.mem
       /\ q.mem[reading.node] = [size |-> sz[p], next |-> At(ls, p + 1), mask |-> mk[p]]
       /\ Due[reading.slot] = Rest(ls, p)
       /\ \A k \in 1 .. Len(ls) : reading.slot \in mk[k] <=> k >= p

\* Until its mask is stored the node that is read is that one.
LEMMA ReaderIsThere ==
  ASSUME Types, Calls, reading.step \in BeforeMask, NEW ls, NEW sz, NEW mk, Queued(ls, sz, mk)
  PROVE  /\ changing = NotChanging /\ Settled /\ ReadCall /\ Left = {} /\ ~Gone
         /\ InUse = 1 .. q.num /\ reading # NotReading /\ reading.slot \in 1 .. q.num
         /\ reading.node = q.slot[reading.slot].msg /\ ReaderAt(ls, sz, mk)
<1>1. reading # NotReading
  BY DEF NotReading, BeforeMask
<1>2. changing = NotChanging /\ ReadCall /\ Settled
  BY <1>1, TypeFacts DEF Calls
<1>3. InUse = 1 .. q.num /\ Left = {} /\ ~Gone
  BY <1>2 DEF InUse, Left, Gone, Settled
<1>4. reading.slot \in 1 .. q.num /\ reading.node = q.slot[reading.slot].msg /\ reading.slot \in Slot /\ reading.node \in Addr
  BY <1>2 DEF Calls, ReadCall
<1>5. PICK p \in 1 .. Len(ls) + 1 : /\ Oldest[reading.slot] = At(ls, p) /\ Due[reading.slot] = Rest(ls, p)
                                   /\ \A k \in 1 .. Len(ls) : reading.slot \in mk[k] <=> k >= p
  BY <1>4 DEF Queued, Serves, Reads
<1>6. ls \in Seq(Addr) /\ Len(ls) \in Nat /\ Chain(q.mem, ls, sz, mk)
  BY DEF Queued, Holds, Chain
<1>7. p \in 1 .. Len(ls) /\ reading.node = ls[p]
  <2>1. Oldest[reading.slot] = reading.node
    BY <1>4, SMT DEF Oldest, Unread, BeforeMask
  <2>2. reading.node # Null
    BY <1>4, ConstantsAreInt DEF Addr, Null
  <2> QED BY <2>1, <2>2, <1>5, <1>6 DEF At
<1>8. reading.node \in DOMAIN q.mem /\ q.mem[reading.node] = [size |-> sz[p], next |-> At(ls, p + 1), mask |-> mk[p]]
  BY <1>6, <1>7 DEF Chain
<1>9. ReaderAt(ls, sz, mk)
  BY <1>5, <1>7, <1>8, Zenon DEF ReaderAt
<1> QED BY <1>1, <1>2, <1>3, <1>4, <1>9

\* The mask of the report that is read is loaded.
LEMMA ReadMaskIsSane ==
  ASSUME Sane, ~crashed, ReadMask
  PROVE  ~crashed' /\ Sane'
<1>0. Types /\ Calls /\ Users
  BY DEF Sane
<1>1. /\ reading.step = "found"
      /\ IF reading.node \notin DOMAIN q.mem THEN Crash
         ELSE /\ reading' = [reading EXCEPT !.step = "masked", !.mask = q.mem[reading.node].mask]
              /\ UNCHANGED <<q, changing, freeing, owed, crashed>>
  BY Zenon DEF ReadMask
<1>2. reading.step \in BeforeMask /\ changing.step = "none" /\ reading # NotReading
  <2>1. reading.step \in BeforeMask /\ reading # NotReading
    BY <1>1 DEF BeforeMask, NotReading
  <2> QED BY <2>1, <1>0, TypeFacts DEF Calls, Settled
<1>3. PICK ls, sz, mk : Queued(ls, sz, mk)
  BY <1>2 DEF Sane, Gone
<1>4. /\ changing = NotChanging /\ Settled /\ ReadCall /\ Left = {} /\ InUse = 1 .. q.num
      /\ reading.slot \in 1 .. q.num /\ reading.node = q.slot[reading.slot].msg
  BY <1>0, <1>2, <1>3, ReaderIsThere
<1>5. PICK p \in 1 .. Len(ls) :
         /\ reading.node = ls[p] /\ reading.node \in DOMAIN q.mem
         /\ q.mem[reading.node] = [size |-> sz[p], next |-> At(ls, p + 1), mask |-> mk[p]]
  <2>1. ReaderAt(ls, sz, mk)
    BY <1>0, <1>2, <1>3, ReaderIsThere
  <2> QED BY <2>1, Zenon DEF ReaderAt
<1>6. reading' = [reading EXCEPT !.step = "masked", !.mask = mk[p]] /\ UNCHANGED <<q, changing, owed, crashed>>
  BY <1>1, <1>5
<1>7. mk[p] \in SUBSET Slot /\ reading \in ReadRecord
  <2>1. mk \in Seq(SUBSET Slot) /\ Len(mk) = Len(ls)
    BY <1>3 DEF Queued, Holds, Chain
  <2> QED BY <2>1, <1>0, <1>2 DEF Types
<1>8. /\ reading'.step = "masked" /\ reading'.slot = reading.slot /\ reading'.node = reading.node
      /\ reading'.mask = mk[p] /\ reading' \in ReadRecord
  BY <1>6, <1>7 DEF ReadRecord, BeforeMask
<1>9. q' = q /\ changing' = changing /\ owed' = owed /\ crashed' = crashed
  BY <1>6
<1>10. Types' /\ Calls'
  <2>1. Types'
    BY <1>0, <1>8, <1>9 DEF Types
  <2> QED BY <2>1, <1>0, <1>2, <1>4, <1>8, <1>9 DEF Calls
<1>11. InUse' = 1 .. q.num /\ Left' = {}
  BY <1>2, <1>9 DEF InUse, Left
<1>12. Users'
  BY <1>0, <1>4, <1>9, <1>11 DEF Users
<1>13. Queued(ls, sz, mk)'
  <2>1. ASSUME NEW j \in 1 .. q.num PROVE Oldest'[j] = Oldest[j] /\ Due'[j] = Due[j]
    <3>1. j \in Slot
      BY <1>0, TypeFacts
    <3>2. Unread(j)' = Unread(j)
      BY <3>1, <1>1, <1>8, <1>9, SMT DEF Unread
    <3> QED BY <3>1, <3>2, <1>9 DEF Oldest, Due
  <2>2. Serves(ls, mk, 1 .. q'.num, Oldest', Due', 1)
    BY <2>1, <1>3, <1>9 DEF Queued, Serves
  <2>3. Masked(ls, mk)'
    BY <1>1, <1>3, <1>4, <1>9, <1>11 DEF Queued, Masked, AfterMask
  <2>4. Halfway(ls, mk)'
    BY <1>5, <1>8 DEF Halfway
  <2> QED BY <2>2, <2>3, <2>4, <1>2, <1>3, <1>9 DEF Queued
<1> QED BY <1>9, <1>10, <1>12, <1>13, Zenon DEF Sane

\* What is owed after the oldest is read begins at the next node.
LEMMA TailIsRest ==
  ASSUME NEW S, NEW ls \in Seq(S), NEW p \in 1 .. Len(ls)
  PROVE  Tail(Rest(ls, p)) = Rest(ls, p + 1) /\ Rest(ls, p) # <<>> /\ Head(Rest(ls, p)) = ls[p]
<1> DEFINE a == Rest(ls, p)  b == Rest(ls, p + 1)  L == Len(ls)
<1>0. L \in Nat /\ p \in 1 .. L + 1 /\ p + 1 \in 1 .. L + 1
  OBVIOUS
<1>1. a \in Seq(S) /\ Len(a) = L - p + 1 /\ \A k \in 1 .. L - p + 1 : a[k] = ls[k + p - 1]
  BY <1>0, RestFacts
<1>2. b \in Seq(S) /\ Len(b) = L - p /\ \A k \in 1 .. L - p : b[k] = ls[k + p]
  <2> DEFINE o == p + 1
  <2>1. o \in 1 .. L + 1 /\ L - o + 1 = L - p /\ \A k \in 1 .. L - p : k + o - 1 = k + p
    BY <1>0
  <2> HIDE DEF o
  <2>2. Rest(ls, o) \in Seq(S) /\ Len(Rest(ls, o)) = L - o + 1 /\ \A k \in 1 .. L - o + 1 : Rest(ls, o)[k] = ls[k + o - 1]
    BY <2>1, RestFacts
  <2>3. Rest(ls, o) \in Seq(S) /\ Len(Rest(ls, o)) = L - p /\ \A k \in 1 .. L - p : Rest(ls, o)[k] = ls[k + p]
    BY <2>1, <2>2
  <2> QED BY <2>3 DEF o
<1> HIDE DEF a, b
<1>3. 1 \in 1 .. L - p + 1 /\ 1 + p - 1 = p
  BY <1>0
<1>4. a # <<>> /\ Head(a) = ls[p]
  <2>1. a[1] = ls[p]
    <3>1. a[1] = ls[1 + p - 1]
      BY <1>3, <1>1, Zenon
    <3> QED BY <3>1, <1>3
  <2>2. Len(a) >= 1
    BY <1>1, <1>3
  <2> QED BY <1>1, <2>1, <2>2
<1>5. Tail(a) \in Seq(S) /\ Len(Tail(a)) = L - p /\ \A k \in 1 .. L - p : Tail(a)[k] = a[k + 1]
  BY <1>1, <1>4, <1>0
<1>6. ASSUME NEW k \in 1 .. L - p PROVE Tail(a)[k] = b[k]
  <2>1. k + 1 \in 1 .. L - p + 1 /\ (k + 1) + p - 1 = k + p
    BY <1>0
  <2>2. a[k + 1] = ls[(k + 1) + p - 1]
    BY <2>1, <1>1, Zenon
  <2> QED BY <2>1, <2>2, <1>2, <1>5
<1>7. Tail(a) = b
  BY <1>2, <1>5, <1>6, SeqsAreEqual
<1> QED BY <1>4, <1>7 DEF a, b

\* The p-th node is read by slot i.
Taken(mk, p, i) == [k \in 1 .. Len(mk) |-> IF k = p THEN mk[k] \ {i} ELSE mk[k]]

\* The slot i leaves the mask of the node at x.
TakenAt(mem, x, i) == [mem EXCEPT ![x].mask = @ \ {i}]

\* A slot leaves one node's mask; the list stays linked.
LEMMA TakenIsChain ==
  ASSUME NEW mem, IsMem(mem), NEW ls, NEW sz, NEW mk, Chain(mem, ls, sz, mk), Distinct(ls),
         NEW p \in 1 .. Len(ls), NEW i,
         NEW out, out = TakenAt(mem, ls[p], i)
  PROVE  /\ IsMem(out) /\ Chain(out, ls, sz, Taken(mk, p, i))
         /\ Taken(mk, p, i) \in Seq(SUBSET Slot) /\ Len(Taken(mk, p, i)) = Len(ls)
<1> DEFINE L == Len(ls)  m2 == Taken(mk, p, i)
<1>0. /\ ls \in Seq(Addr) /\ sz \in Seq(Sizes) /\ mk \in Seq(SUBSET Slot) /\ L \in Nat
      /\ Len(sz) = L /\ Len(mk) = L
  BY DEF Chain
<1>1. ASSUME NEW k \in 1 .. L
      PROVE  ls[k] \in DOMAIN mem /\ mem[ls[k]] = [size |-> sz[k], next |-> At(ls, k + 1), mask |-> mk[k]]
  BY DEF Chain
<1>2. m2 \in Seq(SUBSET Slot) /\ Len(m2) = L /\ \A k \in 1 .. L : m2[k] = IF k = p THEN mk[k] \ {i} ELSE mk[k]
  <2>1. \A k \in 1 .. Len(mk) : m2[k] \in SUBSET Slot
    BY <1>0 DEF Taken
  <2> QED BY <1>0, <2>1, IsASeq DEF Taken
<1> HIDE DEF m2
<1>3. ls[p] \in DOMAIN mem
  BY <1>1
<1>4. DOMAIN out = DOMAIN mem /\ out = [x \in DOMAIN mem |-> out[x]]
  BY DEF IsMem, TakenAt
<1>5. ASSUME NEW x \in DOMAIN mem PROVE out[x] = IF x = ls[p] THEN Without(mem[x], {i}) ELSE mem[x]
  BY Zenon DEF IsMem, Without, TakenAt
<1>6. ASSUME NEW x \in DOMAIN mem PROVE out[x] \in Node
  <2>1. mem[x] \in Node
    BY DEF IsMem
  <2>2. Without(mem[x], {i}) \in Node
    BY <2>1 DEF Without, Node
  <2> HIDE DEF Without
  <2> QED BY <2>1, <2>2, <1>5
<1>7. IsMem(out)
  BY <1>4, <1>6 DEF IsMem
<1>8. ASSUME NEW k \in 1 .. L
      PROVE  ls[k] \in DOMAIN out /\ out[ls[k]] = [size |-> sz[k], next |-> At(ls, k + 1), mask |-> m2[k]]
  <2>1. CASE k = p
    <3>1. out[ls[k]] = Without(mem[ls[k]], {i})
      BY <2>1, <1>3, <1>5
    <3>2. Without([size |-> sz[k], next |-> At(ls, k + 1), mask |-> mk[k]], {i})
          = [size |-> sz[k], next |-> At(ls, k + 1), mask |-> mk[k] \ {i}]
      BY MaskIsTaken
    <3>3. mem[ls[k]] = [size |-> sz[k], next |-> At(ls, k + 1), mask |-> mk[k]]
      BY <1>1
    <3>4. out[ls[k]] = [size |-> sz[k], next |-> At(ls, k + 1), mask |-> mk[k] \ {i}]
      BY <3>1, <3>2, <3>3, Zenon
    <3> QED BY <3>4, <2>1, <1>1, <1>2, <1>4
  <2>2. CASE k # p
    <3>1. ls[k] # ls[p]
      BY <2>2 DEF Distinct
    <3>2. out[ls[k]] = mem[ls[k]]
      BY <3>1, <1>1, <1>5
    <3> QED BY <3>2, <2>2, <1>1, <1>2, <1>4
  <2> QED BY <2>1, <2>2
<1>9. Chain(out, ls, sz, m2)
  BY <1>0, <1>2, <1>8 DEF Chain
<1> QED BY <1>2, <1>7, <1>9 DEF m2

\* The report is read: the slot leaves its mask.
LEMMA ReadLoadIsSane ==
  ASSUME Sane, ~crashed, ReadLoad
  PROVE  ~crashed' /\ Sane'
<1> DEFINE i    == reading.slot
           u    == q.slot[i].uid
           node == reading.node
           left == reading.mask \ {i}
           out  == [q.mem EXCEPT ![node].mask = @ \ {i}]
<1>0. Types /\ Calls /\ Users
  BY DEF Sane
<1>1. /\ reading.step = "masked"
      /\ IF node \notin DOMAIN q.mem THEN Crash
         ELSE /\ q' = [q EXCEPT !.mem[node].mask = left]
              /\ reading' = [reading EXCEPT !.step = "loaded", !.mask = {}, !.next = q.mem[node].next]
              /\ owed' = [v \in User |-> IF v = u /\ owed[v] # <<>> THEN Tail(owed[v]) ELSE owed[v]]
              /\ UNCHANGED <<changing, freeing, crashed>>
  BY Zenon DEF ReadLoad
<1>1a. reading # NotReading /\ reading.step \in BeforeMask /\ reading.step \notin AfterMask /\ reading.step = "masked"
  BY <1>1 DEF NotReading, BeforeMask, AfterMask
<1>2. changing = NotChanging /\ ReadCall /\ Settled
  BY <1>0, <1>1a, TypeFacts DEF Calls
<1>3. InUse = 1 .. q.num /\ Left = {} /\ ~Gone
  BY <1>2 DEF InUse, Left, Gone, Settled
<1>4. PICK ls, sz, mk : Queued(ls, sz, mk)
  BY <1>3 DEF Sane
<1> DEFINE L == Len(ls)
<1>5. /\ i \in 1 .. q.num /\ i \in Slot /\ node = q.slot[i].msg /\ node \in Addr /\ 1 .. q.num \subseteq Slot
      /\ q.slot \in [Slot -> [uid : User \cup {NoUser}, msg : Pointer]] /\ IsRing(q)
  BY <1>0, <1>1a, <1>2, TypeFacts DEF Calls, ReadCall
<1>6. /\ ls \in Seq(Addr) /\ sz \in Seq(Sizes) /\ mk \in Seq(SUBSET Slot) /\ L \in Nat
      /\ Len(sz) = L /\ Len(mk) = L /\ Chain(q.mem, ls, sz, mk) /\ Holds(q, ls, sz, mk)
      /\ Laid(q.begin, ls, sz) /\ IsMem(q.mem)
  BY <1>4 DEF Queued, Holds, Chain, IsRing
<1>7. Distinct(ls)
  BY <1>6, LaidIsDistinct
<1>8. ASSUME NEW j \in 1 .. q.num PROVE Reads(ls, mk, j, Oldest[j], Due[j], 1)
  BY <1>4 DEF Queued, Serves
<1>9. PICK p \in 1 .. L : /\ node = ls[p] /\ node \in DOMAIN q.mem
                         /\ q.mem[node] = [size |-> sz[p], next |-> At(ls, p + 1), mask |-> mk[p]]
                         /\ Due[i] = Rest(ls, p)
                         /\ \A k \in 1 .. L : i \in mk[k] <=> k >= p
  <2>1. ReaderAt(ls, sz, mk)
    BY <1>0, <1>1a, <1>4, ReaderIsThere
  <2> QED BY <2>1, Zenon DEF ReaderAt
<1>10. p \in 1 .. L /\ node = ls[p] /\ reading.mask = mk[p]
  <2>1. PICK o \in 1 .. L : node = ls[o] /\ reading.mask = mk[o]
    BY <1>1a, <1>4 DEF Queued, Halfway
  <2>2. o = p
    BY <2>1, <1>7, <1>9 DEF Distinct
  <2> QED BY <2>1, <2>2, <1>9
<1>11. /\ node \in DOMAIN q.mem
       /\ q.mem[node] = [size |-> sz[p], next |-> At(ls, p + 1), mask |-> mk[p]]
  BY <1>9
<1>12. /\ q' = [q EXCEPT !.mem = out]
       /\ reading' = [reading EXCEPT !.step = "loaded", !.mask = {}, !.next = q.mem[node].next]
       /\ owed' = [v \in User |-> IF v = u /\ owed[v] # <<>> THEN Tail(owed[v]) ELSE owed[v]]
       /\ UNCHANGED <<changing, crashed>>
  <2>1. /\ q' = [q EXCEPT !.mem[node].mask = left]
        /\ reading' = [reading EXCEPT !.step = "loaded", !.mask = {}, !.next = q.mem[node].next]
        /\ owed' = [v \in User |-> IF v = u /\ owed[v] # <<>> THEN Tail(owed[v]) ELSE owed[v]]
        /\ UNCHANGED <<changing, crashed>>
    BY <1>1, <1>11, Zenon
  <2>2. q.mem[node].mask \ {i} = left
    BY <1>10, <1>11
  <2> HIDE DEF left
  <2>3. [q EXCEPT !.mem[node].mask = left] = [q EXCEPT !.mem = out]
    BY <2>2, Zenon
  <2> QED BY <2>1, <2>3, Zenon
<1> HIDE DEF out
<1>13. q' = [mem |-> out, first |-> q.first, begin |-> q.begin, end |-> q.end, size |-> q.size,
             slot |-> q.slot, num |-> q.num]
  BY <1>5, <1>12 DEF IsRing
<1>14. /\ q'.mem = out /\ q'.first = q.first /\ q'.begin = q.begin /\ q'.end = q.end /\ q'.size = q.size
       /\ q'.slot = q.slot /\ q'.num = q.num
       /\ q' = [mem |-> q'.mem, first |-> q'.first, begin |-> q'.begin, end |-> q'.end, size |-> q'.size,
                slot |-> q'.slot, num |-> q'.num]
  BY <1>13
<1>14a. PICK m2 : m2 = Taken(mk, p, i)
  OBVIOUS
<1>15. IsMem(out) /\ Chain(out, ls, sz, m2) /\ m2 \in Seq(SUBSET Slot) /\ Len(m2) = L
  <2>1. out = TakenAt(q.mem, ls[p], i)
    BY <1>10, Zenon DEF out, TakenAt
  <2> DEFINE mem == q.mem  t == Taken(mk, p, i)
  <2>2. IsMem(mem) /\ Chain(mem, ls, sz, mk) /\ p \in 1 .. Len(ls) /\ out = TakenAt(mem, ls[p], i)
    BY <2>1, <1>6, <1>10
  <2> HIDE DEF mem, i
  <2>3. IsMem(out) /\ Chain(out, ls, sz, t) /\ t \in Seq(SUBSET Slot) /\ Len(t) = Len(ls)
    BY <2>2, <1>7, TakenIsChain
  <2> QED BY <2>3, <1>14a
<1>16. \A k \in 1 .. L : m2[k] = IF k = p THEN mk[k] \ {i} ELSE mk[k]
  BY <1>6, <1>14a DEF Taken
<1>17. IsRing(q')
  BY <1>5, <1>14, <1>15, Zenon DEF IsRing
<1>18. Holds(q', ls, sz, m2)
  BY <1>6, <1>14, <1>15, <1>17, Zenon DEF Holds
<1>19. At(ls, p + 1) \in Pointer
  <2>1. ASSUME p + 1 <= L PROVE ls[p + 1] \in Addr
    BY <2>1, <1>6, <1>10
  <2> QED BY <2>1 DEF At, Pointer
<1>20. /\ reading'.slot = i /\ reading'.node = node /\ reading'.next = At(ls, p + 1) /\ reading'.step = "loaded"
       /\ reading' \in ReadRecord /\ reading'.step \in AfterMask /\ reading'.step \notin BeforeMask
  <2>1. q.mem[node].next = At(ls, p + 1)
    BY <1>11
  <2>2. reading' = [reading EXCEPT !.step = "loaded", !.mask = {}, !.next = At(ls, p + 1)]
    BY <2>1, <1>12
  <2>3. reading \in ReadRecord
    BY <1>0, <1>1a DEF Types
  <2> QED BY <2>2, <2>3, <1>19 DEF ReadRecord, BeforeMask, AfterMask
<1>21. u \in User /\ \A j \in 1 .. q.num : q.slot[j].uid \in User /\ (q.slot[j].uid = u => j = i)
  <2>1. ASSUME NEW j \in 1 .. q.num PROVE q.slot[j].uid \in User
    <3>1. j \in Occupied(q.slot) /\ j \in Slot
      BY <1>0, <1>3, <1>5 DEF Users
    <3> QED BY <3>1, <1>5 DEF Occupied
  <2> QED BY <2>1, <1>0, <1>3, <1>5 DEF Users
<1>22. owed[u] = Rest(ls, p) /\ owed'[u] = Rest(ls, p + 1)
  <2>1. owed[u] = Rest(ls, p)
    BY <1>9, <1>5 DEF Due
  <2>2. Tail(Rest(ls, p)) = Rest(ls, p + 1) /\ Rest(ls, p) # <<>>
    BY <1>6, <1>10, TailIsRest
  <2>3. owed'[u] = IF owed[u] # <<>> THEN Tail(owed[u]) ELSE owed[u]
    BY <1>12, <1>21
  <2> QED BY <2>1, <2>2, <2>3
<1>23. \A v \in User : v # u => owed'[v] = owed[v]
  BY <1>12
<1>24. Rest(ls, p + 1) \in Seq(Addr)
  <2> DEFINE o == p + 1
  <2>1. o \in 1 .. L + 1
    BY <1>6, <1>10
  <2> HIDE DEF o
  <2>2. Rest(ls, o) \in Seq(Addr)
    BY <2>1, <1>6, RestFacts
  <2> QED BY <2>2 DEF o
<1> HIDE DEF i, u, node
<1>25. Types'
  <2>1. \A v \in User : owed'[v] \in Seq(Addr)
    <3> TAKE v \in User
    <3>1. CASE v = u
      BY <3>1, <1>22, <1>24
    <3>2. CASE v # u
      BY <3>2, <1>23, <1>0 DEF Types
    <3> QED BY <3>1, <3>2
  <2>2. owed' = [v \in User |-> owed'[v]]
    BY <1>12
  <2>3. changing' = changing
    BY <1>12
  <2> QED BY <2>1, <2>2, <2>3, <1>0, <1>14, <1>17, <1>20 DEF Types
<1>26. changing' = changing /\ crashed' = crashed
  BY <1>12
<1>27. Calls'
  BY <1>26, <1>0, <1>2, <1>5, <1>14, <1>20 DEF Calls, Settled
<1>28. InUse' = 1 .. q.num /\ Left' = {}
  BY <1>2, <1>14, <1>26 DEF InUse, Left, Settled
<1>29. Users'
  <2>1. ASSUME NEW v \in User, owed'[v] # <<>> PROVE \E j \in 1 .. q'.num : q'.slot[j].uid = v
    <3>1. CASE v = u
      BY <3>1, <1>5, <1>14 DEF u
    <3>2. CASE v # u
      BY <3>2, <2>1, <1>23, <1>0, <1>14 DEF Users
    <3> QED BY <3>1, <3>2
  <2> QED BY <2>1, <1>0, <1>3, <1>14, <1>28 DEF Users
<1>30. ASSUME NEW j \in 1 .. q.num PROVE Reads(ls, m2, j, Oldest'[j], Due'[j], 1)
  <2>1. j \in Slot /\ q'.slot[j] = q.slot[j]
    BY <1>5, <1>14
  <2>2. CASE j = i
    <3>0. p \in Nat /\ L \in Nat
      BY <1>6, <1>10
    <3>1. Oldest'[j] = At(ls, p + 1) /\ Due'[j] = Rest(ls, p + 1)
      <4>1. Oldest'[j] = reading'.next
        BY <2>1, <2>2, <1>20, SMT DEF Oldest, Unread
      <4>2. Due'[j] = owed'[u]
        BY <2>1, <2>2 DEF Due, u
      <4> QED BY <4>1, <4>2, <1>20, <1>22
    <3>2. ASSUME NEW k \in 1 .. L PROVE j \in m2[k] <=> k >= p + 1
      <4>1. CASE k = p
        <5>1. m2[k] = mk[k] \ {i} /\ ~(k >= p + 1)
          <6>1. m2[k] = mk[k] \ {i}
            BY <4>1, <1>16, Zenon
          <6>2. ~(k >= p + 1)
            BY <4>1, <3>0
          <6> QED BY <6>1, <6>2
        <5> QED BY <5>1, <2>2
      <4>2. CASE k # p
        <5>1. m2[k] = mk[k] /\ (k >= p <=> k >= p + 1)
          <6>1. m2[k] = mk[k]
            BY <4>2, <1>16, Zenon
          <6>2. k >= p <=> k >= p + 1
            BY <4>2, <3>0
          <6> QED BY <6>1, <6>2
        <5> QED BY <5>1, <2>2, <1>9
      <4> QED BY <4>1, <4>2
    <3>3. p + 1 \in 1 .. L + 1
      BY <1>6, <1>10
    <3> QED BY <3>1, <3>2, <3>3 DEF Reads
  <2>3. CASE j # i
    <3>1. Oldest'[j] = Oldest[j]
      <4>1. Oldest'[j] = q'.slot[j].msg
        BY <2>1, <2>3, <1>20, SMT DEF Oldest, Unread
      <4>2. Oldest[j] = q.slot[j].msg
        BY <2>1, <1>1a, SMT DEF Oldest, Unread
      <4> QED BY <4>1, <4>2, <2>1
    <3>2. Due'[j] = Due[j]
      <4>1. q.slot[j].uid \in User /\ q.slot[j].uid # u
        BY <2>3, <1>21
      <4> QED BY <4>1, <2>1, <1>23 DEF Due
    <3>3. \A k \in 1 .. L : j \in m2[k] <=> j \in mk[k]
      BY <2>3, <1>16
    <3>4. Reads(ls, mk, j, Oldest[j], Due[j], 1)
      BY <1>8
    <3> QED BY <3>1, <3>2, <3>3, <3>4 DEF Reads
  <2> QED BY <2>2, <2>3
<1>31. ASSUME NEW k \in 1 .. L
       PROVE  mk[k] # {} /\ mk[k] \subseteq 1 .. q.num /\ m2[k] \subseteq mk[k]
  <2>1. mk[k] # {} /\ mk[k] \subseteq 1 .. q.num
    BY <1>1a, <1>3, <1>4, <1>6 DEF Queued, Masked
  <2> QED BY <2>1, <1>16
<1>32. Masked(ls, m2)'
  <2>1. ASSUME NEW k \in 1 .. L, m2[k] = {} PROVE k = 1 /\ node = ls[1]
    <3>1. k = p /\ mk[p] \subseteq {i}
      BY <2>1, <1>16, <1>31
    <3>2. CASE p = 1
      BY <3>1, <3>2, <1>10
    <3>3. CASE p # 1
      <4>1. p - 1 \in 1 .. L
        BY <3>3, <1>10, <1>6
      <4>2. PICK j \in mk[p - 1] : TRUE
        BY <4>1, <1>31
      <4>3. j \in 1 .. q.num
        BY <4>1, <4>2, <1>31
      <4>4. PICK o \in 1 .. L + 1 : \A x \in 1 .. L : j \in mk[x] <=> x >= o
        BY <4>3, <1>8 DEF Reads
      <4>5. j \in mk[p]
        <5>1. p - 1 >= o
          BY <4>1, <4>2, <4>4
        <5>2. p >= o
          BY <5>1, <1>10
        <5> QED BY <5>2, <4>4, <1>10
      <4>6. j = i
        BY <4>5, <3>1
      <4>7. p - 1 >= p
        BY <4>1, <4>2, <4>6, <1>9
      <4> QED BY <4>7, <1>10, <1>6
    <3> QED BY <3>2, <3>3
  <2> QED BY <2>1, <1>14, <1>15, <1>20, <1>28, <1>31 DEF Masked
<1>33. Spacious(q'.begin, ls, m2, MaxUser)
  <2>1. ASSUME NEW k \in 1 .. L PROVE Cardinality(m2[k]) + 0 <= Cardinality(mk[k])
    <3>1. mk[k] \subseteq Slot /\ m2[k] \in SUBSET mk[k]
      BY <1>6, <1>31
    <3>2. Cardinality(m2[k]) \in Nat /\ Cardinality(m2[k]) <= Cardinality(mk[k])
      BY <3>1, MaskIsFinite
    <3> QED BY <3>2
  <2>2. Spacious(q.begin, ls, mk, MaxUser)
    BY <1>4 DEF Queued
  <2>3. MaxUser \in Int /\ MaxUser - 0 = MaxUser /\ 0 \in Nat
    BY ConstantsAreInt
  <2>4. Spacious(q.begin, ls, m2, MaxUser - 0)
    BY <2>1, <2>2, <2>3, <1>6, <1>15, FewerAreSpacious
  <2> QED BY <2>3, <2>4, <1>14
<1>34. Queued(ls, sz, m2)'
  <2>1. q'.num = 0 => ls = <<>>
    BY <1>4, <1>14 DEF Queued
  <2>2. Serves(ls, m2, 1 .. q'.num, Oldest', Due', 1)
    BY <1>14, <1>30 DEF Serves
  <2>3. ~(changing'.step \in {"found", "vacated"}) /\ Halfway(ls, m2)'
    BY <1>2, <1>20, <1>26 DEF Settled, Halfway
  <2> QED BY <1>18, <1>32, <1>33, <2>1, <2>2, <2>3 DEF Queued
<1> QED BY <1>25, <1>26, <1>27, <1>29, <1>34, Zenon DEF Sane

\* A slot is pointed at another node.
PointedAt(slot, i, a) == [slot EXCEPT ![i].msg = a]

\* An entry of the table is what it consists of.
LEMMA EntryIs ==
  ASSUME NEW S, NEW P, NEW x \in [uid : S, msg : P], NEW a
  PROVE  [x EXCEPT !.msg = a] = [uid |-> x.uid, msg |-> a]
  OBVIOUS

\* A slot's pointer is set.
LEMMA PointedIs ==
  ASSUME NEW slot \in [Slot -> [uid : User \cup {NoUser}, msg : Pointer]], NEW i \in Slot, NEW a \in Pointer
  PROVE  /\ PointedAt(slot, i, a) \in [Slot -> [uid : User \cup {NoUser}, msg : Pointer]]
         /\ PointedAt(slot, i, a)[i].msg = a
         /\ \A j \in Slot : /\ PointedAt(slot, i, a)[j].uid = slot[j].uid
                            /\ j # i => PointedAt(slot, i, a)[j] = slot[j]
<1> DEFINE e == [uid |-> slot[i].uid, msg |-> a]
<1>1. PointedAt(slot, i, a) = [slot EXCEPT ![i] = e]
  <2>1. slot[i] \in [uid : User \cup {NoUser}, msg : Pointer]
    OBVIOUS
  <2>2. [slot[i] EXCEPT !.msg = a] = e
    BY <2>1, EntryIs, Zenon
  <2> QED BY <2>2, Zenon DEF PointedAt
<1>2. e \in [uid : User \cup {NoUser}, msg : Pointer] /\ e.uid = slot[i].uid /\ e.msg = a
  OBVIOUS
<1> HIDE DEF e
<1> QED BY <1>1, <1>2

\* The oldest node is freed if nobody reads it any more, or nothing is.
FreedAs(r, d, ls, sz, mk) ==
    \E m \in 1 .. Len(ls) + 1 :
        /\ \A k \in 1 .. m - 1 : mk[k] = {}
        /\ \A k \in m .. Len(ls) : mk[k] # {}
        /\ Holds(d, Rest(ls, m), Rest(sz, m), Rest(mk, m))
        /\ d.slot = r.slot /\ d.num = r.num
        /\ m <= Len(ls) => d.begin = r.begin

\* From its first element on a sequence is whole.
LEMMA FirstRestIsAll ==
  ASSUME NEW S, NEW s \in Seq(S)
  PROVE  Rest(s, 1) = s
<1>1. 1 \in 1 .. Len(s) + 1 /\ Len(s) \in Nat
  OBVIOUS
<1>2. Rest(s, 1) \in Seq(S) /\ Len(Rest(s, 1)) = Len(s) - 1 + 1 /\ \A k \in 1 .. Len(s) - 1 + 1 : Rest(s, 1)[k] = s[k + 1 - 1]
  BY <1>1, RestFacts
<1>3. Len(s) - 1 + 1 = Len(s) /\ \A k \in 1 .. Len(s) : k + 1 - 1 = k
  BY <1>1
<1>4. Len(Rest(s, 1)) = Len(s) /\ \A k \in 1 .. Len(s) : Rest(s, 1)[k] = s[k]
  BY <1>2, <1>3
<1> QED BY <1>2, <1>4, SeqsAreEqual

\* A node that has been read by all is off the list, and no other is.
LEMMA FreedIs ==
  ASSUME NEW r, NEW ls, NEW sz, NEW mk, Holds(r, ls, sz, mk), NEW node \in Addr,
         \A k \in 1 .. Len(ls) : mk[k] = {} => k = 1 /\ node = ls[1], NEW d,
         d = (LET next == r.mem[node].next
              IN  CASE ~IsFree(r, node) -> r
                    [] IsFree(r, node) /\ next = Null -> Emptied(r)
                    [] OTHER -> [r EXCEPT !.first = next, !.end = ByteBefore(next),
                                          !.size = IdleSize(r.begin, ByteBefore(next))])
  PROVE  FreedAs(r, d, ls, sz, mk)
<1> DEFINE L == Len(ls)
<1>0. /\ ls \in Seq(Addr) /\ sz \in Seq(Sizes) /\ mk \in Seq(SUBSET Slot) /\ L \in Nat
      /\ Len(sz) = L /\ Len(mk) = L /\ Chain(r.mem, ls, sz, mk) /\ Laid(r.begin, ls, sz)
      /\ IsRing(r) /\ IsMem(r.mem) /\ r.first = At(ls, 1)
  BY DEF Holds, Chain, IsRing
<1>1. r.first = node => L >= 1 /\ node = ls[1] /\ r.mem[node] = [size |-> sz[1], next |-> At(ls, 2), mask |-> mk[1]]
  <2> HAVE r.first = node
  <2>1. node # Null
    BY ConstantsAreInt DEF Addr, Null
  <2>2. 1 \in 1 .. L /\ node = ls[1]
    BY <2>1, <1>0 DEF At
  <2>3. r.mem[ls[1]] = [size |-> sz[1], next |-> At(ls, 1 + 1), mask |-> mk[1]]
    BY <2>2, <1>0 DEF Chain
  <2> QED BY <2>2, <2>3
<1>2. CASE ~IsFree(r, node)
  <2>1. d = r
    BY <1>2
  <2>2. \A k \in 1 .. L : mk[k] # {}
    <3> SUFFICES ASSUME NEW k \in 1 .. L, mk[k] = {} PROVE FALSE
      OBVIOUS
    <3>1. k = 1 /\ node = ls[1] /\ 1 <= L
      OBVIOUS
    <3>2. r.first = node
      BY <3>1, <1>0 DEF At
    <3>3. r.mem[node].mask = {}
      BY <3>1, <3>2, <1>1
    <3> QED BY <3>2, <3>3, <1>2 DEF IsFree
  <2>3. Rest(ls, 1) = ls /\ Rest(sz, 1) = sz /\ Rest(mk, 1) = mk
    BY <1>0, FirstRestIsAll
  <2>4. 1 \in 1 .. L + 1 /\ \A k \in 1 .. 1 - 1 : mk[k] = {}
    BY <1>0
  <2> QED BY <2>1, <2>2, <2>3, <2>4 DEF FreedAs
<1>3. CASE IsFree(r, node)
  <2>1. L >= 1 /\ node = ls[1] /\ r.mem[node] = [size |-> sz[1], next |-> At(ls, 2), mask |-> mk[1]]
    BY <1>1, <1>3 DEF IsFree
  <2>2. mk[1] = {} /\ r.mem[node].next = At(ls, 2)
    <3>1. r.mem[node].mask = {}
      BY <1>3 DEF IsFree
    <3> QED BY <2>1, <3>1
  <2>3. d = IF At(ls, 2) = Null THEN Emptied(r)
            ELSE [r EXCEPT !.first = At(ls, 2), !.end = ByteBefore(At(ls, 2)),
                           !.size = IdleSize(r.begin, ByteBefore(At(ls, 2)))]
    BY <1>3, <2>2, Zenon
  <2>4. At(ls, 2) = Null <=> ~(2 <= L)
    <3>1. CASE 2 <= L
      <4>1. ls[2] \in Addr
        BY <3>1, <1>0
      <4> QED BY <3>1, <4>1, ConstantsAreInt DEF At, Addr, Null
    <3>2. CASE ~(2 <= L)
      BY <3>2 DEF At
    <3> QED BY <3>1, <3>2
  <2>5. r = [r EXCEPT !.mem = r.mem]
    BY <1>0 DEF IsRing
  <2>6. d = Dropped(r, r.mem, ls, 2)
    <3>1. CASE 2 <= L
      <4>1. d = [r EXCEPT !.first = ls[2], !.end = ByteBefore(ls[2]), !.size = IdleSize(r.begin, ByteBefore(ls[2]))]
        BY <3>1, <2>3, <2>4 DEF At
      <4>2. Dropped(r, r.mem, ls, 2) = [r EXCEPT !.mem = r.mem, !.first = ls[2], !.end = ByteBefore(ls[2]),
                                                 !.size = IdleSize(r.begin, ByteBefore(ls[2]))]
        BY <3>1 DEF Dropped
      <4> QED BY <4>1, <4>2, <1>0 DEF IsRing
    <3>2. CASE ~(2 <= L)
      <4>1. d = Emptied(r)
        BY <3>2, <2>3, <2>4
      <4>2. Dropped(r, r.mem, ls, 2) = Emptied([r EXCEPT !.mem = r.mem])
        BY <3>2 DEF Dropped
      <4> QED BY <4>1, <4>2, <2>5
    <3> QED BY <3>1, <3>2
  <2>7. 2 \in 1 .. L + 1
    BY <2>1, <1>0
  <2>8. /\ Holds(d, Rest(ls, 2), Rest(sz, 2), Rest(mk, 2))
        /\ d.slot = r.slot /\ d.num = r.num
        /\ 2 <= L => d.begin = r.begin
    BY <1>0, <2>6, <2>7, DroppedHolds
  <2>9. /\ \A k \in 1 .. 2 - 1 : mk[k] = {}
        /\ \A k \in 2 .. L : mk[k] # {}
    <3>1. \A k \in 2 .. L : k \in 1 .. L /\ k # 1
      BY <1>0
    <3>2. \A k \in 1 .. 2 - 1 : k = 1
      OBVIOUS
    <3> QED BY <3>1, <3>2, <2>2
  <2> QED BY <2>7, <2>8, <2>9 DEF FreedAs
<1> QED BY <1>2, <1>3

\* There is no less room when nodes leave the list.
LEMMA RestStaysSpacious ==
  ASSUME NEW b, NEW ls \in Seq(Addr), NEW sz \in Seq(Sizes), Len(sz) = Len(ls), Laid(b, ls, sz),
         NEW mk \in Seq(SUBSET Slot), Len(mk) = Len(ls), NEW u, Spacious(b, ls, mk, u),
         NEW m \in 1 .. Len(ls) + 1, NEW c, m <= Len(ls) => c = b
  PROVE  Spacious(c, Rest(ls, m), Rest(mk, m), u)
<1>1. CASE m <= Len(ls)
  <2>1. m \in 1 .. Len(ls)
    BY <1>1
  <2>2. Spacious(b, Rest(ls, m), Rest(mk, m), u)
    BY <2>1, RestIsSpacious
  <2> QED BY <2>2, <1>1
<1>2. CASE ~(m <= Len(ls))
  <2>1. m = Len(ls) + 1
    BY <1>2
  <2>2. Rest(ls, m) = <<>>
    BY <2>1, RestIsEmpty
  <2> QED BY <2>2 DEF Spacious
<1> QED BY <1>1, <1>2

\* The user's next report is stored.
LEMMA ReadStoreIsSane ==
  ASSUME Sane, ~crashed, ReadStore
  PROVE  ~crashed' /\ Sane'
<1> DEFINE i    == reading.slot
           slot == PointedAt(q.slot, i, reading.next)
<1>0. Types /\ Calls /\ Users
  BY DEF Sane
<1>1. /\ reading.step = "loaded" /\ q' = [q EXCEPT !.slot[i].msg = reading.next]
      /\ reading' = [reading EXCEPT !.step = "stored"] /\ UNCHANGED <<changing, freeing, owed, spoilt, crashed>>
  BY Zenon DEF ReadStore
<1>1a. reading.step = "loaded" /\ reading' = [reading EXCEPT !.step = "stored"]
  BY <1>1
<1>2. reading # NotReading /\ changing = NotChanging /\ ReadCall /\ Settled
  <2>1. reading # NotReading
    BY <1>1a DEF NotReading
  <2>2. changing = NotChanging
    BY <2>1, <1>0 DEF Calls
  <2> QED BY <2>1, <2>2, <1>0, TypeFacts
<1>3. InUse = 1 .. q.num /\ Left = {} /\ ~Gone
  BY <1>2 DEF InUse, Left, Gone, Settled
<1>4. PICK ls, sz, mk : Queued(ls, sz, mk)
  BY <1>3 DEF Sane
<1>5. /\ i \in Slot /\ reading.next \in Pointer
      /\ 1 .. q.num \subseteq Slot /\ q.num \in 0 .. MaxUser
      /\ q.slot \in [Slot -> [uid : User \cup {NoUser}, msg : Pointer]] /\ IsRing(q)
  BY <1>0, <1>2, TypeFacts, ConstantsAreInt DEF ReadCall
<1>6. Holds(q, ls, sz, mk)
  BY <1>4 DEF Queued
<1>7. /\ slot \in [Slot -> [uid : User \cup {NoUser}, msg : Pointer]] /\ slot[i].msg = reading.next
      /\ \A j \in Slot : slot[j].uid = q.slot[j].uid /\ (j # i => slot[j] = q.slot[j])
  BY <1>5, PointedIs, ZenonT(40)
<1>8. q' = [mem |-> q.mem, first |-> q.first, begin |-> q.begin, end |-> q.end, size |-> q.size,
            slot |-> slot, num |-> q.num]
  <2>1. q' = [q EXCEPT !.slot = slot]
    BY <1>1, Zenon DEF PointedAt
  <2> HIDE DEF slot
  <2> QED BY <2>1, <1>5 DEF IsRing
<1> HIDE DEF slot
<1>9. q'.slot = slot /\ q'.num = q.num /\ q'.begin = q.begin /\ q'.end = q.end /\ q'.size = q.size
  BY <1>8
<1>10. Holds(q', ls, sz, mk)
  BY <1>5, <1>6, <1>7, <1>8, SlotsAreSet
<1>11. changing' = changing /\ owed' = owed /\ crashed' = crashed
  BY <1>1
<1>12. /\ reading'.step = "stored" /\ reading'.node = reading.node /\ reading' \in ReadRecord
       /\ reading'.step \notin BeforeMask /\ reading'.step \in AfterMask
  <2>1. reading \in ReadRecord
    BY <1>0, <1>2 DEF Types
  <2> QED BY <2>1, <1>1a DEF ReadRecord, BeforeMask, AfterMask
<1>13. Types' /\ Calls'
  <2>1. IsRing(q')
    BY <1>10 DEF Holds
  <2>2. Types'
    BY <2>1, <1>0, <1>9, <1>11, <1>12 DEF Types
  <2> QED BY <2>2, <1>2, <1>11, <1>12 DEF Calls, Settled
<1>14. InUse' = 1 .. q.num /\ Left' = {}
  BY <1>2, <1>9, <1>11 DEF InUse, Left, Settled
<1>15. Users'
  <2>1. \A j \in Slot : q'.slot[j].uid = q.slot[j].uid
    BY <1>7, <1>9
  <2>2. Occupied(q'.slot) = Occupied(q.slot)
    BY <2>1 DEF Occupied
  <2> QED BY <2>1, <2>2, <1>0, <1>3, <1>5, <1>9, <1>11, <1>14 DEF Users
<1>16. ASSUME NEW j \in 1 .. q.num PROVE Oldest'[j] = Oldest[j] /\ Due'[j] = Due[j]
  <2>0. j \in Slot
    BY <1>5
  <2>1. Oldest'[j] = q'.slot[j].msg
    BY <2>0, <1>12, SMT DEF Oldest, Unread
  <2>2. Oldest[j] = IF i = j THEN reading.next ELSE q.slot[j].msg
    BY <2>0, <1>1a, SMT DEF Oldest, Unread
  <2>3. Oldest'[j] = Oldest[j]
    BY <2>0, <2>1, <2>2, <1>7, <1>9
  <2>4. Due'[j] = Due[j]
    BY <2>0, <1>7, <1>9, <1>11 DEF Due
  <2> QED BY <2>3, <2>4
<1>17. Queued(ls, sz, mk)'
  <2>1. Masked(ls, mk)'
    BY <1>3, <1>4, <1>9, <1>12, <1>14 DEF Queued, Masked
  <2>2. Serves(ls, mk, 1 .. q'.num, Oldest', Due', 1)
    BY <1>4, <1>9, <1>16 DEF Queued, Serves
  <2>3. ~(changing'.step \in {"found", "vacated"}) /\ Halfway(ls, mk)'
    BY <1>2, <1>11, <1>12 DEF Settled, Halfway
  <2> QED BY <2>1, <2>2, <2>3, <1>4, <1>9, <1>10 DEF Queued
<1> QED BY <1>11, <1>13, <1>15, <1>17, Zenon DEF Sane

\* The ring after a read, without the nodes nobody reads any more.
LEMMA FreedRests ==
  ASSUME Types, Users, changing = NotChanging, reading.step # "loaded",
         NEW ls, NEW sz, NEW mk, Queued(ls, sz, mk), NEW d, FreedAs(q, d, ls, sz, mk)
  PROVE  Rests(d, owed)
<1> DEFINE L == Len(ls)
<1>1. Settled /\ InUse = 1 .. q.num /\ Left = {}
  <2>1. Settled
    BY TypeFacts
  <2> QED BY <2>1 DEF InUse, Left, Settled
<1>2. /\ 1 .. q.num \subseteq Slot /\ q.num \in Nat
  BY TypeFacts
<1>3. /\ ls \in Seq(Addr) /\ sz \in Seq(Sizes) /\ mk \in Seq(SUBSET Slot) /\ L \in Nat
      /\ Len(sz) = L /\ Len(mk) = L /\ Holds(q, ls, sz, mk) /\ Laid(q.begin, ls, sz)
  BY DEF Queued, Holds, Chain
<1>4. \A k \in 1 .. L : mk[k] \subseteq 1 .. q.num
  BY <1>1, <1>3 DEF Queued, Masked
<1>5. PICK m \in 1 .. L + 1 :
          /\ \A k \in 1 .. m - 1 : mk[k] = {}
          /\ \A k \in m .. L : mk[k] # {}
          /\ Holds(d, Rest(ls, m), Rest(sz, m), Rest(mk, m))
          /\ d.slot = q.slot /\ d.num = q.num
          /\ m <= L => d.begin = q.begin
  BY DEF FreedAs
<1>6. PICK l2, s2, m2 : l2 = Rest(ls, m) /\ s2 = Rest(sz, m) /\ m2 = Rest(mk, m)
  OBVIOUS
<1>7. Holds(d, l2, s2, m2) /\ d.slot = q.slot /\ d.num = q.num /\ (m <= L => d.begin = q.begin)
  BY <1>5, <1>6
<1>8. ASSUME NEW j \in 1 .. q.num PROVE Reads(l2, m2, j, q.slot[j].msg, owed[q.slot[j].uid], 1)
  <2>0. j \in Slot
    BY <1>2
  <2>1. PICK p \in 1 .. L + 1 : /\ Oldest[j] = At(ls, p) /\ Due[j] = Rest(ls, p)
                                /\ \A k \in 1 .. L : j \in mk[k] <=> k >= p
    BY DEF Queued, Serves, Reads
  <2>2. p >= m
    <3> SUFFICES ASSUME ~(p >= m) PROVE FALSE
      OBVIOUS
    <3>1. p \in 1 .. m - 1 /\ p \in 1 .. L /\ p >= p
      BY <1>3
    <3> QED BY <3>1, <2>1, <1>5
  <2>3. p \in m .. L + 1
    BY <2>2, <1>3
  <2>4. Oldest[j] = q.slot[j].msg /\ Due[j] = owed[q.slot[j].uid]
    BY <2>0, SMT DEF Oldest, Due, Unread
  <2>5. Reads(ls, mk, j, Oldest[j], Due[j], m)
    BY <2>1, <2>3 DEF Reads
  <2>6. Reads(l2, m2, j, Oldest[j], Due[j], 1)
    BY <2>5, <1>3, <1>6, ReadsRest
  <2> QED BY <2>4, <2>6
<1>9. d.num = 0 => l2 = <<>>
  <2> HAVE d.num = 0
  <2>1. ls = <<>>
    BY <1>7 DEF Queued
  <2>2. m = Len(ls) + 1
    BY <2>1, <1>5
  <2> QED BY <2>2, <1>3, <1>6, RestIsEmpty
<1>10. Spacious(d.begin, l2, m2, MaxUser)
  <2>1. Spacious(q.begin, ls, mk, MaxUser)
    BY DEF Queued
  <2> QED BY <2>1, <1>3, <1>6, <1>7, RestStaysSpacious
<1>11. Manned(m2, 1 .. q.num)
  <2>1. Len(m2) = L - m + 1 /\ \A k \in 1 .. L - m + 1 : m2[k] = mk[k + m - 1]
    <3>1. m \in 1 .. Len(mk) + 1
      BY <1>3
    <3>2. Len(m2) = Len(mk) - m + 1 /\ \A k \in 1 .. Len(mk) - m + 1 : m2[k] = mk[k + m - 1]
      BY <3>1, <1>3, <1>6, RestFacts
    <3> QED BY <3>2, <1>3
  <2>2. ASSUME NEW k \in 1 .. Len(m2) PROVE m2[k] \subseteq 1 .. q.num /\ m2[k] # {}
    <3> DEFINE x == k + m - 1
    <3>1. x \in 1 .. L /\ x \in m .. L
      BY <2>1, <1>3
    <3>2. m2[k] = mk[x]
      BY <2>1
    <3> HIDE DEF x
    <3> QED BY <3>1, <3>2, <1>4, <1>5
  <2> QED BY <2>2 DEF Manned
<1>12. Serves(l2, m2, 1 .. d.num, [i \in Slot |-> d.slot[i].msg], [i \in Slot |-> owed[d.slot[i].uid]], 1)
  BY <1>2, <1>7, <1>8 DEF Serves
<1>13. /\ Occupied(d.slot) = 1 .. d.num
       /\ \A i, j \in 1 .. d.num : d.slot[i].uid = d.slot[j].uid => i = j
       /\ \A u \in User : owed[u] # <<>> => \E i \in 1 .. d.num : d.slot[i].uid = u
  BY <1>1, <1>7 DEF Users
<1>14. IsRing(d) /\ owed = [u \in User |-> owed[u]] /\ \A u \in User : owed[u] \in Seq(Addr)
  BY <1>7 DEF Holds, Types
<1>15. \E l, z, k : /\ Holds(d, l, z, k) /\ (d.num = 0 => l = <<>>) /\ Spacious(d.begin, l, k, MaxUser)
                    /\ Manned(k, 1 .. d.num)
                    /\ Serves(l, k, 1 .. d.num, [i \in Slot |-> d.slot[i].msg], [i \in Slot |-> owed[d.slot[i].uid]], 1)
  <2>1. Manned(m2, 1 .. d.num)
    BY <1>7, <1>11
  <2> QED BY <2>1, <1>7, <1>9, <1>10, <1>12, Zenon
<1> QED BY <1>13, <1>14, <1>15, Zenon DEF Rests

\* A ring at rest is sane.
LEMMA RestIsSane ==
  ASSUME NEW r, Rests(r, owed), q' = Collected(r, {}), owed' = owed, reading' = NotReading, changing' = NotChanging
  PROVE  Sane'
<1>1. PICK ls, sz, mk :
         /\ Holds(r, ls, sz, mk) /\ (r.num = 0 => ls = <<>>) /\ Spacious(r.begin, ls, mk, MaxUser)
         /\ Manned(mk, 1 .. r.num)
         /\ Serves(ls, mk, 1 .. r.num, [i \in Slot |-> r.slot[i].msg], [i \in Slot |-> owed[r.slot[i].uid]], 1)
  BY Zenon DEF Rests
<1>2. /\ Occupied(r.slot) = 1 .. r.num
      /\ \A i, j \in 1 .. r.num : r.slot[i].uid = r.slot[j].uid => i = j
      /\ \A u \in User : owed[u] # <<>> => \E i \in 1 .. r.num : r.slot[i].uid = u
      /\ owed = [u \in User |-> owed[u]] /\ \A u \in User : owed[u] \in Seq(Addr)
      /\ r.num \in 0 .. MaxUser
  BY Zenon DEF Rests, IsRing
<1>3. Holds(q', ls, sz, mk) /\ q'.slot = r.slot /\ q'.num = r.num /\ q'.begin = r.begin
  <2>1. {} \subseteq Pointer
    OBVIOUS
  <2> QED BY <2>1, <1>1, CollectedHolds
<1>4. /\ reading'.step = "none" /\ reading'.step \notin BeforeMask
      /\ changing'.step = "none"
  BY DEF NotReading, NotChanging, BeforeMask
<1>5. Types'
  <2>1. IsRing(q') /\ q'.size = IdleSize(q'.begin, q'.end)
    BY <1>3 DEF Holds
  <2> QED BY <2>1, <1>2 DEF Types
<1>6. Calls'
  BY <1>4 DEF Calls
<1>7. InUse' = 1 .. r.num /\ Left' = {}
  BY <1>3, <1>4 DEF InUse, Left
<1>8. Users'
  BY <1>2, <1>3, <1>7 DEF Users
<1>9. ASSUME NEW j \in 1 .. r.num PROVE j \in Slot /\ Oldest'[j] = r.slot[j].msg /\ Due'[j] = owed[r.slot[j].uid]
  <2>1. j \in Slot
    BY <1>2, SlotIsNotZero, ConstantsAreInt
  <2>2. Unread(j)' = q'.slot[j].msg
    BY <1>4, SMT DEF Unread
  <2> QED BY <2>1, <2>2, <1>3 DEF Oldest, Due
<1>10. Queued(ls, sz, mk)'
  <2>1. Serves(ls, mk, 1 .. q'.num, Oldest', Due', 1)
    BY <1>1, <1>3, <1>9 DEF Serves
  <2>2. Masked(ls, mk)'
    BY <1>1, <1>3, <1>7 DEF Masked, Manned
  <2>3. ~(changing'.step \in {"found", "vacated"}) /\ Halfway(ls, mk)'
    BY <1>4 DEF Halfway
  <2> QED BY <2>1, <2>2, <2>3, <1>1, <1>3 DEF Queued
<1> QED BY <1>5, <1>6, <1>8, <1>10, Zenon DEF Sane

\* Who frees the oldest report loads the next one; nobody else's read is the last.
LEMMA ReadTestIsSane ==
  ASSUME Sane, ~crashed, ReadTest
  PROVE  ~crashed' /\ Sane'
<1> DEFINE node == reading.node
<1>0. Types /\ Calls /\ Users
  BY DEF Sane
<1>1. /\ reading.step = "stored"
      /\ IF IsFree(q, node)
         THEN reading' = [reading EXCEPT !.step = "freed", !.next = q.mem[node].next] /\ UNCHANGED q
         ELSE reading' = NotReading /\ q' = Collected(q, {})
      /\ changing' = changing /\ owed' = owed /\ crashed' = crashed
  BY Zenon DEF ReadTest
<1>2. reading # NotReading /\ changing = NotChanging /\ ReadCall /\ Settled
  <2>1. reading # NotReading
    BY <1>1 DEF NotReading
  <2>2. changing = NotChanging
    BY <2>1, <1>0 DEF Calls
  <2> QED BY <2>1, <2>2, <1>0, TypeFacts
<1>3. InUse = 1 .. q.num /\ Left = {} /\ ~Gone
  BY <1>2 DEF InUse, Left, Gone, Settled
<1>4. PICK ls, sz, mk : Queued(ls, sz, mk)
  BY <1>3 DEF Sane
<1>5. /\ Holds(q, ls, sz, mk) /\ node \in Addr /\ Len(mk) = Len(ls)
      /\ \A k \in 1 .. Len(ls) : mk[k] = {} => k = 1 /\ node = ls[1]
  BY <1>2, <1>4 DEF Queued, Masked, Holds, Chain, ReadCall
<1>6. CASE ~IsFree(q, node)
  <2>1. FreedAs(q, q, ls, sz, mk)
    <3> DEFINE nd == node
    <3>1. nd \in Addr /\ (\A k \in 1 .. Len(ls) : mk[k] = {} => k = 1 /\ nd = ls[1]) /\ ~IsFree(q, nd)
      BY <1>5, <1>6
    <3> HIDE DEF nd
    <3>2. q = (LET next == q.mem[nd].next
               IN  CASE ~IsFree(q, nd) -> q
                     [] IsFree(q, nd) /\ next = Null -> Emptied(q)
                     [] OTHER -> [q EXCEPT !.first = next, !.end = ByteBefore(next),
                                           !.size = IdleSize(q.begin, ByteBefore(next))])
      BY <3>1
    <3> QED BY <1>5, <3>1, <3>2, FreedIs, Zenon
  <2>2. Rests(q, owed)
    <3>1. reading.step # "loaded"
      BY <1>1
    <3> QED BY <2>1, <3>1, <1>0, <1>2, <1>4, FreedRests
  <2>3. q' = Collected(q, {}) /\ reading' = NotReading /\ changing' = NotChanging /\ owed' = owed
    BY <1>1, <1>2, <1>6
  <2> QED BY <2>2, <2>3, <1>1, RestIsSane
<1>7. CASE IsFree(q, node)
  <2>1. reading' = [reading EXCEPT !.step = "freed", !.next = q.mem[node].next] /\ q' = q
    BY <1>1, <1>7
  <2>2. ls # <<>> /\ node = ls[1] /\ node \in DOMAIN q.mem /\ q.mem[node].next = At(ls, 2) /\ mk[1] = {}
    <3>1. Chain(q.mem, ls, sz, mk) /\ q.first = At(ls, 1) /\ Len(ls) \in Nat /\ ls \in Seq(Addr)
      BY <1>5 DEF Holds, Chain
    <3>2. node # Null
      BY <1>5, ConstantsAreInt DEF Addr, Null
    <3>3. 1 \in 1 .. Len(ls) /\ node = ls[1] /\ ls # <<>>
      BY <3>1, <3>2, <1>7 DEF IsFree, At
    <3>4. ls[1] \in DOMAIN q.mem /\ q.mem[ls[1]] = [size |-> sz[1], next |-> At(ls, 1 + 1), mask |-> mk[1]]
      BY <3>1, <3>3 DEF Chain
    <3> QED BY <3>3, <3>4, <1>7 DEF IsFree
  <2>3. At(ls, 2) \in Pointer
    <3>1. ls \in Seq(Addr)
      BY <1>5 DEF Holds, Chain
    <3>2. 2 <= Len(ls) => ls[2] \in Addr
      BY <3>1
    <3> QED BY <3>2 DEF At, Pointer
  <2>4. /\ reading'.step = "freed" /\ reading'.node = node /\ reading'.next = At(ls, 2) /\ reading' \in ReadRecord
        /\ reading'.step \notin BeforeMask /\ reading'.step \in AfterMask
    <3>1. reading \in ReadRecord
      BY <1>0, <1>2 DEF Types
    <3>2. reading' = [reading EXCEPT !.step = "freed", !.next = At(ls, 2)]
      BY <2>1, <2>2
    <3> QED BY <3>1, <3>2, <2>3 DEF ReadRecord, BeforeMask, AfterMask
  <2>5. Types' /\ Calls'
    <3>1. Types'
      BY <2>1, <2>4, <1>0, <1>1 DEF Types
    <3> QED BY <3>1, <2>4, <1>1, <1>2 DEF Calls, Settled
  <2>6. InUse' = 1 .. q.num /\ Left' = {}
    BY <2>1, <1>1, <1>2 DEF InUse, Left, Settled
  <2>7. Users'
    BY <2>1, <2>6, <1>0, <1>1, <1>3 DEF Users
  <2>8. ASSUME NEW j \in 1 .. q.num PROVE Oldest'[j] = Oldest[j] /\ Due'[j] = Due[j]
    <3>1. j \in Slot
      BY <1>0, TypeFacts
    <3>2. Unread(j)' = Unread(j)
      BY <2>1, <2>4, <1>1, SMT DEF Unread
    <3> QED BY <3>1, <3>2, <2>1, <1>1 DEF Oldest, Due
  <2>9. Queued(ls, sz, mk)'
    <3>1. Masked(ls, mk)'
      BY <2>1, <2>4, <2>6, <1>3, <1>4 DEF Queued, Masked
    <3>2. Serves(ls, mk, 1 .. q'.num, Oldest', Due', 1)
      BY <2>1, <2>8, <1>4 DEF Queued, Serves
    <3>3. ~(changing'.step \in {"found", "vacated"}) /\ Halfway(ls, mk)'
      BY <2>2, <2>4, <1>1, <1>2 DEF Settled, Halfway
    <3> QED BY <2>1, <3>1, <3>2, <3>3, <1>4 DEF Queued
  <2> QED BY <2>5, <2>7, <2>9, <1>1, Zenon DEF Sane
<1> QED BY <1>6, <1>7

\* Who has read the oldest report last makes the next one the oldest: what is left is a ring at rest,
\* when the rest of the header is stored.
LEMMA ReadFirstFrees ==
  ASSUME Sane, ~crashed, ReadFirst
  PROVE  ~crashed' /\ freeing' # NotFreeing /\ Freeing'
<1> DEFINE node == reading.node
           next == reading.next
<1>0. Types /\ Calls /\ Users
  BY DEF Sane
<1>1. /\ reading.step = "freed" /\ q' = [q EXCEPT !.first = next]
      /\ freeing' = [NotFreeing EXCEPT !.step = "test", !.node = node] /\ reading' = NotReading
      /\ changing' = changing /\ owed' = owed /\ crashed' = crashed
  BY Zenon DEF ReadFirst
<1>2. reading # NotReading /\ changing = NotChanging /\ ReadCall /\ Settled
  <2>1. reading # NotReading
    BY <1>1 DEF NotReading
  <2>2. changing = NotChanging
    BY <2>1, <1>0 DEF Calls
  <2> QED BY <2>1, <2>2, <1>0, TypeFacts
<1>3. InUse = 1 .. q.num /\ Left = {} /\ ~Gone
  BY <1>2 DEF InUse, Left, Gone, Settled
<1>4. PICK ls, sz, mk : Queued(ls, sz, mk)
  BY <1>3 DEF Sane
<1>5. /\ Holds(q, ls, sz, mk) /\ Chain(q.mem, ls, sz, mk) /\ IsRing(q) /\ IsMem(q.mem) /\ Laid(q.begin, ls, sz)
      /\ q.first = At(ls, 1) /\ q.end = EndOf(ls) /\ ls \in Seq(Addr) /\ Len(ls) \in Nat
      /\ node \in Addr /\ Len(mk) = Len(ls)
      /\ \A k \in 1 .. Len(ls) : mk[k] = {} => k = 1 /\ node = ls[1]
  BY <1>2, <1>4 DEF Queued, Masked, Holds, Chain, ReadCall, IsRing
<1>6. ls # <<>> /\ mk[1] = {} /\ node = ls[1] /\ next = At(ls, 2)
  BY <1>1, <1>4 DEF Queued, Halfway
<1>7. /\ node \in DOMAIN q.mem /\ q.mem[node].next = next /\ q.mem[node].mask = {} /\ q.first = node
  <2>1. 1 \in 1 .. Len(ls)
    BY <1>5, <1>6
  <2>2. ls[1] \in DOMAIN q.mem /\ q.mem[ls[1]] = [size |-> sz[1], next |-> At(ls, 1 + 1), mask |-> mk[1]]
    BY <1>5, <2>1 DEF Chain
  <2> QED BY <1>5, <1>6, <2>1, <2>2 DEF At
<1>8. PICK d : d = IF next = Null THEN Emptied(q)
                   ELSE [q EXCEPT !.first = next, !.end = ByteBefore(next),
                                  !.size = IdleSize(q.begin, ByteBefore(next))]
  OBVIOUS
<1>9. FreedAs(q, d, ls, sz, mk)
  <2> DEFINE nd == node
  <2>1. /\ nd \in Addr /\ (\A k \in 1 .. Len(ls) : mk[k] = {} => k = 1 /\ nd = ls[1])
        /\ IsFree(q, nd) /\ q.mem[nd].next = next
    BY <1>5, <1>7 DEF IsFree
  <2> HIDE DEF nd
  <2>2. d = (LET x == q.mem[nd].next
             IN  CASE ~IsFree(q, nd) -> q
                   [] IsFree(q, nd) /\ x = Null -> Emptied(q)
                   [] OTHER -> [q EXCEPT !.first = x, !.end = ByteBefore(x),
                                         !.size = IdleSize(q.begin, ByteBefore(x))])
    <3>1. CASE next = Null
      BY <2>1, <3>1, <1>8
    <3>2. CASE next # Null
      BY <2>1, <3>2, <1>8
    <3> QED BY <3>1, <3>2
  <2> QED BY <1>5, <2>1, <2>2, FreedIs, Zenon
<1>10. Rests(d, owed)
  <2>1. reading.step # "loaded"
    BY <1>1
  <2> QED BY <2>1, <1>0, <1>2, <1>4, <1>9, FreedRests
<1>11. /\ q' = [mem |-> q.mem, first |-> next, begin |-> q.begin, end |-> q.end, size |-> q.size,
                slot |-> q.slot, num |-> q.num]
       /\ freeing'.step = "test" /\ freeing'.node = node
  BY <1>1, <1>5 DEF IsRing, NotFreeing
<1>12. /\ q'.mem = q.mem /\ q'.first = next /\ q'.begin = q.begin /\ q'.end = q.end /\ q'.size = q.size
       /\ q'.slot = q.slot /\ q'.num = q.num
  BY <1>11
<1>13. Completed' = d
  <2>1. CASE next = Null
    <3>1. Completed' = [mem |-> q.mem, first |-> Null, begin |-> 0, end |-> RingSize - 1, size |-> RingSize,
                        slot |-> q.slot, num |-> q.num]
      BY <1>11, <1>12, <2>1 DEF Completed, Header
    <3>2. d = Emptied(q)
      BY <2>1, <1>8
    <3> QED BY <3>1, <3>2, <1>5 DEF Emptied, IsRing
  <2>2. CASE next # Null
    <3>1. Completed' = [mem |-> q.mem, first |-> next, begin |-> q.begin, end |-> ByteBefore(next),
                        size |-> IdleSize(q.begin, ByteBefore(next)), slot |-> q.slot, num |-> q.num]
      BY <1>11, <1>12, <2>2 DEF Completed, Header
    <3>2. d = [q EXCEPT !.first = next, !.end = ByteBefore(next), !.size = IdleSize(q.begin, ByteBefore(next))]
      BY <2>2, <1>8
    <3> QED BY <3>1, <3>2, <1>5 DEF IsRing
  <2> QED BY <2>1, <2>2
<1>14. Shielded'
  <2> SUFFICES ASSUME NEW i \in Occupied(q.slot), NEW x \in OnPath(q.mem, q.slot[i].msg)
               PROVE  Bytes(x, q.mem[x].size) \cap IdleBytes(q) = {}
    BY <1>12 DEF Shielded, IdleBytes
  <2>1. i \in 1 .. q.num /\ i \in Slot
    BY <1>0, <1>3 DEF Users, Occupied
  <2>2. PICK p \in 1 .. Len(ls) + 1 : Oldest[i] = At(ls, p)
    BY <1>4, <2>1 DEF Queued, Serves, Reads
  <2>3. q.slot[i].msg = At(ls, p)
    BY <1>1, <2>1, <2>2, SMT DEF Oldest, Unread
  <2> QED BY <1>5, <2>3, ListIsOffIdle
<1>15. q' = Header(q.first, q.begin, q.end, q.size)'
  BY <1>11, <1>12 DEF Header
<1>16. freeing' # NotFreeing
  BY <1>11 DEF NotFreeing
<1>17. Rests(Completed', owed')
  BY <1>1, <1>10, <1>13
<1>18. freeing' = [step |-> freeing'.step, node |-> freeing'.node, size |-> freeing'.size]
  BY <1>1 DEF NotFreeing
<1>19. Freeing'
  BY <1>1, <1>2, <1>7, <1>11, <1>12, <1>14, <1>15, <1>17, <1>18 DEF Freeing
<1> QED BY <1>1, <1>16, <1>19

-----------------------------------------------------------------------------
(* The reports of a user that has gone.                                    *)

\* A table of vacant slots is a table.
LEMMA NoSubscriberIsTyped ==
  /\ NoSubscriber \in [Slot -> [uid : User \cup {NoUser}, msg : Pointer]]
  /\ Occupied(NoSubscriber) = {} /\ \A i \in Slot : NoSubscriber[i].uid = NoUser
  BY DEF NoSubscriber, Vacant, Pointer, Occupied

\* The ring whose list is forgotten is a ring with an empty list.
LEMMA EmptiedHolds ==
  ASSUME NEW r, IsRing(r), NEW d, d = [Emptied(r) EXCEPT !.slot = NoSubscriber]
  PROVE  Holds(d, <<>>, <<>>, <<>>) /\ d.slot = NoSubscriber /\ d.num = r.num
<1> DEFINE s == NoSubscriber
<1>0. s \in [Slot -> [uid : User \cup {NoUser}, msg : Pointer]]
  BY NoSubscriberIsTyped
<1> HIDE DEF s
<1>1. d = [mem |-> r.mem, first |-> Null, begin |-> 0, end |-> RingSize - 1,
           size |-> RingSize, slot |-> s, num |-> r.num]
  BY DEF IsRing, Emptied, s
<1>2. /\ d.mem = r.mem /\ d.first = Null /\ d.begin = 0 /\ d.end = RingSize - 1
      /\ d.size = RingSize /\ d.slot = s /\ d.num = r.num
  BY <1>1
<1>3. /\ Null \in Pointer /\ 0 \in Addr /\ RingSize - 1 \in Addr /\ RingSize = IdleSize(0, RingSize - 1)
      /\ IsMem(r.mem) /\ r.num \in 0 .. MaxUser
  BY ConstantsAreInt DEF Pointer, Addr, IdleSize, IsRing
<1>4. IsRing(d)
  BY <1>0, <1>1, <1>2, <1>3 DEF IsRing
<1>5. At(<<>>, 1) = Null /\ EndOf(<<>>) = RingSize - 1 /\ Laid(0, <<>>, <<>>)
  <2>1. Len(<<>>) = 0
    OBVIOUS
  <2> QED BY <2>1, <1>3 DEF At, EndOf, Laid
<1>6. Chain(r.mem, <<>>, <<>>, <<>>)
  BY EmptyIsChain
<1>7. Holds(d, <<>>, <<>>, <<>>)
  BY <1>2, <1>3, <1>4, <1>5, <1>6 DEF Holds
<1> QED BY <1>2, <1>7 DEF s

\* The ring without what nobody reads any more, when the slots in gone are out of the masks from
\* the h-th node on.
ReleasedHolds(r, d, ls, sz, mk, h, gone) ==
    \E m \in h .. Len(ls) + 1 :
        /\ KeepsFrom(Fewer(mk, h, gone), h, m, Len(ls))
        /\ Holds(d, Rest(ls, m), Rest(sz, m), Rest(Fewer(mk, h, gone), m))
        /\ Chain(d.mem, ls, sz, Fewer(mk, h, gone))
        /\ d.slot = r.slot /\ d.num = r.num
        /\ m <= Len(ls) => d.begin = r.begin

\* The ring is one after nodes are given up.
LEMMA ReleasedIsHeld ==
  ASSUME NEW r, NEW ls, NEW sz, NEW mk, Holds(r, ls, sz, mk), NEW h \in 1 .. Len(ls) + 1, NEW gone
  PROVE  ReleasedHolds(r, Released(r, At(ls, h), gone), ls, sz, mk, h, gone)
<1> DEFINE d == Released(r, At(ls, h), gone)  f == Fewer(mk, h, gone)  L == Len(ls)
<1>0. /\ ls \in Seq(Addr) /\ sz \in Seq(Sizes) /\ Len(sz) = L /\ L \in Nat /\ Chain(r.mem, ls, sz, mk)
      /\ Laid(r.begin, ls, sz) /\ IsRing(r)
  BY DEF Holds, Chain
<1>1. Distinct(ls)
  BY <1>0, LaidIsDistinct
<1>2. ReleasedAs(r, d, ls, sz, f, h)
  BY <1>0, <1>1, ReleasedIs
<1> HIDE DEF d, f
<1>3. PICK m \in h .. L + 1 : KeepsFrom(f, h, m, L) /\ d = Dropped(r, d.mem, ls, m)
  BY <1>2 DEF ReleasedAs
<1>4. IsMem(d.mem) /\ Chain(d.mem, ls, sz, f)
  BY <1>2 DEF ReleasedAs
<1>5. m \in 1 .. L + 1
  BY <1>0
<1> DEFINE mem == d.mem
<1>6. IsMem(mem) /\ Chain(mem, ls, sz, f) /\ d = Dropped(r, mem, ls, m)
  BY <1>3, <1>4
<1> HIDE DEF mem
<1>7. /\ Holds(d, Rest(ls, m), Rest(sz, m), Rest(f, m))
      /\ d.slot = r.slot /\ d.num = r.num /\ (m <= L => d.begin = r.begin)
  BY <1>0, <1>5, <1>6, DroppedHolds
<1> QED BY <1>3, <1>4, <1>7 DEF ReleasedHolds, d, f

\* The last user has gone: the list is forgotten.
LEMMA UnsubscribeLastIsSane ==
  ASSUME Sane, ~crashed, UnsubscribeLast
  PROVE  ~crashed' /\ Sane'
<1> DEFINE gone == [Emptied(q) EXCEPT !.slot = NoSubscriber]
<1>0. Types /\ Calls /\ Users
  BY DEF Sane
<1>1. /\ changing.step = "vacated" /\ q.num = 0 /\ q' = Collected(gone, {}) /\ changing' = NotChanging
      /\ reading' = reading /\ owed' = owed /\ crashed' = crashed
  BY Zenon DEF UnsubscribeLast
<1>2. reading = NotReading /\ InUse = 1 .. q.num
  <2>1. changing # NotChanging
    BY <1>1 DEF NotChanging
  <2> QED BY <2>1, <1>0, <1>1 DEF Calls, InUse
<1>3. IsRing(q) /\ {} \subseteq Pointer
  BY <1>0, TypeFacts
<1>4. Holds(gone, <<>>, <<>>, <<>>) /\ gone.slot = NoSubscriber /\ gone.num = q.num
  <2>1. PICK d : d = gone
    OBVIOUS
  <2>2. Holds(d, <<>>, <<>>, <<>>) /\ d.slot = NoSubscriber /\ d.num = q.num
    BY <1>3, <2>1, EmptiedHolds
  <2> QED BY <2>1, <2>2
<1> HIDE DEF gone
<1>5. Rests(gone, owed)
  <2>1. Len(<<>>) = 0
    OBVIOUS
  <2>2. \A u \in User : owed[u] = <<>>
    BY <1>0, <1>1 DEF Users
  <2>3. \E ls, sz, mk : /\ Holds(gone, ls, sz, mk) /\ (gone.num = 0 => ls = <<>>) /\ Spacious(gone.begin, ls, mk, MaxUser)
                        /\ Manned(mk, 1 .. gone.num)
                        /\ Serves(ls, mk, 1 .. gone.num, [i \in Slot |-> gone.slot[i].msg],
                                  [i \in Slot |-> owed[gone.slot[i].uid]], 1)
    <3>1. Manned(<<>>, 1 .. gone.num) /\ Spacious(gone.begin, <<>>, <<>>, MaxUser)
      BY <2>1 DEF Manned, Spacious
    <3>2. Serves(<<>>, <<>>, 1 .. gone.num, [i \in Slot |-> gone.slot[i].msg], [i \in Slot |-> owed[gone.slot[i].uid]], 1)
      BY <1>1, <1>4 DEF Serves
    <3> QED BY <1>4, <3>1, <3>2, Zenon
  <2>4. Occupied(gone.slot) = 1 .. gone.num
    BY <1>1, <1>4, NoSubscriberIsTyped
  <2>5. owed = [u \in User |-> owed[u]] /\ \A u \in User : owed[u] \in Seq(Addr)
    BY <1>0 DEF Types
  <2>6. IsRing(gone) /\ \A i, j \in 1 .. gone.num : gone.slot[i].uid = gone.slot[j].uid => i = j
    BY <1>1, <1>4 DEF Holds
  <2> QED BY <2>2, <2>3, <2>4, <2>5, <2>6, Zenon DEF Rests
<1>6. Sane'
  BY <1>1, <1>2, <1>5, RestIsSane
<1> QED BY <1>1, <1>6

\* The reports of the user that goes are given up; the others have none before them, or they would
\* be orphaned.  What is left is a ring at rest, when the rest of the header is stored.
LEMMA UnsubscribeWalkFrees ==
  ASSUME Sane, ~crashed, UnsubscribeWalk, spoilt' = {}
  PROVE  ~crashed' /\ freeing' # NotFreeing /\ Freeing'
<1> DEFINE head == changing.head
           i    == changing.slot
           left == Released(q, head, {i})
           orphaned == \E j \in Occupied(q.slot) : q.slot[j].msg \notin OnPath(q.mem, head) \cup {Null}
<1>0. Types /\ Calls /\ Users
  BY DEF Sane
<1>1. /\ changing.step = "vacated" /\ q.num # 0
      /\ IF ~Sound(q.mem, head) THEN Crash /\ UNCHANGED spoilt
         ELSE /\ q' = [q EXCEPT !.mem = left.mem, !.first = IF left.first = Null THEN @ ELSE left.first]
              /\ freeing' = [NotFreeing EXCEPT !.step = IF left.first = Null THEN "first" ELSE "advance"]
              /\ changing' = NotChanging
              /\ spoilt' = spoilt \cup {h \in Hazard : h = "reports orphaned" /\ orphaned}
              /\ UNCHANGED <<reading, owed, crashed>>
  BY Zenon DEF UnsubscribeWalk
<1>1a. changing.step = "vacated" /\ q.num # 0
  BY <1>1
<1>2. changing # NotChanging /\ reading = NotReading /\ UserCall /\ Idling
  <2>1. changing # NotChanging
    BY <1>1a DEF NotChanging
  <2>2. reading = NotReading
    BY <2>1, <1>0 DEF Calls
  <2> QED BY <2>1, <2>2, <1>0, TypeFacts
<1>3. InUse = 1 .. q.num /\ Left = {i} /\ i = q.num + 1
  BY <1>0, <1>1a DEF InUse, Left, Calls
<1>4. /\ IsRing(q) /\ q.num \in Nat /\ q.num <= MaxUser /\ 1 .. q.num \subseteq Slot
      /\ q.slot \in [Slot -> [uid : User \cup {NoUser}, msg : Pointer]]
  BY <1>0, TypeFacts
<1> HIDE DEF left, orphaned, i, head
<1>5. PICK ls, sz, mk : Queued(ls, sz, mk)
  BY <1>1a DEF Sane, Gone
<1> DEFINE len == Len(ls)
<1>6. /\ ls \in Seq(Addr) /\ sz \in Seq(Sizes) /\ mk \in Seq(SUBSET Slot) /\ len \in Nat
      /\ Len(sz) = len /\ Len(mk) = len /\ Holds(q, ls, sz, mk) /\ Laid(q.begin, ls, sz)
      /\ Chain(q.mem, ls, sz, mk) /\ IsMem(q.mem) /\ q.end = EndOf(ls)
  BY <1>5 DEF Queued, Holds, Chain, IsRing
<1>7. PICK h \in 1 .. len + 1 : head = At(ls, h)
  BY <1>1a, <1>5 DEF Queued, head
<1>8. Sound(q.mem, head) /\ OnPath(q.mem, head) = {ls[k] : k \in h .. len}
  <2>1. len <= RingSize
    BY <1>6, LaidIsDistinct DEF Distinct
  <2> QED BY <1>6, <1>7, <2>1, ListIsPath
<1>9. /\ q' = [q EXCEPT !.mem = left.mem, !.first = IF left.first = Null THEN @ ELSE left.first]
      /\ freeing' = [NotFreeing EXCEPT !.step = IF left.first = Null THEN "first" ELSE "advance"]
      /\ changing' = NotChanging
      /\ spoilt' = spoilt \cup {x \in Hazard : x = "reports orphaned" /\ orphaned}
      /\ reading' = reading /\ owed' = owed /\ crashed' = crashed
  BY <1>1, <1>8, Zenon
<1>10. ~orphaned
  <2>1. "reports orphaned" \in Hazard
    BY DEF Hazard
  <2> QED BY <2>1, <1>9
<1>11. ASSUME NEW j \in 1 .. q.num
       PROVE  \E p \in h .. len + 1 : /\ q.slot[j].msg = At(ls, p) /\ owed[q.slot[j].uid] = Rest(ls, p)
                                      /\ \A k \in 1 .. len : j \in mk[k] <=> k >= p
  <2>1. PICK p \in 1 .. len + 1 : /\ Oldest[j] = At(ls, p) /\ Due[j] = Rest(ls, p)
                                /\ \A k \in 1 .. len : j \in mk[k] <=> k >= p
    BY <1>5 DEF Queued, Serves, Reads
  <2>2. Oldest[j] = q.slot[j].msg /\ Due[j] = owed[q.slot[j].uid]
    <3>1. j \in Slot
      BY <1>4
    <3> QED BY <3>1, <1>2, SMT DEF Oldest, Due, Unread, NotReading
  <2>3. q.slot[j].msg \in OnPath(q.mem, head) \cup {Null}
    <3>1. j \in Occupied(q.slot)
      BY <1>0, <1>3 DEF Users
    <3> QED BY <3>1, <1>10 DEF orphaned
  <2>4. p >= h
    <3> SUFFICES ASSUME ~(p >= h) PROVE FALSE
      OBVIOUS
    <3>1. p \in 1 .. len /\ ls[p] \in Addr
      BY <1>6
    <3>2. q.slot[j].msg = ls[p] /\ ls[p] # Null
      BY <2>1, <2>2, <3>1, ConstantsAreInt DEF At, Addr, Null
    <3>3. PICK k \in h .. len : ls[p] = ls[k]
      BY <2>3, <3>2, <1>8
    <3>4. k \in 1 .. len /\ k # p
      BY <1>6
    <3> QED BY <3>1, <3>3, <3>4, <1>6, LaidIsDistinct DEF Distinct
  <2>5. p \in h .. len + 1
    BY <2>4, <1>6
  <2> QED BY <2>1, <2>2, <2>5
<1>12. PICK f : f = Fewer(mk, h, {i})
  OBVIOUS
<1>13. PICK m \in h .. len + 1 :
          /\ KeepsFrom(f, h, m, len)
          /\ Holds(left, Rest(ls, m), Rest(sz, m), Rest(f, m))
          /\ Chain(left.mem, ls, sz, f)
          /\ left.slot = q.slot /\ left.num = q.num
          /\ m <= len => left.begin = q.begin
  <2>1. ReleasedHolds(q, Released(q, At(ls, h), {i}), ls, sz, mk, h, {i})
    BY <1>6, ReleasedIsHeld
  <2>2. left = Released(q, At(ls, h), {i})
    BY <1>7, Zenon DEF left
  <2>3. ReleasedHolds(q, left, ls, sz, mk, h, {i})
    BY <2>1, <2>2, Zenon
  <2> QED BY <1>12, <2>3 DEF ReleasedHolds
<1>14. PICK l2, s2, m2 : l2 = Rest(ls, m) /\ s2 = Rest(sz, m) /\ m2 = Rest(f, m)
  OBVIOUS
<1>15. Holds(left, l2, s2, m2) /\ left.slot = q.slot /\ left.num = q.num /\ IsRing(left) /\ IsMem(left.mem)
  BY <1>13, <1>14 DEF Holds, IsRing
\* What is left when all is stored.
<1>16. Rests(left, owed)
  <2>1. left.num = 0 => l2 = <<>>
    BY <1>15, <1>1a
  <2>2. Spacious(left.begin, l2, m2, MaxUser)
    <3>1. f \in Seq(SUBSET Slot) /\ Len(f) = len /\ \A k \in 1 .. len : f[k] \in SUBSET mk[k]
      <4>1. /\ f \in Seq(SUBSET Slot) /\ Len(f) = Len(mk)
            /\ \A k \in 1 .. Len(mk) : f[k] = IF k >= h THEN mk[k] \ {i} ELSE mk[k]
        <5> DEFINE g == Fewer(mk, h, {i})
        <5>1. /\ g \in Seq(SUBSET Slot) /\ Len(g) = Len(mk)
              /\ \A k \in 1 .. Len(mk) : g[k] = IF k >= h THEN mk[k] \ {i} ELSE mk[k]
          <6>1. mk \in Seq(SUBSET Slot)
            BY <1>6
          <6> QED BY <6>1, FewerFacts, Zenon
        <5> QED BY <5>1, <1>12
      <4> QED BY <4>1, <1>6
    <3>2. ASSUME NEW k \in 1 .. len PROVE Cardinality(f[k]) + 0 <= Cardinality(mk[k])
      <4>1. mk[k] \subseteq Slot /\ f[k] \in SUBSET mk[k]
        <5>1. mk \in Seq(SUBSET Slot) /\ k \in 1 .. Len(mk)
          BY <1>6
        <5>2. mk[k] \in SUBSET Slot
          BY <5>1
        <5> QED BY <5>2, <3>1
      <4>2. Cardinality(f[k]) \in Nat /\ Cardinality(f[k]) <= Cardinality(mk[k])
        BY <4>1, MaskIsFinite
      <4> QED BY <4>2
    <3>3. Spacious(q.begin, ls, mk, MaxUser)
      BY <1>5 DEF Queued
    <3>4. MaxUser \in Int /\ MaxUser - 0 = MaxUser /\ 0 \in Nat
      BY ConstantsAreInt
    <3>5. Spacious(q.begin, ls, f, MaxUser - 0)
      BY <1>6, <3>1, <3>2, <3>3, <3>4, FewerAreSpacious
    <3>6. Spacious(q.begin, ls, f, MaxUser) /\ m \in 1 .. len + 1
      BY <3>4, <3>5, <1>6
    <3> QED BY <3>1, <3>6, <1>6, <1>13, <1>14, RestStaysSpacious
  <2>3. PICK from, due : from = [j \in Slot |-> q.slot[j].msg] /\ due = [j \in Slot |-> owed[q.slot[j].uid]]
    OBVIOUS
  <2>4. Serves(l2, m2, 1 .. q.num, from, due, 1) /\ Manned(m2, 1 .. q.num)
    <3> DEFINE stay == 1 .. q.num
    <3>1. stay \cap {i} = {}
      BY <1>3, <1>4
    <3>2. \A k \in 1 .. Len(mk) : mk[k] \ {i} \subseteq stay
      BY <1>3, <1>5 DEF Queued, Masked
    <3>3. Serves(ls, mk, stay, from, due, h)
      BY <1>4, <1>11, <2>3 DEF Serves, Reads
    <3>4. KeepsFrom(Fewer(mk, h, {i}), h, m, Len(ls))
      BY <1>12, <1>13
    <3> HIDE DEF stay
    <3>5. /\ Serves(Rest(ls, m), Rest(Fewer(mk, h, {i}), m), stay, from, due, 1)
          /\ Manned(Rest(Fewer(mk, h, {i}), m), stay)
      BY <1>6, <3>1, <3>2, <3>3, <3>4, StayersReadOn
    <3> QED BY <3>5, <1>12, <1>14 DEF stay
  <2>5. /\ Serves(l2, m2, 1 .. left.num, [j \in Slot |-> left.slot[j].msg], [j \in Slot |-> owed[left.slot[j].uid]], 1)
        /\ Manned(m2, 1 .. left.num)
    BY <2>3, <2>4, <1>15
  <2>6. \E l, z, k : /\ Holds(left, l, z, k) /\ (left.num = 0 => l = <<>>) /\ Spacious(left.begin, l, k, MaxUser)
                     /\ Manned(k, 1 .. left.num)
                     /\ Serves(l, k, 1 .. left.num, [j \in Slot |-> left.slot[j].msg],
                               [j \in Slot |-> owed[left.slot[j].uid]], 1)
    BY <1>15, <2>1, <2>2, <2>5, Zenon
  <2>7. /\ Occupied(left.slot) = 1 .. left.num
        /\ \A j, k \in 1 .. left.num : left.slot[j].uid = left.slot[k].uid => j = k
        /\ \A u \in User : owed[u] # <<>> => \E j \in 1 .. left.num : left.slot[j].uid = u
    BY <1>0, <1>3, <1>15 DEF Users
  <2>8. owed = [u \in User |-> owed[u]] /\ \A u \in User : owed[u] \in Seq(Addr)
    BY <1>0 DEF Types
  <2> QED BY <1>15, <2>6, <2>7, <2>8, Zenon DEF Rests
\* What is stored at once.
<1>17. PICK first : first = IF left.first = Null THEN q.first ELSE left.first
  OBVIOUS
<1>18. q' = [mem |-> left.mem, first |-> first, begin |-> q.begin, end |-> q.end, size |-> q.size,
             slot |-> q.slot, num |-> q.num]
  BY <1>4, <1>9, <1>17 DEF IsRing
<1>19. /\ q'.mem = left.mem /\ q'.first = first /\ q'.begin = q.begin /\ q'.end = q.end /\ q'.size = q.size
       /\ q'.slot = q.slot /\ q'.num = q.num
  BY <1>18
<1>20. /\ freeing'.step = IF left.first = Null THEN "first" ELSE "advance"
       /\ freeing'.node = Null
  BY <1>9 DEF NotFreeing
<1>21. freeing' # NotFreeing
  BY <1>20 DEF NotFreeing
<1>22. Completed' = left
  <2>0. /\ left = [mem |-> left.mem, first |-> left.first, begin |-> left.begin, end |-> left.end,
                   size |-> left.size, slot |-> q.slot, num |-> q.num]
        /\ left.first = At(l2, 1) /\ Laid(left.begin, l2, s2) /\ left.end = EndOf(l2)
        /\ left.size = IdleSize(left.begin, left.end) /\ l2 \in Seq(Addr)
    BY <1>15 DEF Holds, IsRing, Chain
  <2>1. left.first = Null <=> l2 = <<>>
    <3>1. l2 # <<>> => 1 <= Len(l2) /\ l2[1] \in Addr
      BY <2>0
    <3>2. l2 = <<>> => Len(l2) = 0
      OBVIOUS
    <3> QED BY <2>0, <3>1, <3>2, ConstantsAreInt DEF At, Addr, Null
  <2>2. CASE left.first = Null
    <3>1. Completed' = [mem |-> left.mem, first |-> Null, begin |-> 0, end |-> RingSize - 1, size |-> RingSize,
                        slot |-> q.slot, num |-> q.num]
      BY <1>19, <1>20, <2>2 DEF Completed, Header
    <3>2. left.begin = 0 /\ left.end = RingSize - 1
      BY <2>0, <2>1, <2>2 DEF Laid, EndOf
    <3>3. left.size = RingSize
      BY <2>0, <3>2, ConstantsAreInt DEF IdleSize
    <3> QED BY <2>0, <2>2, <3>1, <3>2, <3>3
  <2>3. CASE left.first # Null
    <3>1. Completed' = [mem |-> left.mem, first |-> left.first, begin |-> q.begin, end |-> ByteBefore(left.first),
                        size |-> IdleSize(q.begin, ByteBefore(left.first)), slot |-> q.slot, num |-> q.num]
      BY <1>17, <1>19, <1>20, <2>3 DEF Completed, Header
    <3>2. left.begin = q.begin
      <4>1. m # len + 1
        BY <2>1, <2>3, <1>6, <1>14, RestIsEmpty
      <4>2. m <= len
        BY <4>1, <1>6
      <4> QED BY <4>2, <1>13
    <3>3. left.end = ByteBefore(left.first)
      <4>1. left.first = l2[1]
        BY <2>0, <2>3 DEF At
      <4> QED BY <2>0, <2>1, <2>3, <4>1 DEF EndOf
    <3> QED BY <2>0, <3>1, <3>2, <3>3
  <2> QED BY <2>2, <2>3
<1>23. Shielded'
  <2> SUFFICES ASSUME NEW j \in Occupied(q.slot), NEW x \in OnPath(left.mem, q.slot[j].msg)
               PROVE  Bytes(x, left.mem[x].size) \cap IdleBytes(q) = {}
    BY <1>19 DEF Shielded, IdleBytes
  <2>1. j \in 1 .. q.num
    BY <1>0, <1>3 DEF Users
  <2>2. PICK p \in h .. len + 1 : q.slot[j].msg = At(ls, p)
    BY <1>11, <2>1
  <2>3. p \in 1 .. len + 1
    BY <1>6
  <2>4. PICK r : r = [q EXCEPT !.mem = left.mem]
    OBVIOUS
  <2>5. r.mem = left.mem /\ r.begin = q.begin /\ r.end = q.end
    BY <2>4, <1>4 DEF IsRing
  <2>6. /\ IsMem(r.mem) /\ Chain(r.mem, ls, sz, f) /\ Laid(r.begin, ls, sz) /\ r.end = EndOf(ls)
        /\ p \in 1 .. Len(ls) + 1 /\ x \in OnPath(r.mem, At(ls, p))
    <3>1. p \in 1 .. Len(ls) + 1 /\ x \in OnPath(r.mem, At(ls, p))
      BY <2>2, <2>3, <2>5
    <3> QED BY <1>6, <1>13, <1>15, <2>5, <3>1
  <2>7. Bytes(x, r.mem[x].size) \cap IdleBytes(r) = {}
    BY <2>6, ListIsOffIdle
  <2>8. IdleBytes(r) = IdleBytes(q)
    BY <2>5 DEF IdleBytes
  <2> QED BY <2>5, <2>7, <2>8
<1>24. q' = Header(q.first, q.begin, q.end, q.size)'
  BY <1>18, <1>19 DEF Header
<1>25. Rests(Completed', owed')
  BY <1>9, <1>16, <1>22
<1>26. freeing'.step = "advance" => q'.first # Null
  BY <1>17, <1>19, <1>20
<1>27. /\ freeing'.step \in {"test", "first", "begin", "end", "size", "advance", "measure", "room"}
       /\ freeing'.node = Null /\ freeing'.step \notin {"begin", "end", "size"}
       /\ freeing' = [step |-> freeing'.step, node |-> freeing'.node, size |-> freeing'.size]
  BY <1>9, <1>20 DEF NotFreeing
<1>28. Freeing'
  BY <1>2, <1>9, <1>23, <1>24, <1>25, <1>26, <1>27, Zenon DEF Freeing
<1> QED BY <1>9, <1>21, <1>28

-----------------------------------------------------------------------------
(* The rest of the header is stored, and nothing else happens.             *)

\* A store changes what is in the ring, not what it comes to.
LEMMA StoreGoesOn ==
  ASSUME Freeing, ~crashed,
         NEW d, d = Completed, NEW first, NEW begin, NEW end, NEW size, q' = Header(first, begin, end, size),
         Completed' = d,
         freeing'.step \in {"test", "first", "begin", "end", "size", "advance", "measure", "room"},
         freeing' = [step |-> freeing'.step, node |-> freeing'.node, size |-> freeing'.size],
         freeing'.step \in {"test", "advance"} => q' = q /\ q.first # Null /\ freeing'.node = freeing.node
                                                  /\ freeing.step \in {"test", "advance"},
         freeing'.step \in {"begin", "end", "size"} => first = Null,
         UNCHANGED <<reading, changing, owed, crashed>>
  PROVE  ~crashed' /\ freeing' # NotFreeing /\ Freeing'
<1>1. /\ q'.first = first /\ q' = Header(q.first, q.begin, q.end, q.size)'
      /\ reading' = NotReading /\ changing' = NotChanging /\ crashed' = crashed
  BY DEF Header, Freeing
<1>2. Rests(Completed', owed')
  BY DEF Freeing
<1>3. ASSUME freeing'.step \in {"test", "advance"}
      PROVE  /\ Shielded' /\ q'.first # Null
             /\ freeing'.node # Null => freeing'.node \in DOMAIN q'.mem /\ q'.mem[freeing'.node].next = q'.first
  <2>1. q' = q /\ q.first # Null /\ freeing'.node = freeing.node /\ freeing.step \in {"test", "advance"}
    BY <1>3
  <2>2. Shielded /\ (freeing.node # Null => freeing.node \in DOMAIN q.mem /\ q.mem[freeing.node].next = q.first)
    BY <2>1 DEF Freeing
  <2>3. Shielded'
    BY <2>1, <2>2 DEF Shielded
  <2> QED BY <2>1, <2>2, <2>3
<1>4. freeing' # NotFreeing
  BY DEF NotFreeing
<1>5. Freeing'
  BY <1>1, <1>2, <1>3 DEF Freeing
<1> QED BY <1>1, <1>4, <1>5

\* A store that is not the last.
LEMMA FreeingGoesOn ==
  ASSUME Freeing, ~crashed, ReadEnd \/ ForgetFirst \/ ForgetBegin \/ ForgetEnd \/ AdvanceEnd \/ AdvanceMeasure
  PROVE  ~crashed' /\ freeing' # NotFreeing /\ Freeing'
<1>0. /\ freeing = [step |-> freeing.step, node |-> freeing.node, size |-> freeing.size]
      /\ q = Header(q.first, q.begin, q.end, q.size)
  BY DEF Freeing
<1>1. CASE ReadEnd
  <2>1. /\ freeing.step = "test" /\ q' = q /\ UNCHANGED <<reading, changing, owed, crashed>>
        /\ freeing' = [freeing EXCEPT !.step = IF q.first = Null THEN "begin" ELSE "advance"]
    BY <1>1, Zenon DEF ReadEnd
  <2>2. /\ freeing'.step = IF q.first = Null THEN "begin" ELSE "advance"
        /\ freeing'.node = freeing.node
        /\ freeing' = [step |-> freeing'.step, node |-> freeing'.node, size |-> freeing'.size]
    BY <2>1, <1>0
  <2>3. Completed' = Completed
    BY <2>1, <2>2 DEF Completed, Header
  <2> QED BY <2>1, <2>2, <2>3, <1>0, StoreGoesOn
<1>2. CASE ForgetFirst
  <2>1. /\ freeing.step = "first" /\ q' = [q EXCEPT !.first = Null] /\ UNCHANGED <<reading, changing, owed, crashed>>
        /\ freeing' = [freeing EXCEPT !.step = "begin"]
    BY <1>2, Zenon DEF ForgetFirst, Forget
  <2>2. freeing'.step = "begin" /\ freeing' = [step |-> freeing'.step, node |-> freeing'.node, size |-> freeing'.size]
    BY <2>1, <1>0
  <2>3. q' = Header(Null, q.begin, q.end, q.size)
    BY <2>1, <1>0 DEF Header
  <2>4. Completed' = Completed
    BY <2>1, <2>2, <2>3 DEF Completed, Header
  <2> QED BY <2>1, <2>2, <2>3, <2>4, StoreGoesOn
<1>3. CASE ForgetBegin
  <2>1. /\ freeing.step = "begin" /\ q' = [q EXCEPT !.begin = 0] /\ UNCHANGED <<reading, changing, owed, crashed>>
        /\ freeing' = [freeing EXCEPT !.step = "end"]
    BY <1>3, Zenon DEF ForgetBegin, Forget
  <2>2. freeing'.step = "end" /\ freeing' = [step |-> freeing'.step, node |-> freeing'.node, size |-> freeing'.size]
    BY <2>1, <1>0
  <2>3. q' = Header(q.first, 0, q.end, q.size) /\ q.first = Null
    BY <2>1, <1>0 DEF Header, Freeing
  <2>4. Completed' = Completed
    BY <2>1, <2>2, <2>3 DEF Completed, Header
  <2> QED BY <2>1, <2>2, <2>3, <2>4, StoreGoesOn
<1>4. CASE ForgetEnd
  <2>1. /\ freeing.step = "end" /\ q' = [q EXCEPT !.end = RingSize - 1] /\ UNCHANGED <<reading, changing, owed, crashed>>
        /\ freeing' = [freeing EXCEPT !.step = "size"]
    BY <1>4, Zenon DEF ForgetEnd, Forget
  <2>2. freeing'.step = "size" /\ freeing' = [step |-> freeing'.step, node |-> freeing'.node, size |-> freeing'.size]
    BY <2>1, <1>0
  <2>3. q' = Header(q.first, q.begin, RingSize - 1, q.size) /\ q.first = Null
    BY <2>1, <1>0 DEF Header, Freeing
  <2>4. Completed' = Completed
    BY <2>1, <2>2, <2>3 DEF Completed, Header
  <2> QED BY <2>1, <2>2, <2>3, <2>4, StoreGoesOn
<1>5. CASE AdvanceEnd
  <2>1. freeing.step = "advance"
    BY <1>5 DEF AdvanceEnd
  <2>2. /\ q.first # Null
        /\ freeing.node # Null => freeing.node \in DOMAIN q.mem /\ q.mem[freeing.node].next = q.first
    BY <2>1 DEF Freeing
  <2>3. PICK next : next = IF freeing.node = Null THEN q.first ELSE q.mem[freeing.node].next
    OBVIOUS
  <2>4. next = q.first /\ next # Null /\ freeing.node \in DOMAIN q.mem \cup {Null}
    BY <2>2, <2>3
  <2>5. /\ q' = [q EXCEPT !.end = ByteBefore(next)] /\ UNCHANGED <<reading, changing, owed, crashed>>
        /\ freeing' = [freeing EXCEPT !.step = "measure"]
    BY <1>5, <2>3, <2>4, Zenon DEF AdvanceEnd
  <2>6. freeing'.step = "measure" /\ freeing' = [step |-> freeing'.step, node |-> freeing'.node, size |-> freeing'.size]
    BY <2>5, <1>0
  <2>7. q' = Header(q.first, q.begin, ByteBefore(q.first), q.size)
    BY <2>4, <2>5, <1>0 DEF Header
  <2>8. Completed' = Completed
    BY <2>1, <2>6, <2>7 DEF Completed, Header
  <2> QED BY <2>5, <2>6, <2>7, <2>8, StoreGoesOn
<1>6. CASE AdvanceMeasure
  <2>1. /\ freeing.step = "measure" /\ q' = q /\ UNCHANGED <<reading, changing, owed, crashed>>
        /\ freeing' = [freeing EXCEPT !.step = "room", !.size = IdleSize(q.begin, q.end)]
    BY <1>6, Zenon DEF AdvanceMeasure
  <2>2. /\ freeing'.step = "room" /\ freeing'.size = IdleSize(q.begin, q.end)
        /\ freeing' = [step |-> freeing'.step, node |-> freeing'.node, size |-> freeing'.size]
    BY <2>1, <1>0
  <2>3. Completed' = Completed
    BY <2>1, <2>2 DEF Completed, Header
  <2> QED BY <2>1, <2>2, <2>3, <1>0, StoreGoesOn
<1> QED BY <1>1, <1>2, <1>3, <1>4, <1>5, <1>6

\* The last one.
LEMMA FreeingEnds ==
  ASSUME Freeing, ~crashed, ForgetSize \/ AdvanceSize
  PROVE  ~crashed' /\ freeing' = NotFreeing /\ Sane'
<1>0. q = Header(q.first, q.begin, q.end, q.size) /\ Rests(Completed, owed) /\ reading = NotReading /\ changing = NotChanging
  BY DEF Freeing
<1>1. q' = Collected(Completed, {}) /\ freeing' = NotFreeing /\ UNCHANGED <<reading, changing, owed, crashed>>
  <2>1. CASE ForgetSize
    <3>1. /\ freeing.step = "size" /\ q' = Collected([q EXCEPT !.size = RingSize], {}) /\ freeing' = NotFreeing
          /\ UNCHANGED <<reading, changing, owed, crashed>>
      BY <2>1, Zenon DEF ForgetSize, Forget
    <3>2. Completed = [q EXCEPT !.size = RingSize]
      BY <3>1, <1>0 DEF Completed, Header
    <3> QED BY <3>1, <3>2
  <2>2. CASE AdvanceSize
    <3>1. /\ freeing.step = "room" /\ q' = Collected([q EXCEPT !.size = freeing.size], {}) /\ freeing' = NotFreeing
          /\ UNCHANGED <<reading, changing, owed, crashed>>
      BY <2>2, Zenon DEF AdvanceSize
    <3>2. Completed = [q EXCEPT !.size = freeing.size]
      BY <3>1, <1>0 DEF Completed, Header
    <3> QED BY <3>1, <3>2
  <2> QED BY <2>1, <2>2
<1>2. Sane'
  <2>1. PICK d : d = Completed
    OBVIOUS
  <2> QED BY <2>1, <1>0, <1>1, RestIsSane
<1> QED BY <1>1, <1>2

-----------------------------------------------------------------------------
(* A report comes, and whoever has not read the oldest may have to go.     *)

\* The slots in late are vacated.
Vacated(slot, late) == [i \in Slot |-> IF i \in late THEN Vacant ELSE slot[i]]

\* The table without the users that are late.
LEMMA VacatedIs ==
  ASSUME NEW slot \in [Slot -> [uid : User \cup {NoUser}, msg : Pointer]], NEW late
  PROVE  /\ Vacated(slot, late) \in [Slot -> [uid : User \cup {NoUser}, msg : Pointer]]
         /\ Occupied(Vacated(slot, late)) = Occupied(slot) \ late
         /\ \A i \in Slot : i \notin late => Vacated(slot, late)[i] = slot[i]
         /\ \A i \in Slot : i \in late => Vacated(slot, late)[i].uid = NoUser
<1>1. \A i \in Slot : Vacated(slot, late)[i] = IF i \in late THEN Vacant ELSE slot[i]
  BY DEF Vacated
<1>2. Vacant \in [uid : User \cup {NoUser}, msg : Pointer] /\ Vacant.uid = NoUser
  BY DEF Vacant, Pointer
<1>3. Vacated(slot, late) = [i \in Slot |-> Vacated(slot, late)[i]]
  BY DEF Vacated
<1>4. Vacated(slot, late) \in [Slot -> [uid : User \cup {NoUser}, msg : Pointer]]
  BY <1>1, <1>2, <1>3
<1> QED BY <1>1, <1>2, <1>4 DEF Occupied

\* What is left when the users in late are dropped, who have not read the oldest node.
EvictedWell(r, e, late, l2, s2, m2, from, due) ==
    /\ Holds(e, l2, s2, m2)
    /\ e.num \in Nat /\ e.num < r.num
    /\ Occupied(e.slot) = 1 .. e.num
    /\ \A j \in 1 .. e.num : j \in 1 .. r.num /\ j \notin late /\ e.slot[j] = r.slot[j]
    /\ \A j \in 1 .. r.num : j \in late <=> e.slot[j].uid = NoUser
    /\ Manned(m2, 1 .. e.num)
    /\ Serves(l2, m2, 1 .. e.num, from, due, 1)
    /\ Spacious(e.begin, l2, m2, MaxUser - 1)
    /\ e.num = 0 => l2 = <<>>

\* Who has not read the oldest node has read none after it either: its slot is in all masks.
LEMMA LateIsInAll ==
  ASSUME NEW ls \in Seq(Addr), NEW mk \in Seq(SUBSET Slot), Len(mk) = Len(ls), ls # <<>>,
         NEW num, \A k \in 1 .. Len(mk) : mk[k] \subseteq 1 .. num, mk[1] # {},
         NEW from, NEW due, Serves(ls, mk, 1 .. num, from, due, 1)
  PROVE  \A k \in 1 .. Len(ls) : Cardinality(mk[k] \ mk[1]) + 1 <= Cardinality(mk[k])
<1>0. Len(ls) \in Nat /\ 1 \in 1 .. Len(ls)
  OBVIOUS
<1>1. PICK j \in mk[1] : TRUE
  OBVIOUS
<1>2. j \in 1 .. num
  BY <1>0, <1>1
<1>3. PICK p \in 1 .. Len(ls) + 1 : \A x \in 1 .. Len(ls) : j \in mk[x] <=> x >= p
  BY <1>2 DEF Serves, Reads
<1>4. p = 1
  BY <1>0, <1>1, <1>3
<1> SUFFICES ASSUME NEW k \in 1 .. Len(ls) PROVE Cardinality(mk[k] \ mk[1]) + 1 <= Cardinality(mk[k])
  OBVIOUS
<1>5. j \in mk[k]
  BY <1>3, <1>4
<1>6. mk[k] \in SUBSET Slot
  OBVIOUS
<1> DEFINE m == mk[k]
<1>7. m \subseteq Slot /\ j \in m
  BY <1>5, <1>6
<1> HIDE DEF m
<1>8. IsFiniteSet(m) /\ Cardinality(m) \in Nat
  BY <1>7, MaskIsFinite
<1>9. IsFiniteSet(m \ {j}) /\ Cardinality(m \ {j}) = Cardinality(m) - 1
  BY <1>7, <1>8, FS_RemoveElement
<1>10. m \ mk[1] \in SUBSET (m \ {j})
  BY <1>1
<1>11. Cardinality(m \ mk[1]) \in Nat /\ Cardinality(m \ mk[1]) <= Cardinality(m \ {j})
  <2>1. m \ {j} \subseteq Slot
    BY <1>7
  <2> QED BY <1>10, <2>1, MaskIsFinite
<1>12. Cardinality(m \ mk[1]) + 1 <= Cardinality(m)
  BY <1>8, <1>9, <1>11
<1> QED BY <1>12 DEF m

\* Slots leave all the masks.
LEMMA FewerOfAll ==
  ASSUME NEW mk \in Seq(SUBSET Slot), NEW gone
  PROVE  /\ Fewer(mk, 1, gone) \in Seq(SUBSET Slot) /\ Len(Fewer(mk, 1, gone)) = Len(mk)
         /\ \A k \in 1 .. Len(mk) : Fewer(mk, 1, gone)[k] = mk[k] \ gone
<1>1. \A k \in 1 .. Len(mk) : k >= 1
  OBVIOUS
<1> QED BY <1>1, FewerFacts

\* Whoever has not read the oldest node is dropped: the users left read on, and room is made.
LEMMA EvictedIsWell ==
  ASSUME NEW r, NEW ls, NEW sz, NEW mk, Holds(r, ls, sz, mk), ls # <<>>,
         Occupied(r.slot) = 1 .. r.num, \A k \in 1 .. Len(mk) : mk[k] \subseteq 1 .. r.num,
         NEW late, late = mk[1], late # {}, NEW from, NEW due, Serves(ls, mk, 1 .. r.num, from, due, 1),
         Spacious(r.begin, ls, mk, MaxUser), NEW e, e = Evicted(r),
         Occupied(e.slot) = 1 .. e.num \/ e.num = 0
  PROVE  \E l2, s2, m2 : EvictedWell(r, e, late, l2, s2, m2, from, due)
<1> DEFINE L    == Len(ls)
           slot == Vacated(r.slot, late)
           left == [r EXCEPT !.slot = slot, !.num = Uint8(r.num - Cardinality(late))]
<1>0. /\ ls \in Seq(Addr) /\ sz \in Seq(Sizes) /\ mk \in Seq(SUBSET Slot) /\ Len(sz) = L /\ Len(mk) = L
      /\ L \in Nat /\ 1 \in 1 .. L /\ Chain(r.mem, ls, sz, mk) /\ Laid(r.begin, ls, sz) /\ IsRing(r)
      /\ r.first = At(ls, 1)
  <2>1. /\ ls \in Seq(Addr) /\ sz \in Seq(Sizes) /\ mk \in Seq(SUBSET Slot) /\ Len(sz) = L /\ Len(mk) = L
        /\ Chain(r.mem, ls, sz, mk) /\ Laid(r.begin, ls, sz) /\ IsRing(r) /\ r.first = At(ls, 1)
    BY DEF Holds, Chain
  <2>2. L \in Nat /\ 1 \in 1 .. L
    BY <2>1
  <2> QED BY <2>1, <2>2
<1>1. r.first = ls[1] /\ r.mem[r.first].mask = late
  <2>1. r.first = ls[1]
    BY <1>0 DEF At
  <2>2. r.mem[ls[1]] = [size |-> sz[1], next |-> At(ls, 1 + 1), mask |-> mk[1]]
    BY <1>0 DEF Chain
  <2> QED BY <2>1, <2>2
<1>2. e = IF left.num = 0 THEN [Emptied(left) EXCEPT !.slot = NoSubscriber] ELSE Released(left, r.first, late)
  BY <1>1, Zenon DEF Evicted, Vacated
<1>3. /\ r.num \in Nat /\ r.num <= 255 /\ r.num <= MaxUser /\ 1 .. r.num \subseteq Slot
      /\ r.slot \in [Slot -> [uid : User \cup {NoUser}, msg : Pointer]]
  BY <1>0, SlotIsNotZero, ConstantsAreInt DEF IsRing
<1>4. late \subseteq 1 .. r.num /\ late \subseteq Slot
  BY <1>0, <1>3
<1>5. Cardinality(late) \in Nat /\ 1 <= Cardinality(late) /\ Cardinality(late) <= r.num
      /\ (Cardinality(late) = r.num => late = 1 .. r.num)
  <2>1. IsFiniteSet(1 .. r.num) /\ Cardinality(1 .. r.num) = r.num
    <3>1. 1 \in Int /\ r.num \in Int /\ (1 <= r.num \/ r.num = 0) /\ 1 .. r.num = IF 1 > r.num THEN {} ELSE 1 .. r.num
      BY <1>3
    <3> QED BY <3>1, <1>3, FS_Interval, SMTT(30)
  <2>2. Cardinality(late) <= r.num /\ (Cardinality(late) = r.num => late = 1 .. r.num)
    BY <1>4, <2>1, FS_Subset
  <2> QED BY <1>4, <2>2, MaskIsFinite
<1> DEFINE num == r.num - Cardinality(late)
<1>6. num \in Nat /\ num < r.num /\ Uint8(num) = num /\ num \in 0 .. MaxUser
  <2>1. num \in Nat /\ num < r.num /\ num <= 255 /\ num \in 0 .. MaxUser
    <3>1. PICK c : c = Cardinality(late)
      OBVIOUS
    <3>2. c \in Nat /\ 1 <= c /\ c <= r.num /\ num = r.num - c
      BY <3>1, <1>5
    <3> HIDE DEF num
    <3> QED BY <3>2, <1>3, ConstantsAreInt
  <2> HIDE DEF num
  <2> QED BY <2>1, ByteIsItself
<1> HIDE DEF num, slot
<1>7. /\ slot \in [Slot -> [uid : User \cup {NoUser}, msg : Pointer]]
      /\ Occupied(slot) = (1 .. r.num) \ late
      /\ \A i \in Slot : i \notin late => slot[i] = r.slot[i]
      /\ \A i \in Slot : i \in late => slot[i].uid = NoUser
  BY <1>3, VacatedIs DEF slot
<1>8. /\ left = [mem |-> r.mem, first |-> r.first, begin |-> r.begin, end |-> r.end, size |-> r.size,
                 slot |-> slot, num |-> num]
      /\ left.slot = slot /\ left.num = num /\ left.begin = r.begin
  <2>1. left = [r EXCEPT !.slot = slot, !.num = num]
    BY <1>6, Zenon DEF num
  <2> HIDE DEF left
  <2> QED BY <2>1, <1>0 DEF IsRing
<1>9. Holds(left, ls, sz, mk)
  BY <1>6, <1>7, <1>8, SlotsAreSet
<1> HIDE DEF left
<1>10. CASE num = 0
  <2>1. e = [Emptied(left) EXCEPT !.slot = NoSubscriber] /\ late = 1 .. r.num
    BY <1>2, <1>3, <1>5, <1>8, <1>10 DEF num
  <2>2. Holds(e, <<>>, <<>>, <<>>) /\ e.slot = NoSubscriber /\ e.num = left.num
    <3>1. IsRing(left)
      BY <1>9 DEF Holds
    <3>2. e = [Emptied(left) EXCEPT !.slot = NoSubscriber]
      BY <2>1
    <3> QED BY <3>1, <3>2, EmptiedHolds, Zenon
  <2>3. e.num = 0 /\ Occupied(e.slot) = 1 .. e.num /\ \A j \in 1 .. r.num : e.slot[j].uid = NoUser
    BY <1>3, <1>8, <1>10, <2>2, NoSubscriberIsTyped
  <2>4. Len(<<>>) = 0
    OBVIOUS
  <2>5. Manned(<<>>, 1 .. e.num) /\ Serves(<<>>, <<>>, 1 .. e.num, from, due, 1) /\ Spacious(e.begin, <<>>, <<>>, MaxUser - 1)
    BY <2>3, <2>4 DEF Manned, Serves, Spacious
  <2>6. EvictedWell(r, e, late, <<>>, <<>>, <<>>, from, due)
    BY <1>3, <1>6, <1>10, <2>1, <2>2, <2>3, <2>5 DEF EvictedWell
  <2> QED BY <2>6
<1>11. CASE num # 0
  <2> DEFINE f == Fewer(mk, 1, late)
  <2>1. e = Released(left, At(ls, 1), late)
    BY <1>0, <1>2, <1>8, <1>11
  <2>2. ReleasedHolds(left, e, ls, sz, mk, 1, late)
    <3>1. 1 \in 1 .. Len(ls) + 1
      BY <1>0
    <3> QED BY <1>9, <2>1, <3>1, ReleasedIsHeld
  <2>3. PICK m \in 1 .. L + 1 :
           /\ KeepsFrom(f, 1, m, L)
           /\ Holds(e, Rest(ls, m), Rest(sz, m), Rest(f, m))
           /\ e.slot = slot /\ e.num = num
           /\ m <= L => e.begin = r.begin
    BY <1>8, <2>2 DEF ReleasedHolds
  <2>4. Occupied(slot) = 1 .. num
    BY <1>11, <2>3
  <2>5. 1 .. num = (1 .. r.num) \ late
    BY <1>7, <2>4
  <2>6. \A j \in 1 .. num : j \in 1 .. r.num /\ j \notin late /\ slot[j] = r.slot[j]
    BY <1>3, <1>7, <2>5
  <2>7. \A j \in 1 .. r.num : j \in late <=> slot[j].uid = NoUser
    <3>1. \A j \in 1 .. r.num : j \in Occupied(slot) <=> j \notin late
      BY <1>7
    <3> QED BY <3>1, <1>3, <1>7 DEF Occupied
  <2>8. /\ Serves(Rest(ls, m), Rest(f, m), 1 .. num, from, due, 1)
        /\ Manned(Rest(f, m), 1 .. num)
    <3> DEFINE stay == 1 .. num
    <3>1. stay \cap late = {} /\ \A k \in 1 .. Len(mk) : mk[k] \ late \subseteq stay
      BY <2>5
    <3>2. Serves(ls, mk, stay, from, due, 1)
      BY <2>6 DEF Serves
    <3>3. 1 \in 1 .. Len(ls) + 1 /\ KeepsFrom(Fewer(mk, 1, late), 1, m, Len(ls)) /\ Len(mk) = Len(ls)
      BY <1>0, <2>3
    <3> HIDE DEF stay
    <3>4. /\ Serves(Rest(ls, m), Rest(Fewer(mk, 1, late), m), stay, from, due, 1)
          /\ Manned(Rest(Fewer(mk, 1, late), m), stay)
      BY <1>0, <3>1, <3>2, <3>3, StayersReadOn
    <3> QED BY <3>4 DEF stay
  <2>9. f \in Seq(SUBSET Slot) /\ Len(f) = L /\ \A k \in 1 .. L : f[k] = mk[k] \ late
    <3>1. f \in Seq(SUBSET Slot) /\ Len(f) = Len(mk) /\ \A k \in 1 .. Len(mk) : f[k] = mk[k] \ late
      <4>1. mk \in Seq(SUBSET Slot)
        BY <1>0
      <4> QED BY <4>1, FewerOfAll, Zenon
    <3> HIDE DEF f
    <3> QED BY <3>1, <1>0
  <2> HIDE DEF f
  <2>10. \A k \in 1 .. Len(ls) : Cardinality(f[k]) + 1 <= Cardinality(mk[k])
    <3>1. \A k \in 1 .. Len(ls) : Cardinality(mk[k] \ mk[1]) + 1 <= Cardinality(mk[k])
      BY <1>0, LateIsInAll
    <3> QED BY <3>1, <2>9
  <2>11. Spacious(r.begin, ls, f, MaxUser - 1)
    <3>1. MaxUser \in Int /\ 1 \in Nat /\ Len(f) = Len(ls) /\ Len(mk) = Len(ls)
      BY <1>0, <2>9, ConstantsAreInt
    <3> QED BY <1>0, <2>9, <2>10, <3>1, FewerAreSpacious
  <2>12. Spacious(e.begin, Rest(ls, m), Rest(f, m), MaxUser - 1)
    BY <1>0, <2>3, <2>9, <2>11, RestStaysSpacious
  <2>13. EvictedWell(r, e, late, Rest(ls, m), Rest(sz, m), Rest(f, m), from, due)
    BY <1>6, <1>11, <2>3, <2>4, <2>6, <2>7, <2>8, <2>12 DEF EvictedWell
  <2> QED BY <2>13
<1> QED BY <1>10, <1>11

\* The report is handed to the users that have nothing to read; the slots keep their users.
LEMMA HandedIs ==
  ASSUME NEW s \in [Slot -> [uid : User \cup {NoUser}, msg : Pointer]], NEW num \in Nat, NEW at \in Addr
  PROVE  /\ \A i \in Slot : Handed(s, num, at)[i].uid = s[i].uid
         /\ \A i \in Slot : ~(i <= num) => Handed(s, num, at)[i] = s[i]
         /\ \A i \in Slot : i <= num => Handed(s, num, at)[i].msg = IF s[i].msg = Null THEN at ELSE s[i].msg
         /\ Occupied(Handed(s, num, at)) = Occupied(s)
         /\ num = 0 => Handed(s, num, at) = s
<1> DEFINE h == Handed(s, num, at)
<1>1. \A i \in Slot : h[i] = IF i <= num /\ s[i].msg = Null THEN [uid |-> s[i].uid, msg |-> at] ELSE s[i]
  BY DEF Handed
<1>2. h = [i \in Slot |-> h[i]] /\ s = [i \in Slot |-> s[i]]
  BY DEF Handed
<1> HIDE DEF h
<1>3. ASSUME NEW i \in Slot
      PROVE  /\ h[i].uid = s[i].uid
             /\ i <= num => h[i].msg = IF s[i].msg = Null THEN at ELSE s[i].msg
  <2>1. CASE i <= num /\ s[i].msg = Null
    <3>1. h[i] = [uid |-> s[i].uid, msg |-> at]
      BY <1>1, <2>1
    <3> QED BY <2>1, <3>1
  <2>2. CASE ~(i <= num /\ s[i].msg = Null)
    <3>1. h[i] = s[i]
      BY <1>1, <2>2
    <3> QED BY <2>2, <3>1
  <2> QED BY <2>1, <2>2
<1>4. Occupied(h) = Occupied(s)
  BY <1>3 DEF Occupied
<1>5. \A i \in Slot : ~(i <= num) => h[i] = s[i]
  BY <1>1
<1>6. ASSUME num = 0 PROVE h = s
  <2>1. \A i \in Slot : h[i] = s[i]
    BY <1>5, <1>6, SlotIsNotZero
  <2> QED BY <2>1, <1>2
<1> QED BY <1>3, <1>4, <1>5, <1>6 DEF h

\* The ring b, after somebody may have been dropped, has the users of q it has room for.
Kept(b) ==
    /\ b.num \in Nat /\ b.num <= q.num
    /\ b.slot \in [Slot -> [uid : User \cup {NoUser}, msg : Pointer]]
    /\ \A j \in 1 .. b.num : b.slot[j] = q.slot[j]
    /\ Occupied(b.slot) = IF changing.step = "taken" THEN 1 .. b.num + 1 ELSE 1 .. b.num
    /\ changing # NotChanging => b.num = q.num /\ b.slot = q.slot

\* The user that has a slot and is not counted yet.
Pending == IF changing.step = "taken" THEN {q.slot[changing.slot].uid} ELSE {}

\* Who is owed the report: the users of the slots that are counted.
LEMMA OwedIs ==
  ASSUME Types, Calls, Users, NEW b, Kept(b)
  PROVE  /\ \A j \in 1 .. b.num : q.slot[j].uid \in User /\ q.slot[j].uid \in Subscribers(b) \ Pending
         /\ \A u \in Subscribers(b) \ Pending : \E j \in 1 .. b.num : b.slot[j].uid = u
<1>1. /\ b.num \in Nat /\ q.num \in Nat /\ b.num <= q.num /\ 1 .. b.num \subseteq 1 .. q.num /\ 1 .. q.num \subseteq Slot
      /\ 1 .. q.num \subseteq InUse
  BY TypeFacts DEF Kept, InUse
<1>2. ASSUME NEW j \in 1 .. b.num
      PROVE  q.slot[j].uid \in User /\ q.slot[j].uid \in Subscribers(b) \ Pending
  <2>1. j \in Slot /\ j \in InUse /\ b.slot[j] = q.slot[j] /\ j \in 1 .. q.num
    BY <1>1 DEF Kept
  <2>2. q.slot[j].uid # NoUser
    BY <2>1 DEF Users, Occupied
  <2>3. q.slot[j].uid \in User
    BY <2>1, <2>2, TypeFacts
  <2>4. q.slot[j].uid \in Subscribers(b)
    BY <2>1, <2>2 DEF Subscribers
  <2>5. q.slot[j].uid \notin Pending
    <3>1. CASE changing.step = "taken"
      <4>1. changing.slot = q.num + 1 /\ changing.slot \in InUse /\ changing.slot # j
        BY <1>1, <2>1, <3>1 DEF Calls, InUse
      <4>2. q.slot[changing.slot].uid # q.slot[j].uid
        BY <2>1, <4>1 DEF Users
      <4> QED BY <4>2 DEF Pending
    <3>2. CASE changing.step # "taken"
      BY <3>2 DEF Pending
    <3> QED BY <3>1, <3>2
  <2> QED BY <2>3, <2>4, <2>5
<1>3. ASSUME NEW u \in Subscribers(b) \ Pending PROVE \E j \in 1 .. b.num : b.slot[j].uid = u
  <2>1. PICK i \in Slot : b.slot[i].uid = u /\ u # NoUser
    BY DEF Subscribers
  <2>2. i \in Occupied(b.slot)
    BY <2>1 DEF Occupied
  <2>3. CASE changing.step = "taken"
    <3>1. i \in 1 .. b.num + 1 /\ b.num = q.num /\ b.slot = q.slot /\ changing.slot = q.num + 1
      BY <2>2, <2>3 DEF Kept, Calls, NotChanging
    <3>2. i # changing.slot
      BY <2>1, <2>3, <3>1 DEF Pending
    <3>3. i \in 1 .. b.num
      BY <3>1, <3>2, <1>1
    <3> QED BY <2>1, <3>3
  <2>4. CASE changing.step # "taken"
    BY <2>1, <2>2, <2>4 DEF Kept
  <2> QED BY <2>3, <2>4
<1> QED BY <1>2, <1>3

\* The reader that was preempted before it has left the mask keeps its slot.
Unmoved(b) == reading.step \in BeforeMask => b.slot[reading.slot] = q.slot[reading.slot]

\* The calls that were preempted, and the users, after a report.
LEMMA ReportKeepsUsers ==
  ASSUME Types, Calls, Users, NEW b, Kept(b), Unmoved(b), NEW at \in Addr,
         IsRing(q'), q'.size = IdleSize(q'.begin, q'.end), q'.num = b.num, q'.slot = Handed(b.slot, b.num, at),
         owed' = [u \in User |-> IF u \in Subscribers(b) \ Pending THEN Append(owed[u], at) ELSE <<>>],
         UNCHANGED <<reading, changing>>
  PROVE  Types' /\ Calls' /\ Users'
<1>1. /\ b.num \in Nat /\ q.num \in Nat /\ b.num <= q.num /\ 1 .. b.num \subseteq 1 .. q.num /\ 1 .. q.num \subseteq Slot
      /\ b.slot \in [Slot -> [uid : User \cup {NoUser}, msg : Pointer]]
      /\ \A j \in 1 .. b.num : b.slot[j] = q.slot[j]
  BY TypeFacts DEF Kept
<1>2. /\ \A i \in Slot : q'.slot[i].uid = b.slot[i].uid
      /\ \A i \in Slot : ~(i <= b.num) => q'.slot[i] = b.slot[i]
      /\ \A i \in Slot : i <= b.num => q'.slot[i].msg = IF b.slot[i].msg = Null THEN at ELSE b.slot[i].msg
      /\ Occupied(q'.slot) = Occupied(b.slot)
  <2>1. PICK s : s = b.slot
    OBVIOUS
  <2>2. PICK m : m = b.num
    OBVIOUS
  <2>3. s \in [Slot -> [uid : User \cup {NoUser}, msg : Pointer]] /\ m \in Nat /\ q'.slot = Handed(s, m, at)
    BY <1>1, <2>1, <2>2
  <2> QED BY <2>1, <2>2, <2>3, HandedIs
<1>3. Types'
  <2>1. \A u \in User : owed[u] \in Seq(Addr) /\ Append(owed[u], at) \in Seq(Addr) /\ <<>> \in Seq(Addr)
    BY AppendFacts DEF Types
  <2>2. owed' = [u \in User |-> owed'[u]] /\ \A u \in User : owed'[u] \in Seq(Addr)
    BY <2>1, Zenon
  <2>3. /\ reading' \in ReadRecord \cup {NotReading}
        /\ changing' \in [step : {"taken", "found", "vacated"}, slot : Slot, head : Pointer] \cup {NotChanging}
    BY Zenon DEF Types
  <2> QED BY <2>2, <2>3, Zenon DEF Types
<1>4. changing # NotChanging => q'.num = q.num /\ b.slot = q.slot
  BY DEF Kept
<1>5. changing.step \in {"taken", "found", "vacated"} => changing # NotChanging
  BY DEF NotChanging
<1>6. Calls'
  <2>1. reading' = NotReading \/ changing' = NotChanging
    BY DEF Calls
  <2>2. changing'.step = "found" => changing'.slot \in 1 .. q'.num
    BY <1>4, <1>5 DEF Calls
  <2>3. changing'.step \in {"taken", "vacated"} => changing'.slot = q'.num + 1
    BY <1>4, <1>5 DEF Calls
  <2>4. ASSUME changing'.step = "taken" PROVE q'.slot[changing'.slot].msg = Null
    <3>1. changing.step = "taken" /\ changing # NotChanging /\ changing.slot = q.num + 1 /\ q.slot[changing.slot].msg = Null
      BY <2>4, <1>5 DEF Calls
    <3>2. changing.slot \in Slot
      BY <3>1, TypeFacts DEF UserCall
    <3>3. ~(changing.slot <= b.num) /\ b.slot = q.slot
      BY <3>1, <1>1, <1>4
    <3> QED BY <3>1, <3>2, <3>3, <1>2
  <2>5. ASSUME reading'.step \in BeforeMask
        PROVE  reading'.slot \in 1 .. q'.num /\ reading'.node = q'.slot[reading'.slot].msg
    <3>1. /\ reading # NotReading /\ reading.slot \in 1 .. q.num /\ changing = NotChanging
          /\ reading.node = q.slot[reading.slot].msg /\ reading.step \in BeforeMask
      BY <2>5 DEF Calls, NotReading, BeforeMask
    <3>2. b.slot[reading.slot] = q.slot[reading.slot] /\ reading.slot \in Slot /\ reading.slot \in InUse
      BY <3>1, <1>1 DEF Unmoved, InUse, NotChanging
    <3>3. reading.slot \in Occupied(b.slot)
      BY <3>2 DEF Users, Occupied
    <3>4. Occupied(b.slot) = 1 .. b.num
      BY <3>1 DEF Kept, NotChanging
    <3>5. reading.slot \in 1 .. b.num /\ reading.slot <= b.num
      BY <3>3, <3>4
    <3>6. reading.node \in Addr
      BY <3>1, TypeFacts DEF ReadCall
    <3>7. q.slot[reading.slot].msg # Null
      BY <3>1, <3>6, ConstantsAreInt DEF Addr, Null
    <3>8. q'.slot[reading.slot].msg = q.slot[reading.slot].msg
      BY <3>2, <3>5, <3>7, <1>2
    <3> QED BY <3>1, <3>5, <3>8
  <2> QED BY <2>1, <2>2, <2>3, <2>4, <2>5 DEF Calls
<1>7. InUse' = IF changing.step = "taken" THEN 1 .. b.num + 1 ELSE 1 .. b.num
  BY DEF InUse
<1>8. Users'
  <2>1. Occupied(q'.slot) = InUse'
    BY <1>2, <1>7 DEF Kept
  <2>2. ASSUME NEW i \in InUse' PROVE i \in InUse /\ i \in Slot /\ q'.slot[i].uid = q.slot[i].uid
    <3>1. i \in Slot /\ q'.slot[i].uid = b.slot[i].uid
      BY <2>1, <1>2 DEF Occupied
    <3>2. CASE changing.step = "taken"
      <4>1. b.num = q.num /\ b.slot = q.slot
        BY <3>2, <1>5 DEF Kept
      <4> QED BY <3>1, <3>2, <4>1, <1>7 DEF InUse
    <3>3. CASE changing.step # "taken"
      <4>1. i \in 1 .. b.num
        BY <3>3, <1>7
      <4> QED BY <3>1, <3>3, <4>1, <1>1 DEF InUse
    <3> QED BY <3>2, <3>3
  <2>3. \A i, j \in InUse' : q'.slot[i].uid = q'.slot[j].uid => i = j
    BY <2>2 DEF Users
  <2>4. ASSUME NEW u \in User, owed'[u] # <<>> PROVE \E i \in 1 .. q'.num : q'.slot[i].uid = u
    <3>1. u \in Subscribers(b) \ Pending
      BY <2>4
    <3>2. PICK j \in 1 .. b.num : b.slot[j].uid = u
      BY <3>1, OwedIs
    <3>3. j \in Slot
      BY <1>1
    <3> QED BY <3>2, <3>3, <1>2
  <2> QED BY <2>1, <2>3, <2>4 DEF Users
<1> QED BY <1>3, <1>6, <1>8

\* The ring b has room for a report of n bytes, and is what the users left have still to read.
Ready(b, ls, sz, mk, n) ==
    /\ Kept(b)
    /\ Holds(b, ls, sz, mk)
    /\ b.num = 0 => ls = <<>>
    /\ Roomy(b.begin, ls)
    /\ Spacious(Behind(Placed(b.begin, n), n), Append(ls, Placed(b.begin, n)), Append(mk, 1 .. b.num), MaxUser)
    /\ \A k \in 1 .. Len(mk) : /\ mk[k] \subseteq (1 .. b.num) \cup Left
                               /\ mk[k] = {} => k = 1 /\ reading.step \in AfterMask /\ reading.node = ls[1]
    /\ Halfway(ls, mk)
    /\ Serves(ls, mk, 1 .. b.num, Oldest, Due, 1)
    /\ changing.step \in {"found", "vacated"} => \E h \in 1 .. Len(ls) + 1 : changing.head = At(ls, h)

\* The report written and linked is the last that everybody has still to read.
LEMMA ReportIsQueued ==
  ASSUME Types, Calls, Users, NEW b, NEW ls, NEW sz, NEW mk, NEW n \in Sizes, Ready(b, ls, sz, mk, n), Unmoved(b),
         reading.step \in {"loaded", "freed"} => reading.next # Null, NEW also, also \subseteq Pointer,
         q' = Collected(IF b.num = 0 THEN Wrapped(b, n) ELSE Linked(Wrapped(b, n), n), also),
         owed' = [u \in User |-> IF u \in Subscribers(b) \ Pending THEN Append(owed[u], Placed(b.begin, n)) ELSE <<>>],
         UNCHANGED <<reading, changing>>
  PROVE  /\ Types' /\ Calls' /\ Users' /\ \E l2, s2, m2 : Queued(l2, s2, m2)'
         /\ \A i \in Slot : q'.slot[i].uid = b.slot[i].uid
<1> DEFINE L == Len(ls)
<1>0. /\ ls \in Seq(Addr) /\ sz \in Seq(Sizes) /\ mk \in Seq(SUBSET Slot) /\ Len(sz) = L /\ Len(mk) = L
      /\ L \in Nat /\ Laid(b.begin, ls, sz) /\ IsRing(b) /\ Holds(b, ls, sz, mk) /\ b.begin \in Addr
      /\ Roomy(b.begin, ls) /\ Kept(b)
  BY DEF Ready, Holds, Chain, Laid
<1>1. /\ b.num \in Nat /\ q.num \in Nat /\ b.num <= q.num /\ 1 .. b.num \subseteq 1 .. q.num /\ 1 .. q.num \subseteq Slot
      /\ b.slot \in [Slot -> [uid : User \cup {NoUser}, msg : Pointer]]
      /\ \A j \in 1 .. b.num : b.slot[j] = q.slot[j]
  BY <1>0, TypeFacts DEF Kept
<1>2. PICK at : at = Placed(b.begin, n)
  OBVIOUS
<1>3. at \in Addr
  <2>1. 0 \in Addr
    BY ConstantsAreInt DEF Addr
  <2> QED BY <1>0, <1>2, <2>1 DEF Placed
<1>4. owed' = [u \in User |-> IF u \in Subscribers(b) \ Pending THEN Append(owed[u], at) ELSE <<>>]
  BY <1>2, Zenon
<1>5. Left' = Left
  BY DEF Left
<1>6. CASE b.num = 0
  <2>1. ls = <<>> /\ b.begin = 0
    BY <1>0, <1>6 DEF Ready, Laid
  <2>2. Wrapped(b, n) = b
    BY <2>1, LongestIsLong, ConstantsAreInt DEF Wrapped
  <2>3. q' = Collected(b, also)
    BY <2>2, <1>6
  <2>4. Holds(q', ls, sz, mk) /\ q'.slot = b.slot /\ q'.num = b.num /\ q'.begin = b.begin
    BY <1>0, <2>3, CollectedHolds
  <2>5. q'.slot = Handed(b.slot, b.num, at)
    <3>1. PICK s : s = b.slot
      OBVIOUS
    <3>2. PICK m : m = b.num
      OBVIOUS
    <3>3. Handed(s, m, at) = s
      BY <1>1, <1>3, <1>6, <3>1, <3>2, HandedIs
    <3> QED BY <2>4, <3>1, <3>2, <3>3
  <2>6. IsRing(q') /\ q'.size = IdleSize(q'.begin, q'.end)
    BY <2>4 DEF Holds
  <2>7. Types' /\ Calls' /\ Users'
    BY <1>0, <1>3, <1>4, <2>4, <2>5, <2>6, ReportKeepsUsers
  <2>8. Queued(ls, sz, mk)'
    <3>1. Spacious(q'.begin, ls, mk, MaxUser)
      BY <2>1 DEF Spacious
    <3>2. Masked(ls, mk)'
      <4>1. Len(mk) = 0
        BY <1>0, <2>1
      <4> QED BY <4>1 DEF Masked
    <3>3. Serves(ls, mk, 1 .. q'.num, Oldest', Due', 1)
      BY <1>6, <2>4 DEF Serves
    <3>4. /\ changing'.step \in {"found", "vacated"} => \E h \in 1 .. Len(ls) + 1 : changing'.head = At(ls, h)
          /\ Halfway(ls, mk)'
      BY DEF Ready, Halfway
    <3> QED BY <2>1, <2>4, <3>1, <3>2, <3>3, <3>4 DEF Queued
  <2> QED BY <2>4, <2>7, <2>8, Zenon
<1>7. CASE b.num # 0
  <2> DEFINE r == Linked(Wrapped(b, n), n)
  <2>1. LinkedAs(b, r, ls, sz, mk, n)
    BY <1>0, LinkedIs
  <2> HIDE DEF r
  <2>2. PICK l2, s2, m2 : l2 = Append(ls, at) /\ s2 = Append(sz, n) /\ m2 = Append(mk, 1 .. b.num)
    OBVIOUS
  <2>3. /\ Holds(r, l2, s2, m2) /\ r.slot = Handed(b.slot, b.num, at) /\ r.num = b.num /\ r.begin = Behind(at, n)
    BY <1>2, <2>1, <2>2 DEF LinkedAs
  <2>4. q' = Collected(r, also)
    BY <1>7 DEF r
  <2>5. /\ Holds(q', l2, s2, m2) /\ q'.slot = Handed(b.slot, b.num, at) /\ q'.num = b.num
        /\ q'.begin = Behind(at, n)
    <3>1. Holds(q', l2, s2, m2) /\ q'.slot = r.slot /\ q'.num = r.num /\ q'.begin = r.begin
      BY <2>3, <2>4, CollectedHolds
    <3> QED BY <3>1, <2>3
  <2>6. IsRing(q') /\ q'.size = IdleSize(q'.begin, q'.end)
    BY <2>5 DEF Holds
  <2>7. Types' /\ Calls' /\ Users'
    BY <1>0, <1>3, <1>4, <2>5, <2>6, ReportKeepsUsers
  <2>8. /\ \A i \in Slot : q'.slot[i].uid = b.slot[i].uid
        /\ \A i \in Slot : i <= b.num => q'.slot[i].msg = IF b.slot[i].msg = Null THEN at ELSE b.slot[i].msg
    <3>1. PICK s : s = b.slot
      OBVIOUS
    <3>2. PICK m : m = b.num
      OBVIOUS
    <3>3. s \in [Slot -> [uid : User \cup {NoUser}, msg : Pointer]] /\ m \in Nat /\ q'.slot = Handed(s, m, at)
      BY <1>1, <2>5, <3>1, <3>2
    <3> QED BY <1>3, <3>1, <3>2, <3>3, HandedIs
  <2>9. /\ l2 \in Seq(Addr) /\ l2 # <<>> /\ Len(l2) = L + 1 /\ l2[L + 1] = at /\ \A k \in 1 .. L : l2[k] = ls[k]
    BY <1>0, <1>3, <2>2, AppendFacts
  <2>10. 1 .. b.num \in SUBSET Slot /\ 1 .. b.num # {}
    BY <1>1, <1>7
  <2>11. Len(m2) = L + 1 /\ m2[L + 1] = 1 .. b.num /\ \A k \in 1 .. L : m2[k] = mk[k]
    <3>1. PICK new : new = 1 .. b.num
      OBVIOUS
    <3>2. m2 = Append(mk, new) /\ new \in SUBSET Slot
      BY <2>2, <2>10, <3>1
    <3>3. Len(m2) = Len(mk) + 1 /\ m2[Len(mk) + 1] = new /\ \A k \in 1 .. Len(mk) : m2[k] = mk[k]
      BY <1>0, <3>2, AppendFacts
    <3> QED BY <1>0, <3>1, <3>3
  <2>12. Masked(l2, m2)'
    <3>1. ASSUME NEW k \in 1 .. Len(m2)
          PROVE  /\ m2[k] \subseteq (1 .. q'.num) \cup Left'
                 /\ m2[k] = {} => k = 1 /\ reading'.step \in AfterMask /\ reading'.node = l2[1]
      <4>1. CASE k = L + 1
        BY <4>1, <2>5, <2>10, <2>11
      <4>2. CASE k # L + 1
        <5>1. k \in 1 .. L /\ k \in 1 .. Len(mk) /\ 1 \in 1 .. L
          BY <4>2, <1>0, <2>11
        <5>2. /\ mk[k] \subseteq (1 .. b.num) \cup Left
              /\ mk[k] = {} => k = 1 /\ reading.step \in AfterMask /\ reading.node = ls[1]
          BY <5>1 DEF Ready
        <5> QED BY <5>1, <5>2, <1>5, <2>5, <2>9, <2>11
      <4> QED BY <4>1, <4>2
    <3> QED BY <3>1 DEF Masked
  <2>13. ASSUME NEW j \in 1 .. b.num PROVE Reads(l2, m2, j, Oldest'[j], Due'[j], 1)
    <3>1. j \in Slot /\ j <= b.num /\ b.slot[j] = q.slot[j] /\ j \in 1 .. b.num
      BY <1>1
    <3>2. PICK from, due : from = Oldest[j] /\ due = Due[j]
      OBVIOUS
    <3>3. Reads(ls, mk, j, from, due, 1)
      BY <3>2 DEF Ready, Serves
    <3>4. Reads(l2, m2, j, IF from = Null THEN at ELSE from, Append(due, at), 1)
      <4>1. PICK new : new = 1 .. b.num
        OBVIOUS
      <4>2. m2 = Append(mk, new) /\ new \in SUBSET Slot /\ j \in new
        BY <2>2, <2>10, <4>1
      <4>3. /\ ls \in Seq(Addr) /\ mk \in Seq(SUBSET Slot) /\ Len(mk) = Len(ls)
            /\ l2 = Append(ls, at) /\ at \in Addr
        BY <1>0, <1>3, <2>2
      <4>4. Reads(Append(ls, at), Append(mk, new), j, IF from = Null THEN at ELSE from, Append(due, at), 1)
        BY <3>3, <4>2, <4>3, ReadsMore, ZenonT(40)
      <4> QED BY <4>2, <4>3, <4>4
    <3>5. Due'[j] = Append(due, at)
      <4>1. q.slot[j].uid \in User /\ q.slot[j].uid \in Subscribers(b) \ Pending
        BY <1>0, OwedIs
      <4>2. q'.slot[j].uid = q.slot[j].uid
        BY <2>8, <3>1
      <4>3. owed'[q.slot[j].uid] = Append(owed[q.slot[j].uid], at)
        BY <1>4, <4>1, Zenon
      <4> QED BY <3>1, <3>2, <4>2, <4>3 DEF Due
    <3>6. Oldest'[j] = IF from = Null THEN at ELSE from
      <4>1. Oldest'[j] = Unread(j)' /\ from = Unread(j)
        BY <3>1, <3>2 DEF Oldest
      <4>2. CASE reading.step = "loaded" /\ reading.slot = j
        <5>1. Unread(j)' = reading.next /\ from = reading.next /\ reading.next # Null
          BY <4>1, <4>2, SMT DEF Unread
        <5> QED BY <4>1, <5>1
      <4>3. CASE ~(reading.step = "loaded" /\ reading.slot = j)
        <5>1. Unread(j)' = q'.slot[j].msg /\ from = q.slot[j].msg
          BY <4>1, <4>3, SMT DEF Unread
        <5> QED BY <4>1, <5>1, <2>8, <3>1
      <4> QED BY <4>2, <4>3
    <3> QED BY <3>4, <3>5, <3>6
  <2>14. Queued(l2, s2, m2)'
    <3>1. q'.num # 0
      BY <1>7, <2>5
    <3>2. Spacious(q'.begin, l2, m2, MaxUser)
      BY <1>2, <2>2, <2>5 DEF Ready
    <3>3. Serves(l2, m2, 1 .. q'.num, Oldest', Due', 1)
      BY <2>5, <2>13 DEF Serves
    <3>4. ASSUME changing'.step \in {"found", "vacated"} PROVE \E h \in 1 .. Len(l2) + 1 : changing'.head = At(l2, h)
      <4>1. PICK h \in 1 .. L + 1 : changing.head = At(ls, h)
        BY <3>4 DEF Ready
      <4>2. CASE h \in 1 .. L
        <5>1. At(l2, h) = At(ls, h) /\ h \in 1 .. Len(l2) + 1
          BY <4>2, <1>0, <2>9 DEF At
        <5> QED BY <4>1, <5>1
      <4>3. CASE h = L + 1
        <5>1. At(l2, L + 2) = Null /\ At(ls, h) = Null /\ L + 2 \in 1 .. Len(l2) + 1
          BY <4>3, <1>0, <2>9 DEF At
        <5> QED BY <4>1, <5>1
      <4> QED BY <1>0, <4>2, <4>3
    <3>5. Halfway(l2, m2)'
      <4>1. ASSUME reading.step = "masked" PROVE \E p \in 1 .. Len(l2) : reading.node = l2[p] /\ reading.mask = m2[p]
        <5>1. PICK p \in 1 .. L : reading.node = ls[p] /\ reading.mask = mk[p]
          BY <4>1 DEF Ready, Halfway
        <5>2. p \in 1 .. Len(l2) /\ l2[p] = ls[p] /\ m2[p] = mk[p]
          BY <1>0, <2>9, <2>11
        <5> QED BY <5>1, <5>2
      <4>2. ASSUME reading.step = "freed"
            PROVE  l2 # <<>> /\ m2[1] = {} /\ reading.node = l2[1] /\ reading.next = At(l2, 2)
        <5>1. ls # <<>> /\ mk[1] = {} /\ reading.node = ls[1] /\ reading.next = At(ls, 2) /\ At(ls, 2) # Null
          BY <4>2 DEF Ready, Halfway
        <5>2. 1 \in 1 .. L /\ 2 \in 1 .. L
          BY <1>0, <5>1 DEF At
        <5>3. l2[1] = ls[1] /\ m2[1] = mk[1] /\ At(l2, 2) = At(ls, 2)
          BY <1>0, <2>9, <2>11, <5>2 DEF At
        <5> QED BY <2>9, <5>1, <5>3
      <4> QED BY <4>1, <4>2 DEF Halfway
    <3> QED BY <2>5, <2>12, <3>1, <3>2, <3>3, <3>4, <3>5 DEF Queued
  <2> QED BY <2>7, <2>8, <2>14, Zenon
<1> QED BY <1>6, <1>7

\* A report for which there is room in excess.
LEMMA UncrowdedIsReady ==
  ASSUME Types, Calls, Users, NEW ls, NEW sz, NEW mk, Queued(ls, sz, mk), ~Crowded(q), NEW n \in Sizes
  PROVE  Ready(q, ls, sz, mk, n)
<1> DEFINE at == Placed(q.begin, n)
           c  == Behind(at, n)
<1>0. /\ ls \in Seq(Addr) /\ sz \in Seq(Sizes) /\ mk \in Seq(SUBSET Slot) /\ Len(sz) = Len(ls) /\ Len(mk) = Len(ls)
      /\ Laid(q.begin, ls, sz) /\ Holds(q, ls, sz, mk) /\ q.begin \in Addr /\ q.end = EndOf(ls) /\ q.end \in Addr
      /\ q.size = IdleSize(q.begin, q.end)
  BY DEF Queued, Holds, Chain, Laid, IsRing
<1>1. Kept(q)
  <2>1. /\ q.num \in Nat /\ q.num <= q.num /\ q.slot \in [Slot -> [uid : User \cup {NoUser}, msg : Pointer]]
    BY TypeFacts
  <2> QED BY <2>1 DEF Kept, Users, InUse
<1>2. IdleSize(q.begin, EndOf(ls)) >= Threshold
  <2>1. q.size \in Int
    BY <1>0, ConstantsAreInt DEF IdleSize, Addr
  <2>2. q.size >= Threshold
    BY <2>1, ConstantsAreInt DEF Crowded
  <2> QED BY <1>0, <2>2
<1>3. Roomy(q.begin, ls) /\ (ls # <<>> => RingSize - Dist(q.begin, ls[1]) >= Threshold)
  BY <1>0, <1>2, UncrowdedIsRoomy
<1>4. at \in Addr /\ c \in Addr /\ \A k \in 1 .. Len(ls) : Dist(c, ls[k]) = Dist(q.begin, ls[k]) + Moved(q.begin, n)
  BY <1>0, <1>3, MoreIsLaid
<1>5. 1 .. q.num \in SUBSET Slot
  BY TypeFacts
<1>6. Spacious(c, Append(ls, at), Append(mk, 1 .. q.num), MaxUser)
  <2>1. PICK new : new = 1 .. q.num
    OBVIOUS
  <2>2. PICK x, y : x = at /\ y = c
    OBVIOUS
  <2>3. /\ x = Placed(q.begin, n) /\ y = Behind(x, n) /\ x \in Addr /\ y \in Addr /\ new \in SUBSET Slot
        /\ \A k \in 1 .. Len(ls) : Dist(y, ls[k]) = Dist(q.begin, ls[k]) + Moved(q.begin, n)
    BY <1>4, <1>5, <2>1, <2>2
  <2>4. Spacious(y, Append(ls, x), Append(mk, new), MaxUser)
    BY <1>0, <1>3, <2>3, FreshIsSpacious
  <2> QED BY <2>1, <2>2, <2>4
<1>7. /\ (q.num = 0 => ls = <<>>) /\ Masked(ls, mk) /\ Halfway(ls, mk) /\ Serves(ls, mk, 1 .. q.num, Oldest, Due, 1)
      /\ (changing.step \in {"found", "vacated"} => \E h \in 1 .. Len(ls) + 1 : changing.head = At(ls, h))
  BY DEF Queued
<1> QED BY <1>0, <1>1, <1>3, <1>6, <1>7 DEF Ready, Masked

\* A report for which users are dropped that have not read the oldest.
LEMMA CrowdedIsReady ==
  ASSUME Types, Calls, Users, NEW ls, NEW sz, NEW mk, Queued(ls, sz, mk), changing = NotChanging,
         ls # <<>>, mk[1] # {}, reading.step \notin {"masked", "freed"}, NEW n \in Sizes, NEW e, e = Evicted(q), ~Sparse(e)
  PROVE  /\ \E l2, s2, m2 : Ready(e, l2, s2, m2, n)
         /\ \A j \in 1 .. q.num : j \in mk[1] <=> e.slot[j].uid = NoUser
<1>0. /\ ls \in Seq(Addr) /\ sz \in Seq(Sizes) /\ mk \in Seq(SUBSET Slot) /\ Len(sz) = Len(ls) /\ Len(mk) = Len(ls)
      /\ Holds(q, ls, sz, mk) /\ Spacious(q.begin, ls, mk, MaxUser)
      /\ Serves(ls, mk, 1 .. q.num, Oldest, Due, 1)
  BY DEF Queued, Holds, Chain
<1>1. changing.step = "none" /\ Left = {} /\ InUse = 1 .. q.num
  BY DEF NotChanging, Left, InUse
<1>2. Occupied(q.slot) = 1 .. q.num /\ \A k \in 1 .. Len(mk) : mk[k] \subseteq 1 .. q.num
  BY <1>1 DEF Users, Queued, Masked
<1>3. PICK late, from, due : late = mk[1] /\ from = Oldest /\ due = Due
  OBVIOUS
<1>4. PICK l2, s2, m2 : EvictedWell(q, e, late, l2, s2, m2, from, due)
  <2>1. Occupied(e.slot) = 1 .. e.num \/ e.num = 0
    BY DEF Sparse
  <2>2. late # {} /\ Serves(ls, mk, 1 .. q.num, from, due, 1)
    BY <1>0, <1>3
  <2> QED BY <1>0, <1>2, <1>3, <2>1, <2>2, EvictedIsWell
<1>5. /\ Holds(e, l2, s2, m2) /\ e.num \in Nat /\ e.num < q.num /\ Occupied(e.slot) = 1 .. e.num
      /\ \A j \in 1 .. e.num : j \in 1 .. q.num /\ e.slot[j] = q.slot[j]
      /\ \A j \in 1 .. q.num : j \in mk[1] <=> e.slot[j].uid = NoUser
      /\ Manned(m2, 1 .. e.num) /\ Serves(l2, m2, 1 .. e.num, Oldest, Due, 1)
      /\ Spacious(e.begin, l2, m2, MaxUser - 1)
      /\ e.num = 0 => l2 = <<>>
  BY <1>3, <1>4 DEF EvictedWell
<1>6. /\ l2 \in Seq(Addr) /\ s2 \in Seq(Sizes) /\ m2 \in Seq(SUBSET Slot) /\ Len(s2) = Len(l2) /\ Len(m2) = Len(l2)
      /\ Laid(e.begin, l2, s2) /\ e.begin \in Addr /\ IsRing(e)
      /\ e.slot \in [Slot -> [uid : User \cup {NoUser}, msg : Pointer]]
  BY <1>5 DEF Holds, Chain, Laid, IsRing
<1>7. Kept(e)
  <2>1. e.num <= q.num
    BY <1>5, TypeFacts
  <2> QED BY <1>1, <1>5, <1>6, <2>1 DEF Kept
<1>8. Roomy(e.begin, l2)
  <2>1. \A k \in 1 .. Len(l2) : m2[k] # {}
    BY <1>5, <1>6 DEF Manned
  <2> QED BY <1>5, <1>6, <2>1, SpaciousIsRoomy
<1> DEFINE at == Placed(e.begin, n)
           c  == Behind(at, n)
<1>9. at \in Addr /\ c \in Addr /\ \A k \in 1 .. Len(l2) : Dist(c, l2[k]) = Dist(e.begin, l2[k]) + Moved(e.begin, n)
  BY <1>6, <1>8, MoreIsLaid
<1>10. 1 .. e.num \in SUBSET Slot
  BY <1>7, TypeFacts DEF Kept
<1>11. Spacious(c, Append(l2, at), Append(m2, 1 .. e.num), MaxUser)
  <2>1. PICK new : new = 1 .. e.num
    OBVIOUS
  <2>2. PICK x, y : x = at /\ y = c
    OBVIOUS
  <2>3. PICK d, b : d = Moved(e.begin, n) /\ b = e.begin
    OBVIOUS
  <2>4. /\ x = Placed(b, n) /\ y = Behind(x, n) /\ x \in Addr /\ y \in Addr /\ new \in SUBSET Slot
        /\ \A k \in 1 .. Len(l2) : Dist(y, l2[k]) = Dist(b, l2[k]) + d
        /\ Laid(b, l2, s2) /\ Spacious(b, l2, m2, MaxUser - 1) /\ d \in Nat
    <3>1. d \in Nat
      BY <1>6, <2>3, LongestIsLong, ConstantsAreInt DEF Moved, Addr
    <3> QED BY <1>5, <1>6, <1>9, <1>10, <2>1, <2>2, <2>3, <3>1
  <2>5. Spacious(y, Append(l2, x), Append(m2, new), MaxUser)
    <3>1. CASE l2 # <<>>
      BY <1>6, <2>4, <3>1, MoreIsSpacious
    <3>2. CASE l2 = <<>>
      <4>1. (l2 # <<>> => RingSize - Dist(b, l2[1]) >= Threshold) /\ \A k \in 1 .. Len(l2) : Dist(y, l2[k]) = Dist(b, l2[k]) + Moved(b, n)
        BY <2>3, <2>4, <3>2
      <4> QED BY <1>6, <2>4, <4>1, FreshIsSpacious
    <3> QED BY <3>1, <3>2
  <2> QED BY <2>1, <2>2, <2>5
<1>12. \A k \in 1 .. Len(m2) : m2[k] \subseteq (1 .. e.num) \cup Left /\ m2[k] # {}
  BY <1>5 DEF Manned
<1>13. Ready(e, l2, s2, m2, n)
  <2>1. Halfway(l2, m2)
    BY DEF Halfway
  <2> QED BY <2>1, <1>1, <1>5, <1>7, <1>8, <1>11, <1>12 DEF Ready
<1> QED BY <1>5, <1>13

\* The parts of AddReport, under names of their own.
Base       == IF Crowded(q) THEN Evicted(q) ELSE q
Lost       == q.first \notin DOMAIN q.mem \/ ~Sound(q.mem, q.first)
Wild(w, n) == w.num # 0 /\ (w.num > MaxUser \/ ~Sound(Written(w, n), w.first))

\* What a report does as long as no hazard happens.
Reported(w, n) ==
    /\ q' = Collected(IF w.num = 0 THEN w ELSE Linked(w, n), {reading.node, changing.head, freeing.node})
    /\ owed' = [u \in User |-> IF u \in Subscribers(w) \ Pending THEN Append(owed[u], w.begin) ELSE <<>>]
    /\ UNCHANGED <<reading, changing, freeing, crashed>>

\* AddReport is those parts, and no hazard happens in it.
LEMMA ReportSteps ==
  ASSUME NEW n, AddReport(n), spoilt' = {}, NEW w, w = Wrapped(Base, n)
  PROVE  /\ freeing = NotFreeing
         /\ ~(Crowded(q) /\ changing # NotChanging)
         /\ ~(Crowded(q) /\ Lost) => ~(Crowded(q) /\ Sparse(w)) /\ ~Caught(Crowded(q), w)
         /\ ~((Crowded(q) /\ Lost) \/ Wild(w, n)) => Reported(w, n)
<1>1. /\ "change preempted" \in Hazard /\ "read preempted" \in Hazard /\ "slots sparse" \in Hazard
      /\ "stores preempted" \in Hazard
  BY DEF Hazard
<1> DEFINE lost   == Crowded(q) /\ Lost
           caught == Caught(Crowded(q), w)
<1>2. /\ spoilt' = spoilt \cup
           {h \in Hazard : \/ h = "change preempted" /\ Crowded(q) /\ changing # NotChanging
                           \/ h = "stores preempted" /\ freeing # NotFreeing
                           \/ h = "slots sparse" /\ Crowded(q) /\ ~lost /\ Sparse(w)
                           \/ h = "read preempted" /\ ~lost /\ caught}
      /\ IF lost \/ Wild(w, n) THEN Crash ELSE Reported(w, n)
  BY Zenon DEF AddReport, Base, Lost, Wild, Reported, Pending
<1> HIDE DEF lost, caught
<1>3. /\ freeing = NotFreeing /\ ~(Crowded(q) /\ changing # NotChanging)
      /\ ~(Crowded(q) /\ ~lost /\ Sparse(w)) /\ ~(~lost /\ caught)
  BY <1>1, <1>2
<1>4. ~(lost \/ Wild(w, n)) => Reported(w, n)
  BY <1>2
<1> QED BY <1>3, <1>4 DEF lost, caught

\* A report that nobody is there to get: the bytes before the ring's edge may be left.
LEMMA UnreadReportIsSane ==
  ASSUME Types, Calls, Users, ~crashed, freeing = NotFreeing, Gone, ~Crowded(q), NEW n \in Sizes,
         NEW w, w = Wrapped(q, n), Reported(w, n)
  PROVE  ~crashed' /\ Types' /\ Calls' /\ Users' /\ Gone'
<1>0. IsRing(q) /\ q.size = IdleSize(q.begin, q.end) /\ q.num = 0 /\ changing.step = "vacated"
      /\ q.slot \in [Slot -> [uid : User \cup {NoUser}, msg : Pointer]] /\ q.begin \in Addr /\ q.end \in Addr
  BY TypeFacts DEF Gone, IsRing
<1>1. /\ w = [mem |-> q.mem, first |-> q.first, begin |-> Placed(q.begin, n), end |-> q.end,
              size |-> w.size, slot |-> q.slot, num |-> q.num]
      /\ w.mem = q.mem /\ w.first = q.first /\ w.begin = Placed(q.begin, n) /\ w.end = q.end
      /\ w.slot = q.slot /\ w.num = q.num
  BY <1>0, WrappedIs
<1>2. PICK at : at = Placed(q.begin, n)
  OBVIOUS
<1>3. at \in Addr
  <2>1. 0 \in Addr
    BY ConstantsAreInt DEF Addr
  <2> QED BY <1>0, <1>2, <2>1 DEF Placed
<1>4. w.size = IdleSize(w.begin, w.end)
  <2>1. CASE n > RingSize - q.begin
    <3>1. w.size = 1 + q.end /\ w.begin = 0
      BY <1>0, <1>1, <2>1 DEF Wrapped, Placed, IsRing
    <3> QED BY <1>0, <1>1, <3>1, ConstantsAreInt DEF IdleSize, Addr
  <2>2. CASE ~(n > RingSize - q.begin)
    <3>1. w = q
      BY <2>2 DEF Wrapped
    <3> QED BY <1>0, <3>1
  <2> QED BY <2>1, <2>2
<1>5. IsRing(w)
  <2>1. /\ w = [mem |-> w.mem, first |-> w.first, begin |-> w.begin, end |-> w.end,
                size |-> w.size, slot |-> w.slot, num |-> w.num]
    BY <1>1
  <2> QED BY <1>0, <1>1, <1>2, <1>3, <2>1 DEF IsRing
<1>6. q' = Collected(w, {reading.node, changing.head, freeing.node})
  BY <1>0, <1>1 DEF Reported
<1>7. {reading.node, changing.head, freeing.node} \subseteq Pointer
  BY TypeFacts DEF NotFreeing, Pointer
<1>8. IsRing(q') /\ q'.size = IdleSize(q'.begin, q'.end) /\ q'.num = q.num /\ q'.slot = q.slot
  <2>1. IsRing(q') /\ q' = [w EXCEPT !.mem = q'.mem]
    BY <1>5, <1>6, <1>7, CollectedKeeps
  <2>2. q'.size = w.size /\ q'.begin = w.begin /\ q'.end = w.end /\ q'.num = w.num /\ q'.slot = w.slot
    BY <1>5, <2>1 DEF IsRing
  <2> QED BY <1>1, <1>4, <2>1, <2>2
<1>9. q'.slot = Handed(q.slot, q.num, at)
  <2>1. PICK s : s = q.slot
    OBVIOUS
  <2>2. PICK m : m = q.num
    OBVIOUS
  <2>3. Handed(s, m, at) = s
    BY <1>0, <1>3, <2>1, <2>2, HandedIs
  <2> QED BY <1>8, <2>1, <2>2, <2>3
<1>10. Kept(q) /\ Unmoved(q)
  <2>1. q.num \in Nat /\ q.num <= q.num
    BY TypeFacts
  <2> QED BY <1>0, <2>1 DEF Kept, Unmoved, Users, InUse
<1>11. owed' = [u \in User |-> IF u \in Subscribers(q) \ Pending THEN Append(owed[u], at) ELSE <<>>]
  <2>1. Subscribers(w) = Subscribers(q) /\ w.begin = at
    BY <1>1, <1>2 DEF Subscribers
  <2> QED BY <2>1, Zenon DEF Reported
<1>12. reading' = reading /\ changing' = changing /\ crashed' = crashed
  BY DEF Reported
<1>13. Types' /\ Calls' /\ Users'
  BY <1>3, <1>8, <1>9, <1>10, <1>11, <1>12, ReportKeepsUsers
<1> QED BY <1>0, <1>8, <1>12, <1>13 DEF Gone

\* The users the report costs.
DropsLate ==
    \A i \in Occupied(q.slot) :
       q'.slot[i].uid = NoUser <=> /\ q.size < Threshold
                                   /\ owed[q.slot[i].uid] # <<>>
                                   /\ Head(owed[q.slot[i].uid]) = q.first

\* Whose slot is in the oldest node's mask has to read it next.
LEMMA LateIsFirst ==
  ASSUME NEW ls \in Seq(Addr), NEW mk \in Seq(SUBSET Slot), Len(mk) = Len(ls), ls # <<>>, Distinct(ls),
         NEW i, NEW from, NEW due, Reads(ls, mk, i, from, due, 1)
  PROVE  i \in mk[1] <=> due # <<>> /\ Head(due) = ls[1]
<1>1. PICK p \in 1 .. Len(ls) + 1 : due = Rest(ls, p) /\ \A k \in 1 .. Len(ls) : i \in mk[k] <=> k >= p
  BY DEF Reads
<1>2. Len(ls) \in Nat /\ 1 \in 1 .. Len(ls)
  OBVIOUS
<1>3. /\ due \in Seq(Addr) /\ Len(due) = Len(ls) - p + 1
      /\ \A k \in 1 .. Len(ls) - p + 1 : due[k] = ls[k + p - 1]
  BY <1>1, RestFacts
<1>4. due # <<>> => Head(due) = due[1]
  BY <1>3
<1>5. i \in mk[1] <=> p = 1
  BY <1>1, <1>2
<1>6. CASE p = Len(ls) + 1
  <2>1. due = <<>> /\ p # 1
    BY <1>2, <1>3, <1>6
  <2> QED BY <2>1, <1>5
<1>7. CASE p # Len(ls) + 1
  <2>1. p \in 1 .. Len(ls) /\ 1 \in 1 .. Len(ls) - p + 1 /\ 1 + p - 1 = p
    BY <1>2, <1>7
  <2>2. due # <<>> /\ due[1] = ls[p]
    BY <1>3, <2>1
  <2>3. ls[p] = ls[1] <=> p = 1
    BY <1>2, <2>1 DEF Distinct
  <2> QED BY <1>4, <1>5, <2>2, <2>3
<1> QED BY <1>6, <1>7

\* A report.
LEMMA AddReportIsSane ==
  ASSUME Sane, ~crashed, NEW n \in Sizes, AddReport(n), spoilt' = {}
  PROVE  freeing' = NotFreeing /\ ~crashed' /\ Sane' /\ DropsLate
<1>0. Types /\ Calls /\ Users
  BY DEF Sane
<1>1. PICK w : w = Wrapped(Base, n)
  OBVIOUS
<1>2. /\ freeing = NotFreeing /\ ~(Crowded(q) /\ changing # NotChanging)
      /\ ~(Crowded(q) /\ Lost) => ~(Crowded(q) /\ Sparse(w)) /\ ~Caught(Crowded(q), w)
      /\ ~((Crowded(q) /\ Lost) \/ Wild(w, n)) => Reported(w, n)
  BY <1>1, ReportSteps
<1>3. /\ IsRing(q) /\ q.size = IdleSize(q.begin, q.end) /\ q.num \in Nat /\ q.num <= MaxUser
      /\ {reading.node, changing.head, freeing.node} \subseteq Pointer
      /\ q.slot \in [Slot -> [uid : User \cup {NoUser}, msg : Pointer]]
  BY <1>0, <1>2, TypeFacts DEF NotFreeing, Pointer
<1>4. Crowded(q) <=> q.size < Threshold
  BY DEF Crowded
<1>5. ASSUME ~Crowded(q), \A i \in Slot : q'.slot[i].uid = q.slot[i].uid PROVE DropsLate
  BY <1>4, <1>5 DEF DropsLate, Occupied
\* Whatever ring the report is written to, if it is ready for it.
<1>6. ASSUME NEW b, b = Base, NEW ls, NEW sz, NEW mk, Ready(b, ls, sz, mk, n), ~(Crowded(q) /\ Lost)
      PROVE  freeing' = NotFreeing /\ ~crashed' /\ Sane' /\ (\A i \in Slot : q'.slot[i].uid = b.slot[i].uid)
  <2>1. /\ Holds(b, ls, sz, mk) /\ Roomy(b.begin, ls) /\ Kept(b) /\ IsRing(b)
    BY <1>6 DEF Ready, Holds
  <2>2. w = Wrapped(b, n)
    BY <1>1, <1>6
  <2>3. /\ w.begin = Placed(b.begin, n) /\ w.slot = b.slot /\ w.num = b.num
    BY <2>1, <2>2, WrappedIs
  <2>4. ~Wild(w, n)
    <3>1. Sound(Written(w, n), w.first)
      BY <2>1, <2>2, WrittenIsSound
    <3>2. b.num <= MaxUser /\ b.num \in Nat
      BY <2>1, ConstantsAreInt DEF IsRing
    <3> QED BY <2>3, <3>1, <3>2, ConstantsAreInt DEF Wild
  <2>5. Reported(w, n) /\ ~Caught(Crowded(q), w)
    BY <1>2, <1>6, <2>4
  <2>6. reading' = reading /\ changing' = changing /\ crashed' = crashed /\ freeing' = NotFreeing
    BY <1>2, <2>5 DEF Reported
  <2>7. Unmoved(b) /\ (reading.step \in {"loaded", "freed"} => reading.next # Null)
    BY <2>3, <2>5 DEF Caught, Unmoved, BeforeMask
  <2>8. PICK also : also = {reading.node, changing.head, freeing.node}
    OBVIOUS
  <2>9. q' = Collected(IF b.num = 0 THEN Wrapped(b, n) ELSE Linked(Wrapped(b, n), n), also) /\ also \subseteq Pointer
    BY <1>3, <2>2, <2>3, <2>5, <2>8, Zenon DEF Reported
  <2>10. owed' = [u \in User |-> IF u \in Subscribers(b) \ Pending THEN Append(owed[u], Placed(b.begin, n)) ELSE <<>>]
    <3>1. Subscribers(w) = Subscribers(b)
      BY <2>3 DEF Subscribers
    <3> QED BY <2>3, <2>5, <3>1, Zenon DEF Reported
  <2>11. /\ Types' /\ Calls' /\ Users' /\ \E l2, s2, m2 : Queued(l2, s2, m2)'
         /\ \A i \in Slot : q'.slot[i].uid = b.slot[i].uid
    <3>1. Ready(b, ls, sz, mk, n) /\ UNCHANGED <<reading, changing>>
      BY <1>6, <2>6
    <3>2. Unmoved(b) /\ (reading.step \in {"loaded", "freed"} => reading.next # Null) /\ also \subseteq Pointer
      BY <2>7, <2>9
    <3> QED BY <1>0, <2>9, <2>10, <3>1, <3>2, ReportIsQueued
  <2>12. Sane'
    BY <2>11, Zenon DEF Sane
  <2> QED BY <2>6, <2>11, <2>12
<1>7. CASE Gone
  <2>1. ~Crowded(q) /\ q.num = 0 /\ Base = q
    <3>1. changing # NotChanging
      BY <1>7 DEF Gone, NotChanging
    <3> QED BY <1>2, <1>7, <3>1 DEF Gone, Base
  <2>2. w = Wrapped(q, n) /\ w.num = 0 /\ w.slot = q.slot
    BY <1>1, <1>3, <2>1, WrappedIs
  <2>3. Reported(w, n)
    BY <1>2, <2>1, <2>2 DEF Wild
  <2>4. ~crashed' /\ Types' /\ Calls' /\ Users' /\ Gone'
    BY <1>0, <1>2, <1>7, <2>1, <2>2, <2>3, UnreadReportIsSane
  <2>5. Occupied(q.slot) = {}
    <3>1. InUse = 1 .. 0
      BY <1>7 DEF InUse, Gone
    <3> QED BY <1>0, <3>1 DEF Users
  <2>6. DropsLate
    BY <2>5 DEF DropsLate
  <2>7. Sane'
    BY <2>4, Zenon DEF Sane
  <2>8. freeing' = NotFreeing
    BY <1>2, <2>3 DEF Reported
  <2> QED BY <2>4, <2>6, <2>7, <2>8
<1>8. CASE ~Gone
  <2>1. PICK ls, sz, mk : Queued(ls, sz, mk)
    BY <1>8 DEF Sane
  <2>2. /\ ls \in Seq(Addr) /\ sz \in Seq(Sizes) /\ mk \in Seq(SUBSET Slot) /\ Len(sz) = Len(ls) /\ Len(mk) = Len(ls)
        /\ Laid(q.begin, ls, sz) /\ Holds(q, ls, sz, mk) /\ Chain(q.mem, ls, sz, mk) /\ IsMem(q.mem)
        /\ q.end = EndOf(ls) /\ q.first = At(ls, 1)
    BY <2>1 DEF Queued, Holds, Chain, IsRing
  <2>3. CASE ~Crowded(q)
    <3>1. PICK b : b = q
      OBVIOUS
    <3>2. Ready(q, ls, sz, mk, n) /\ Base = q
      BY <1>0, <2>1, <2>3, UncrowdedIsReady DEF Base
    <3>3. Ready(b, ls, sz, mk, n) /\ b = Base
      BY <3>1, <3>2
    <3>4. freeing' = NotFreeing /\ ~crashed' /\ Sane' /\ (\A i \in Slot : q'.slot[i].uid = b.slot[i].uid)
      BY <1>6, <2>3, <3>3
    <3> QED BY <1>5, <2>3, <3>1, <3>4
  <2>4. CASE Crowded(q)
    <3>1. changing = NotChanging
      BY <1>2, <2>4
    <3>2. ls # <<>>
      <4> SUFFICES ASSUME ls = <<>> PROVE FALSE
        OBVIOUS
      <4>1. q.begin = 0 /\ q.end = RingSize - 1
        BY <2>2 DEF Laid, EndOf
      <4>2. q.size = RingSize
        BY <1>3, <4>1, ConstantsAreInt DEF IdleSize
      <4> QED BY <2>4, <4>2, ConstantsAreInt DEF Crowded
    <3>3. 1 \in 1 .. Len(ls) /\ 1 \in 1 .. Len(mk) /\ q.first = ls[1] /\ Len(ls) <= RingSize /\ Distinct(ls)
      <4>1. Distinct(ls)
        BY <2>2, LaidIsDistinct
      <4>2. 1 \in 1 .. Len(ls) /\ 1 \in 1 .. Len(mk)
        BY <2>2, <3>2
      <4> QED BY <2>2, <4>1, <4>2 DEF Distinct, At
    <3>4. q.first \in DOMAIN q.mem /\ q.mem[q.first].mask = mk[1]
      <4>1. /\ ls[1] \in DOMAIN q.mem
            /\ q.mem[ls[1]] = [size |-> sz[1], next |-> At(ls, 1 + 1), mask |-> mk[1]]
        BY <2>2, <3>3 DEF Chain
      <4> QED BY <3>3, <4>1
    <3>5. ~Lost
      <4>1. Sound(q.mem, At(ls, 1))
        <5>1. 1 \in 1 .. Len(ls) + 1
          BY <3>3
        <5> QED BY <2>2, <3>3, <5>1, ListIsPath
      <4> QED BY <2>2, <3>4, <4>1 DEF Lost
    <3>6. ~Sparse(w) /\ ~Caught(Crowded(q), w)
      BY <1>2, <2>4, <3>5
    <3>7. mk[1] # {} /\ reading.step \notin {"masked", "freed"}
      <4>1. mk[1] # {}
        <5> SUFFICES ASSUME mk[1] = {} PROVE FALSE
          OBVIOUS
        <5>1. reading.step \in AfterMask /\ q.first = reading.node /\ q.mem[q.first].mask = {}
          BY <2>1, <3>3, <3>4 DEF Queued, Masked
        <5> QED BY <2>4, <3>6, <5>1 DEF Caught, AfterMask
      <4>2. reading.step # "freed"
        BY <2>1, <4>1 DEF Queued, Halfway
      <4>3. reading.step # "masked"
        BY <2>4, <3>6 DEF Caught
      <4> QED BY <4>1, <4>2, <4>3
    <3>8. PICK e : e = Evicted(q)
      OBVIOUS
    <3>9. Base = e /\ w = Wrapped(e, n)
      BY <1>1, <2>4, <3>8 DEF Base
    <3>10. ~Sparse(e)
      <4>1. w.slot = e.slot /\ w.num = e.num
        <5>1. CASE n > RingSize - e.begin
          <6>1. w = [e EXCEPT !.begin = 0, !.size = 1 + e.end]
            BY <3>9, <5>1 DEF Wrapped
          <6> QED BY <6>1
        <5>2. CASE ~(n > RingSize - e.begin)
          <6>1. w = e
            BY <3>9, <5>2 DEF Wrapped
          <6> QED BY <6>1
        <5> QED BY <5>1, <5>2
      <4> QED BY <3>6, <4>1 DEF Sparse
    <3>11. PICK l2, s2, m2 : Ready(e, l2, s2, m2, n)
      BY <1>0, <2>1, <3>1, <3>2, <3>7, <3>8, <3>10, CrowdedIsReady
    <3>12. \A j \in 1 .. q.num : j \in mk[1] <=> e.slot[j].uid = NoUser
      BY <1>0, <2>1, <3>1, <3>2, <3>7, <3>8, <3>10, CrowdedIsReady
    <3>13. freeing' = NotFreeing /\ ~crashed' /\ Sane' /\ (\A i \in Slot : q'.slot[i].uid = e.slot[i].uid)
      BY <1>6, <3>5, <3>9, <3>11
    <3>14. DropsLate
      <4> SUFFICES ASSUME NEW i \in Occupied(q.slot)
                   PROVE  q'.slot[i].uid = NoUser <=> /\ q.size < Threshold
                                                      /\ owed[q.slot[i].uid] # <<>>
                                                      /\ Head(owed[q.slot[i].uid]) = q.first
        BY DEF DropsLate
      <4>1. i \in 1 .. q.num /\ i \in Slot
        BY <1>0, <3>1 DEF Users, InUse, NotChanging, Occupied
      <4>2. q'.slot[i].uid = NoUser <=> i \in mk[1]
        BY <3>12, <3>13, <4>1
      <4>3. PICK from, due : from = Oldest[i] /\ due = Due[i]
        OBVIOUS
      <4>4. Reads(ls, mk, i, from, due, 1)
        BY <2>1, <4>1, <4>3 DEF Queued, Serves
      <4>5. i \in mk[1] <=> due # <<>> /\ Head(due) = ls[1]
        BY <2>2, <3>2, <3>3, <4>4, LateIsFirst
      <4>6. due = owed[q.slot[i].uid]
        BY <4>1, <4>3 DEF Due
      <4> QED BY <1>4, <2>4, <3>3, <4>2, <4>5, <4>6
    <3> QED BY <3>13, <3>14
  <2> QED BY <2>3, <2>4
<1> QED BY <1>7, <1>8

-----------------------------------------------------------------------------
(* The invariant holds.                                                    *)

\* A hazard that has happened is not forgotten.
LEMMA SpoiltStays == ASSUME [Next]_vars PROVE spoilt \subseteq spoilt'
<1>1. ASSUME NEW u \in User, Subscribe(u) PROVE spoilt' = spoilt
  BY <1>1, Zenon DEF Subscribe
<1>2. ASSUME NEW i \in Slot, Unsubscribe(i) \/ ReadBegin(i) PROVE spoilt' = spoilt
  BY <1>2, Zenon DEF Unsubscribe, ReadBegin
<1>3. SubscribeEnd \/ UnsubscribeLast => spoilt' = spoilt
  BY Zenon DEF SubscribeEnd, UnsubscribeLast
<1>4. UnsubscribeVacate => spoilt \subseteq spoilt'
  BY DEF UnsubscribeVacate
<1>5. ASSUME UnsubscribeWalk PROVE spoilt \subseteq spoilt'
  <2>1. spoilt' = spoilt \/ \E s : spoilt' = spoilt \cup s
    BY <1>5, Zenon DEF UnsubscribeWalk
  <2> QED BY <2>1
<1>6. ReadMask \/ ReadLoad \/ ReadStore \/ ReadTest \/ ReadFirst \/ ReadEnd => spoilt' = spoilt
  BY Zenon DEF ReadMask, ReadLoad, ReadStore, ReadTest, ReadFirst, ReadEnd
<1>7. ForgetFirst \/ ForgetBegin \/ ForgetEnd \/ ForgetSize => spoilt' = spoilt
  BY Zenon DEF ForgetFirst, ForgetBegin, ForgetEnd, ForgetSize, Forget
<1>8. AdvanceEnd \/ AdvanceMeasure \/ AdvanceSize => spoilt' = spoilt
  BY Zenon DEF AdvanceEnd, AdvanceMeasure, AdvanceSize
<1>9. ASSUME NEW n \in Sizes, AddReport(n) PROVE spoilt \subseteq spoilt'
  <2>1. \E s : spoilt' = spoilt \cup s
    BY <1>9, Zenon DEF AddReport
  <2> QED BY <2>1
<1>10. UNCHANGED vars => spoilt' = spoilt
  BY DEF vars
<1> QED BY <1>1, <1>2, <1>3, <1>4, <1>5, <1>6, <1>7, <1>8, <1>9, <1>10 DEF Next

\* Nothing happens.
LEMMA StutterIsSane ==
  ASSUME ~crashed, UNCHANGED vars
  PROVE  ~crashed' /\ freeing' = freeing /\ (Sane => Sane') /\ (Freeing => Freeing')
<1>1. q' = q /\ reading' = reading /\ changing' = changing /\ freeing' = freeing /\ owed' = owed /\ crashed' = crashed
  BY DEF vars
<1>2. ASSUME Sane PROVE Sane'
  <2>1. Types' /\ Calls' /\ Users' /\ (Gone => Gone')
    BY <1>1, <1>2 DEF Sane, Types, Calls, Users, Gone, InUse
  <2>2. ASSUME NEW ls, NEW sz, NEW mk, Queued(ls, sz, mk) PROVE Queued(ls, sz, mk)'
    <3>1. ASSUME NEW i \in Slot PROVE Oldest'[i] = Oldest[i] /\ Due'[i] = Due[i]
      <4>1. Unread(i)' = Unread(i)
        BY <1>1, SMT DEF Unread
      <4> QED BY <1>1, <4>1 DEF Oldest, Due
    <3>2. 1 .. q.num \subseteq Slot
      BY <1>2, TypeFacts DEF Sane
    <3>3. Serves(ls, mk, 1 .. q'.num, Oldest', Due', 1)
      BY <1>1, <2>2, <3>1, <3>2 DEF Queued, Serves
    <3>4. Masked(ls, mk)' /\ Halfway(ls, mk)'
      BY <1>1, <2>2 DEF Queued, Masked, Left, Halfway
    <3> QED BY <1>1, <2>2, <3>3, <3>4 DEF Queued
  <2> QED BY <1>2, <2>1, <2>2, Zenon DEF Sane
<1>3. ASSUME Freeing PROVE Freeing'
  <2>1. Completed' = Completed /\ (Shielded => Shielded') /\ q' = Header(q.first, q.begin, q.end, q.size)'
    BY <1>1, <1>3 DEF Freeing, Completed, Header, Shielded
  <2> QED BY <1>1, <1>3, <2>1 DEF Freeing
<1> QED BY <1>1, <1>2, <1>3

\* The invariant, once it is known that no hazard has happened.
StillSane == ~crashed' /\ IF freeing' = NotFreeing THEN Sane' ELSE Freeing'

\* Every step keeps the invariant.
LEMMA StepIsSane == ASSUME IInv, [Next]_vars PROVE IInv'
<1> SUFFICES ASSUME spoilt' = {} PROVE StillSane
  BY DEF IInv, StillSane
<1>1. ~crashed /\ IF freeing = NotFreeing THEN Sane ELSE Freeing
  BY SpoiltStays DEF IInv
<1>2. CASE UNCHANGED vars
  BY <1>1, <1>2, StutterIsSane DEF StillSane
<1>3. ASSUME freeing = NotFreeing, Next PROVE StillSane
  <2>0. ~crashed /\ Sane
    BY <1>1, <1>3
  <2>1. ASSUME NEW u \in User, Subscribe(u) PROVE StillSane
    <3>1. ~crashed' /\ Sane'
      BY <2>0, <2>1, SubscribeIsSane
    <3>2. freeing' = freeing
      BY <2>1, Zenon DEF Subscribe, Crash
    <3> QED BY <3>1, <3>2, <1>3 DEF StillSane
  <2>2. ASSUME NEW i \in Slot, Unsubscribe(i) PROVE StillSane
    <3>1. ~crashed' /\ Sane' /\ freeing' = freeing
      BY <2>0, <2>2, UnsubscribeIsSane DEF Unsubscribe
    <3> QED BY <3>1, <1>3 DEF StillSane
  <2>3. ASSUME NEW i \in Slot, ReadBegin(i) PROVE StillSane
    <3>1. ~crashed' /\ Sane' /\ freeing' = freeing
      BY <2>0, <2>3, ReadBeginIsSane DEF ReadBegin
    <3> QED BY <3>1, <1>3 DEF StillSane
  <2>4. CASE SubscribeEnd
    <3>1. ~crashed' /\ Sane' /\ freeing' = freeing
      BY <2>0, <2>4, SubscribeEndIsSane DEF SubscribeEnd
    <3> QED BY <3>1, <1>3 DEF StillSane
  <2>5. CASE UnsubscribeVacate
    <3>1. ~crashed' /\ Sane'
      BY <2>0, <2>5, UnsubscribeVacateIsSane
    <3>2. freeing' = freeing
      BY <2>5, Zenon DEF UnsubscribeVacate
    <3> QED BY <3>1, <3>2, <1>3 DEF StillSane
  <2>6. CASE UnsubscribeLast
    <3>1. ~crashed' /\ Sane' /\ freeing' = freeing
      BY <2>0, <2>6, UnsubscribeLastIsSane DEF UnsubscribeLast
    <3> QED BY <3>1, <1>3 DEF StillSane
  <2>7. CASE UnsubscribeWalk
    BY <2>0, <2>7, UnsubscribeWalkFrees DEF StillSane
  <2>8. CASE ReadMask
    <3>1. ~crashed' /\ Sane'
      BY <2>0, <2>8, ReadMaskIsSane
    <3>2. freeing' = freeing
      BY <2>8, Zenon DEF ReadMask, Crash
    <3> QED BY <3>1, <3>2, <1>3 DEF StillSane
  <2>9. CASE ReadLoad
    <3>1. ~crashed' /\ Sane'
      BY <2>0, <2>9, ReadLoadIsSane
    <3>2. freeing' = freeing
      BY <2>9, Zenon DEF ReadLoad, Crash
    <3> QED BY <3>1, <3>2, <1>3 DEF StillSane
  <2>10. CASE ReadStore
    <3>1. ~crashed' /\ Sane' /\ freeing' = freeing
      BY <2>0, <2>10, ReadStoreIsSane DEF ReadStore
    <3> QED BY <3>1, <1>3 DEF StillSane
  <2>11. CASE ReadTest
    <3>1. ~crashed' /\ Sane'
      BY <2>0, <2>11, ReadTestIsSane
    <3>2. freeing' = freeing
      BY <2>11, Zenon DEF ReadTest
    <3> QED BY <3>1, <3>2, <1>3 DEF StillSane
  <2>12. CASE ReadFirst
    BY <2>0, <2>12, ReadFirstFrees DEF StillSane
  <2>13. ~ReadEnd /\ ~AdvanceEnd /\ ~AdvanceMeasure /\ ~AdvanceSize
    BY <1>3 DEF NotFreeing, ReadEnd, AdvanceEnd, AdvanceMeasure, AdvanceSize
  <2>14. ~ForgetFirst /\ ~ForgetBegin /\ ~ForgetEnd /\ ~ForgetSize
    BY <1>3, Zenon DEF NotFreeing, ForgetFirst, ForgetBegin, ForgetEnd, ForgetSize, Forget
  <2>15. ASSUME NEW n \in Sizes, AddReport(n) PROVE StillSane
    BY <2>0, <2>15, AddReportIsSane DEF StillSane
  <2> QED BY <1>3, <2>1, <2>2, <2>3, <2>4, <2>5, <2>6, <2>7, <2>8, <2>9, <2>10, <2>11, <2>12, <2>13, <2>14, <2>15 DEF Next
<1>4. ASSUME freeing # NotFreeing, Next PROVE StillSane
  <2>0. ~crashed /\ Freeing
    BY <1>1, <1>4
  <2>1. reading.step = "none" /\ changing.step = "none"
    BY <2>0 DEF Freeing, NotReading, NotChanging
  <2>2. ASSUME NEW u \in User PROVE ~Subscribe(u)
    BY <1>4, Zenon DEF Subscribe, SystemCall
  <2>3. ASSUME NEW i \in Slot PROVE ~Unsubscribe(i) /\ ~ReadBegin(i)
    BY <1>4, Zenon DEF Unsubscribe, ReadBegin, SystemCall
  <2>4. ~SubscribeEnd /\ ~UnsubscribeVacate /\ ~UnsubscribeLast /\ ~UnsubscribeWalk
    BY <2>1 DEF SubscribeEnd, UnsubscribeVacate, UnsubscribeLast, UnsubscribeWalk
  <2>5. ~ReadMask /\ ~ReadLoad /\ ~ReadStore /\ ~ReadTest /\ ~ReadFirst
    BY <2>1 DEF ReadMask, ReadLoad, ReadStore, ReadTest, ReadFirst
  <2>6. ASSUME ReadEnd \/ ForgetFirst \/ ForgetBegin \/ ForgetEnd \/ AdvanceEnd \/ AdvanceMeasure PROVE StillSane
    BY <2>0, <2>6, FreeingGoesOn DEF StillSane
  <2>7. ASSUME ForgetSize \/ AdvanceSize PROVE StillSane
    BY <2>0, <2>7, FreeingEnds DEF StillSane
  <2>8. ASSUME NEW n \in Sizes PROVE ~AddReport(n)
    <3>1. PICK w : w = Wrapped(Base, n)
      OBVIOUS
    <3> QED BY <3>1, <1>4, ReportSteps
  <2> QED BY <1>4, <2>2, <2>3, <2>4, <2>5, <2>6, <2>7, <2>8, Zenon DEF Next
<1> QED BY <1>2, <1>3, <1>4

\* As long as no hazard has happened, the ring holds the reports that somebody has still to
\* read, in order, linked, and each subscriber's pointer is at the first of its own.
THEOREM RingIsSane == Spec => []IInv
<1>1. Init => IInv
  BY InitIsSane
<1>2. IInv /\ [Next]_vars => IInv'
  BY StepIsSane
<1> QED BY <1>1, <1>2, PTL DEF Spec

-----------------------------------------------------------------------------
(* What it says of the subscribers.                                        *)

\* Each slot's user has in the ring what it is owed.
LEMMA SubscriberReads ==
  ASSUME Types, Calls, Users, NEW ls, NEW sz, NEW mk, Queued(ls, sz, mk), NEW i \in Occupied(q.slot)
  PROVE  \E p \in 1 .. Len(ls) + 1 : Unread(i) = At(ls, p) /\ owed[q.slot[i].uid] = Rest(ls, p)
<1>1. i \in Slot /\ i \in InUse /\ Len(ls) \in Nat /\ ls \in Seq(Addr) /\ q.num \in Nat
  BY TypeFacts DEF Occupied, Users, Queued, Holds, Chain
<1>2. CASE i \in 1 .. q.num
  <2>1. Reads(ls, mk, i, Oldest[i], Due[i], 1)
    BY <1>2 DEF Queued, Serves
  <2>2. Oldest[i] = Unread(i) /\ Due[i] = owed[q.slot[i].uid]
    BY <1>1 DEF Oldest, Due
  <2> QED BY <2>1, <2>2 DEF Reads
<1>3. CASE i \notin 1 .. q.num
  <2>1. changing.step = "taken" /\ i = q.num + 1 /\ changing.slot = i
    BY <1>1, <1>3 DEF InUse, Calls
  <2>2. q.slot[i].msg = Null /\ reading = NotReading
    BY <2>1 DEF Calls, NotChanging
  <2>3. Unread(i) = Null
    BY <2>2, SMT DEF Unread, NotReading
  <2>4. q.slot[i].uid \in User
    BY <1>1, TypeFacts DEF Occupied
  <2>5. owed[q.slot[i].uid] = <<>>
    <3> SUFFICES ASSUME owed[q.slot[i].uid] # <<>> PROVE FALSE
      OBVIOUS
    <3>1. PICK j \in 1 .. q.num : q.slot[j].uid = q.slot[i].uid
      BY <2>4 DEF Users
    <3>2. j \in InUse /\ j # i
      BY <1>1, <1>3, <2>1 DEF InUse
    <3> QED BY <1>1, <3>1, <3>2 DEF Users
  <2>6. At(ls, Len(ls) + 1) = Null /\ Rest(ls, Len(ls) + 1) = <<>> /\ Len(ls) + 1 \in 1 .. Len(ls) + 1
    BY <1>1, RestIsEmpty DEF At
  <2> QED BY <2>3, <2>5, <2>6
<1> QED BY <1>2, <1>3

\* Nobody has a slot after the last user has left.
LEMMA GoneIsNobody == ASSUME Types, Users, Gone PROVE Occupied(q.slot) = {}
<1>1. InUse = 1 .. 0
  BY DEF Gone, InUse
<1> QED BY <1>1 DEF Users

\* Each user will read what it is owed.
LEMMA SaneDelivers == ASSUME Sane, ~crashed PROVE Delivers
<1>0. Types /\ Calls /\ Users
  BY DEF Sane
<1>1. CASE Gone
  BY <1>0, <1>1, GoneIsNobody DEF Delivers
<1>2. CASE ~Gone
  <2>1. PICK ls, sz, mk : Queued(ls, sz, mk)
    BY <1>2 DEF Sane
  <2>2. /\ ls \in Seq(Addr) /\ sz \in Seq(Sizes) /\ Len(sz) = Len(ls) /\ Laid(q.begin, ls, sz)
        /\ Chain(q.mem, ls, sz, mk) /\ IsMem(q.mem)
    BY <2>1 DEF Queued, Holds, Chain, IsRing
  <2>3. Len(ls) <= RingSize
    BY <2>2, LaidIsDistinct DEF Distinct
  <2>4. ASSUME NEW i \in Occupied(q.slot)
        PROVE  Sound(q.mem, Unread(i)) /\ Path(q.mem, Unread(i)) = owed[q.slot[i].uid]
    <3>1. PICK p \in 1 .. Len(ls) + 1 : Unread(i) = At(ls, p) /\ owed[q.slot[i].uid] = Rest(ls, p)
      BY <1>0, <2>1, SubscriberReads
    <3>2. Sound(q.mem, At(ls, p)) /\ Path(q.mem, At(ls, p)) = Rest(ls, p)
      BY <2>2, <2>3, ListIsPath
    <3> QED BY <3>1, <3>2
  <2> QED BY <2>4 DEF Delivers
<1> QED BY <1>1, <1>2

\* So it is with the ring at rest.
LEMMA RestDelivers ==
  ASSUME NEW r, Rests(r, owed), NEW i \in Occupied(r.slot)
  PROVE  /\ Sound(r.mem, r.slot[i].msg) /\ Path(r.mem, r.slot[i].msg) = owed[r.slot[i].uid]
         /\ \A x \in OnPath(r.mem, r.slot[i].msg) : Bytes(x, r.mem[x].size) \cap IdleBytes(r) = {}
         /\ r.first = Null => OnPath(r.mem, r.slot[i].msg) = {}
<1>1. PICK ls, sz, mk :
         /\ Holds(r, ls, sz, mk)
         /\ Serves(ls, mk, 1 .. r.num, [k \in Slot |-> r.slot[k].msg], [k \in Slot |-> owed[r.slot[k].uid]], 1)
  BY Zenon DEF Rests
<1>2. i \in 1 .. r.num /\ i \in Slot
  BY DEF Rests, Occupied
<1>3. PICK p \in 1 .. Len(ls) + 1 : r.slot[i].msg = At(ls, p) /\ owed[r.slot[i].uid] = Rest(ls, p)
  BY <1>1, <1>2 DEF Serves, Reads
<1>4. /\ ls \in Seq(Addr) /\ sz \in Seq(Sizes) /\ Len(sz) = Len(ls) /\ Laid(r.begin, ls, sz) /\ Len(ls) \in Nat
      /\ Chain(r.mem, ls, sz, mk) /\ IsMem(r.mem) /\ r.end = EndOf(ls) /\ r.first = At(ls, 1)
  BY <1>1 DEF Holds, Chain, IsRing
<1>5. Len(ls) <= RingSize
  BY <1>4, LaidIsDistinct DEF Distinct
<1>6. /\ Sound(r.mem, At(ls, p)) /\ Path(r.mem, At(ls, p)) = Rest(ls, p)
      /\ OnPath(r.mem, At(ls, p)) = {ls[k] : k \in p .. Len(ls)}
  BY <1>4, <1>5, ListIsPath
<1>7. ASSUME r.first = Null PROVE OnPath(r.mem, At(ls, p)) = {}
  <2>1. Len(ls) = 0
    <3> SUFFICES ASSUME Len(ls) # 0 PROVE FALSE
      OBVIOUS
    <3>1. ls[1] \in Addr /\ r.first = ls[1]
      BY <1>4 DEF At
    <3> QED BY <3>1, <1>7, ConstantsAreInt DEF Addr, Null
  <2>2. p .. Len(ls) = {}
    BY <2>1
  <2> QED BY <2>2, <1>6
<1>8. ASSUME NEW x \in OnPath(r.mem, At(ls, p)) PROVE Bytes(x, r.mem[x].size) \cap IdleBytes(r) = {}
  BY <1>4, ListIsOffIdle
<1> QED BY <1>3, <1>6, <1>7, <1>8

\* While a header is stored each slot's pointer is at the first of its user's reports.
LEMMA FreeingReads ==
  ASSUME Freeing
  PROVE  /\ Completed.mem = q.mem /\ Completed.slot = q.slot /\ Completed.first \in {q.first, Null}
         /\ \A i \in Slot : Unread(i) = q.slot[i].msg
<1>1. reading.step = "none"
  BY DEF Freeing, NotReading
<1>2. \A i \in Slot : Unread(i) = q.slot[i].msg
  BY <1>1 DEF Unread
<1>3. Completed.mem = q.mem /\ Completed.slot = q.slot /\ Completed.first \in {q.first, Null}
  BY DEF Completed, Header
<1> QED BY <1>2, <1>3

\* Each user will read what it is owed while a header is stored, too.
LEMMA FreeingDelivers == ASSUME Freeing, ~crashed PROVE Delivers
<1>1. PICK r : r = Completed
  OBVIOUS
<1>2. Rests(r, owed) /\ r.mem = q.mem /\ r.slot = q.slot
  BY <1>1, FreeingReads DEF Freeing
<1>3. ASSUME NEW i \in Occupied(q.slot)
      PROVE  Sound(q.mem, Unread(i)) /\ Path(q.mem, Unread(i)) = owed[q.slot[i].uid]
  <2>1. i \in Occupied(r.slot) /\ Unread(i) = q.slot[i].msg
    BY <1>2, FreeingReads DEF Occupied
  <2>2. Sound(r.mem, r.slot[i].msg) /\ Path(r.mem, r.slot[i].msg) = owed[r.slot[i].uid]
    BY <1>2, <2>1, RestDelivers
  <2> QED BY <1>2, <2>1, <2>2
<1> QED BY <1>3 DEF Delivers

\* Until one of the hazards happens every subscriber will read each report made since it
\* subscribed, once, in order and whole, whatever the bound Followed on the runs.
THEOREM SubscribersAreServed == Spec => [](spoilt = {} => Delivers)
<1>1. IInv => (spoilt = {} => Delivers)
  BY SaneDelivers, FreeingDelivers DEF IInv
<1> QED BY <1>1, RingIsSane, PTL

\* ... which is what the run checks, as it follows the system up to the first hazard.
THEOREM ReportsAreInOrder == ASSUME Followed = {} PROVE Spec => []ReportsInOrder
<1>1. IInv => ReportsInOrder
  <2>1. spoilt \subseteq Followed => spoilt = {}
    OBVIOUS
  <2> QED BY <2>1, SaneDelivers, FreeingDelivers DEF IInv, ReportsInOrder
<1> QED BY <1>1, RingIsSane, PTL

\* The idle size is not overstated.
LEMMA IdleSizeIsThere ==
  ASSUME NEW r, r.begin \in Addr, r.end \in Addr
  PROVE  IdleSize(r.begin, r.end) <= Cardinality(IdleBytes(r))
<1>1. PICK b, e : b = r.begin /\ e = r.end
  OBVIOUS
<1>2. RingSize \in Nat /\ b \in Int /\ 0 <= b /\ b < RingSize /\ e \in Int /\ 0 <= e /\ e < RingSize
  BY <1>1, ConstantsAreInt DEF Addr
<1>3. CASE b <= e
  <2>1. IdleBytes(r) = b .. e /\ IdleSize(b, e) = 1 + e - b
    BY <1>1, <1>2, <1>3 DEF IdleBytes, IdleSize
  <2>2. Cardinality(b .. e) = e - b + 1
    <3>1. b \in Int /\ e \in Int
      BY <1>2
    <3>2. IsFiniteSet(b .. e) /\ Cardinality(b .. e) = IF b > e THEN 0 ELSE e - b + 1
      BY <3>1, FS_Interval
    <3> QED BY <1>2, <1>3, <3>2
  <2> QED BY <1>1, <1>2, <2>1, <2>2
<1>4. CASE ~(b <= e)
  <2> DEFINE S == b .. RingSize - 1  T == 0 .. e
  <2>1. IdleBytes(r) = S \cup T /\ IdleSize(b, e) = e + RingSize - b
    BY <1>1, <1>2, <1>4 DEF IdleBytes, IdleSize
  <2>2. IsFiniteSet(S) /\ Cardinality(S) = RingSize - b
    <3>1. RingSize - 1 \in Int /\ ~(b > RingSize - 1) /\ RingSize - 1 - b + 1 = RingSize - b
      BY <1>2
    <3>2. PICK c : c = RingSize - 1
      OBVIOUS
    <3>3. IsFiniteSet(b .. c) /\ Cardinality(b .. c) = IF b > c THEN 0 ELSE c - b + 1
      BY <1>2, <3>1, <3>2, FS_Interval
    <3> QED BY <3>1, <3>2, <3>3
  <2>3. IsFiniteSet(T) /\ Cardinality(T) = e + 1
    <3>1. PICK z : z = 0
      OBVIOUS
    <3>2. IsFiniteSet(z .. e) /\ Cardinality(z .. e) = IF z > e THEN 0 ELSE e - z + 1
      BY <1>2, <3>1, FS_Interval
    <3> QED BY <1>2, <3>1, <3>2
  <2>4. S \cap T = {}
    BY <1>2, <1>4
  <2> HIDE DEF S, T
  <2>5. Cardinality(S \cup T) = Cardinality(S) + Cardinality(T) - Cardinality(S \cap T)
    BY <2>2, <2>3, FS_Union
  <2>6. Cardinality(S \cap T) = 0
    BY <2>4, FS_EmptySet
  <2>7. Cardinality(S \cup T) = (RingSize - b) + (e + 1) - 0
    BY <2>2, <2>3, <2>5, <2>6
  <2> QED BY <1>1, <1>2, <2>1, <2>7
<1> QED BY <1>3, <1>4

\* None of it is idle.
LEMMA SaneIsNotIdle == ASSUME Sane PROVE UnreadIsNotIdle
<1>0. Types /\ Calls /\ Users /\ q.begin \in Addr /\ q.end \in Addr /\ q.size = IdleSize(q.begin, q.end)
  BY DEF Sane, Types, IsRing
<1>1. q.size <= Cardinality(IdleBytes(q))
  BY <1>0, IdleSizeIsThere
<1>2. ASSUME NEW i \in Occupied(q.slot), NEW x \in OnPath(q.mem, Unread(i))
      PROVE  Bytes(x, q.mem[x].size) \cap IdleBytes(q) = {}
  <2>1. PICK ls, sz, mk : Queued(ls, sz, mk)
    BY <1>0, <1>2, GoneIsNobody DEF Sane
  <2>2. /\ Laid(q.begin, ls, sz) /\ Chain(q.mem, ls, sz, mk) /\ IsMem(q.mem) /\ q.end = EndOf(ls)
    BY <2>1 DEF Queued, Holds, IsRing
  <2>3. PICK p \in 1 .. Len(ls) + 1 : Unread(i) = At(ls, p)
    BY <1>0, <2>1, SubscriberReads
  <2> QED BY <2>2, <2>3, ListIsOffIdle
<1> QED BY <1>1, <1>2 DEF UnreadIsNotIdle

\* Nor is any while a header is stored: not of the ring it was, as long as only its oldest report has
\* changed, nor of the ring it will be, once its idle area is stored, nor of an empty one.
LEMMA FreeingIsNotIdle == ASSUME Freeing, freeing # NotFreeing PROVE UnreadIsNotIdle
<1>1. PICK r : r = Completed
  OBVIOUS
<1>2. Rests(r, owed) /\ r.mem = q.mem /\ r.slot = q.slot /\ r.first \in {q.first, Null}
  BY <1>1, FreeingReads DEF Freeing
<1> SUFFICES ASSUME NEW i \in Occupied(q.slot), NEW x \in OnPath(q.mem, Unread(i))
             PROVE  Bytes(x, q.mem[x].size) \cap IdleBytes(q) = {}
  BY DEF UnreadIsNotIdle
<1>3. i \in Occupied(r.slot) /\ Unread(i) = q.slot[i].msg /\ x \in OnPath(r.mem, r.slot[i].msg)
  BY <1>2, FreeingReads DEF Occupied
<1>4. Bytes(x, r.mem[x].size) \cap IdleBytes(r) = {} /\ r.first # Null
  BY <1>2, <1>3, RestDelivers
<1>5. CASE freeing.step \in {"test", "advance"}
  BY <1>3, <1>5 DEF Freeing, Shielded
<1>6. CASE freeing.step \in {"first", "begin", "end", "size"}
  <2>1. r.first = Null
    BY <1>1, <1>6 DEF Freeing, Completed, Header
  <2> QED BY <1>4, <2>1
<1>7. CASE freeing.step \in {"measure", "room"}
  <2>1. r.begin = q.begin /\ r.end = q.end
    BY <1>1, <1>7 DEF Completed, Header
  <2>2. IdleBytes(r) = IdleBytes(q)
    BY <2>1 DEF IdleBytes
  <2> QED BY <1>2, <1>4, <2>2
<1> QED BY <1>5, <1>6, <1>7 DEF Freeing

\* The next report is written over idle bytes only: no byte of a report that somebody has still
\* to read is idle, and the idle size, by which readers are dropped, is never overstated.
THEOREM UnreadStaysOffIdle == Spec => []UnreadIsNotIdle
<1>1. IInv => UnreadIsNotIdle
  <2>1. spoilt # {} => UnreadIsNotIdle
    BY DEF UnreadIsNotIdle
  <2> QED BY <2>1, SaneIsNotIdle, FreeingIsNotIdle DEF IInv
<1> QED BY <1>1, RingIsSane, PTL

\* A report drops exactly those subscribers, and only when the idle bytes are few, that have
\* still to read the oldest report of the ring.
THEOREM OnlyLateAreDropped == Spec => OnlyLateAreEvicted
<1> DEFINE A == spoilt' = {} =>
         \A n \in Sizes : AddReport(n) =>
            \A i \in Occupied(q.slot) :
               q'.slot[i].uid = NoUser <=> /\ q.size < Threshold
                                           /\ owed[q.slot[i].uid] # <<>>
                                           /\ Head(owed[q.slot[i].uid]) = q.first
<1>1. IInv /\ [Next]_vars => [A]_vars
  <2> SUFFICES ASSUME IInv, [Next]_vars, spoilt' = {}, NEW n \in Sizes, AddReport(n) PROVE DropsLate
    BY Zenon DEF DropsLate
  <2>1. PICK w : w = Wrapped(Base, n)
    OBVIOUS
  <2>2. freeing = NotFreeing
    BY <2>1, ReportSteps
  <2>3. ~crashed /\ Sane
    BY <2>2, SpoiltStays DEF IInv
  <2> QED BY <2>3, AddReportIsSane
<1> HIDE DEF A
<1>2. Spec => [][A]_vars
  BY <1>1, RingIsSane, PTL DEF Spec
<1> QED BY <1>2 DEF A, OnlyLateAreEvicted
=============================================================================
