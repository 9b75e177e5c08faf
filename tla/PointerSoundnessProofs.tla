----------------------- MODULE PointerSoundnessProofs -----------------------
(***************************************************************************)
(* The flow-insensitive analysis finds every pointer that an execution     *)
(* computes, unless a read is left unsettled (SoundFI), for all programs.  *)
(***************************************************************************)
EXTENDS PointerSoundness, FiniteSetTheorems, WellFoundedInduction, TLAPS

-----------------------------------------------------------------------------
(* Numbers and recursive functions.                                        *)

(* Induction over 0..K, with a set for the predicate.                      *)
LEMMA UpTo ==
  ASSUME NEW K \in Nat, NEW S, 0 \in S, \A k \in 0 .. K - 1 : k \in S => k + 1 \in S
  PROVE  \A k \in 0 .. K : k \in S
<1> DEFINE T == {k \in 0 .. K : k \notin S}
<1> SUFFICES ASSUME T # {} PROVE FALSE
  OBVIOUS
<1>1. T \subseteq Nat
  OBVIOUS
<1>2. PICK k \in T : \A y \in T : ~(<<y, k>> \in OpToRel(<, Nat))
  BY <1>1, NatLessThanWellFounded, WFMin, Zenon
<1>3. \A y \in T : ~(y < k)
  BY <1>1, <1>2, Zenon DEF OpToRel
<1>4. k # 0 /\ k \in 0 .. K /\ k \notin S
  OBVIOUS
<1>5. k - 1 \in 0 .. K - 1
  BY <1>4
<1>6. k - 1 \in T
  BY <1>4, <1>5
<1> QED
  BY <1>3, <1>4, <1>6

-----------------------------------------------------------------------------
(* The walk of getNodes.                                                   *)

Distinct(s) == \A i, j \in 1 .. Len(s) : s[i] = s[j] => i = j

Closed(P, K) == \A x \in K : Range(Dispatched(P, x)) \subseteq K

Connected(P) == \A x \in Node : Dispatched(P, x) \in Seq(Node)

(* The range of a sequence, by its indices.                                *)
LEMMA RangeSeq ==
  ASSUME NEW S, NEW s \in Seq(S)
  PROVE  /\ Range(s) = {s[i] : i \in 1 .. Len(s)}
         /\ Range(s) \subseteq S
  BY DEF Range

(* Of the nodes behind x those that are new are added, each once.          *)
LEMMA WalkedFacts ==
  ASSUME NEW P, NEW seen \in Seq(Node), Distinct(seen),
         NEW x, Dispatched(P, x) \in Seq(Node)
  PROVE  /\ Walked(P, seen, x) \in Seq(Node)
         /\ Distinct(Walked(P, seen, x))
         /\ Range(Walked(P, seen, x)) = Range(seen) \cup Range(Dispatched(P, x))
         /\ Len(Walked(P, seen, x)) >= Len(seen)
         /\ \A i \in 1 .. Len(seen) : Walked(P, seen, x)[i] = seen[i]
<1> DEFINE d == Dispatched(P, x)
           new == {j \in DOMAIN d : /\ d[j] \notin Range(seen)
                                    /\ \A i \in 1 .. j - 1 : d[i] # d[j]}
           c == Cardinality(new)
           rank(j) == Cardinality({k \in new : k <= j})
           e(i) == CHOOSE j \in new : rank(j) = i
           more == [i \in 1 .. c |-> d[e(i)]]
<1>1. Walked(P, seen, x) = seen \o more
  BY DEF Walked
<1>2. /\ d \in Seq(Node) /\ DOMAIN d = 1 .. Len(d) /\ Len(d) \in Nat
      /\ \A i \in 1 .. Len(d) : d[i] \in Node
  OBVIOUS
<1> HIDE DEF d
<1>3. IsFiniteSet(new) /\ c \in Nat /\ new \subseteq 1 .. Len(d)
  <2>1. new \in SUBSET (1 .. Len(d))
    BY <1>2
  <2>2. IsFiniteSet(1 .. Len(d))
    BY <1>2, FS_Interval
  <2> QED
    BY <2>1, <2>2, FS_Subset, FS_CardinalityType
<1>21. /\ \A j \in new : d[j] \notin Range(seen) /\ \A i \in 1 .. j - 1 : d[i] # d[j]
       /\ \A j \in 1 .. Len(d) :
            d[j] \notin Range(seen) /\ (\A i \in 1 .. j - 1 : d[i] # d[j]) => j \in new
  BY <1>2
<1>22. \A j \in new : j \in Nat /\ j \in 1 .. Len(d)
  BY <1>2, <1>3
<1> HIDE DEF new
<1>4. \A j \in new : rank(j) \in 1 .. c
  <2> TAKE j \in new
  <2> DEFINE L == {k \in new : k <= j}
  <2>1. L \in SUBSET new /\ j \in L
    BY <1>3
  <2>2. IsFiniteSet(L) /\ Cardinality(L) <= c /\ Cardinality(L) \in Nat
    BY <1>3, <2>1, FS_Subset, FS_CardinalityType
  <2>3. Cardinality(L) # 0
    BY <2>1, <2>2, FS_EmptySet
  <2> QED
    BY <1>3, <2>2, <2>3
<1>5. \A j, k \in new : j < k => rank(j) < rank(k)
  <2> TAKE j \in new, k \in new
  <2> HAVE j < k
  <2> DEFINE L == {i \in new : i <= j}
             M == {i \in new : i <= k}
  <2>1. L \in SUBSET M /\ k \in M /\ k \notin L /\ M \in SUBSET new
    BY <1>22
  <2>2. IsFiniteSet(M) /\ Cardinality(M) \in Nat
    BY <1>3, <2>1, FS_Subset, FS_CardinalityType
  <2>3. /\ Cardinality(L) \in Nat /\ Cardinality(L) <= Cardinality(M)
        /\ Cardinality(L) = Cardinality(M) => M = L
    BY <2>1, <2>2, FS_Subset, FS_CardinalityType
  <2>4. M # L
    BY <2>1
  <2> QED
    BY <2>2, <2>3, <2>4
<1>23. \A j \in new : rank(j) \in Nat
  BY <1>3, <1>4
<1> HIDE DEF rank
<1>6. \A i \in 1 .. c : \E j \in new : rank(j) = i
  <2> DEFINE f == [j \in new |-> rank(j)]
  <2>1. f \in [new -> 1 .. c]
    BY <1>4
  <2>2. \A j, k \in new : f[j] = f[k] => j = k
    <3> TAKE j \in new, k \in new
    <3>1. j < k \/ k < j \/ j = k
      BY <1>22
    <3>2. f[j] = rank(j) /\ f[k] = rank(k)
      OBVIOUS
    <3>3. rank(j) \in Nat /\ rank(k) \in Nat
      BY <1>23
    <3>4. (j < k => rank(j) < rank(k)) /\ (k < j => rank(k) < rank(j))
      BY <1>5
    <3> HIDE DEF f
    <3> QED
      BY <3>1, <3>2, <3>3, <3>4
  <2>3. f \in Injection(new, 1 .. c)
    <3>1. DOMAIN f = new
      OBVIOUS
    <3> HIDE DEF f
    <3> QED
      BY <2>1, <2>2, <3>1 DEF Injection, IsInjective
  <2>4. IsFiniteSet(1 .. c) /\ Cardinality(1 .. c) = c
    BY <1>3, FS_Interval
  <2>5. f \in Surjection(new, 1 .. c)
    <3>1. IsFiniteSet(new) /\ Cardinality(new) = c
      BY <1>3
    <3> HIDE DEF f, c
    <3> QED
      BY <2>3, <2>4, <3>1, FS_Injection
  <2>6. \A j \in new : f[j] = rank(j)
    OBVIOUS
  <2> HIDE DEF f
  <2> QED
    BY <2>5, <2>6 DEF Surjection
<1>7. \A i \in 1 .. c : e(i) \in new /\ rank(e(i)) = i
  BY <1>6
<1>8. \A j \in new : \E i \in 1 .. c : e(i) = j
  <2> TAKE j \in new
  <2>1. rank(j) \in 1 .. c
    BY <1>4
  <2>2. e(rank(j)) \in new /\ rank(e(rank(j))) = rank(j)
    BY <1>7, <2>1
  <2>3. e(rank(j)) = j
    <3> DEFINE l == e(rank(j))
    <3>1. l \in new /\ rank(l) = rank(j)
      BY <2>2
    <3> HIDE DEF l
    <3>2. l < j \/ j < l \/ j = l
      BY <1>22, <3>1
    <3>3. l = j
      BY <1>5, <1>23, <3>1, <3>2
    <3> QED
      BY <3>3 DEF l
  <2> QED
    BY <2>1, <2>3
<1> HIDE DEF e
<1>9. more \in Seq(Node) /\ Len(more) = c
  <2>1. \A i \in 1 .. c : d[e(i)] \in Node
    BY <1>2, <1>22, <1>7
  <2> HIDE DEF c
  <2> QED
    BY <1>3, <2>1
<1>10. \A i \in 1 .. c : more[i] = d[e(i)]
  OBVIOUS
<1> HIDE DEF more
<1>11. \A i, j \in 1 .. c : more[i] = more[j] => i = j
  <2> TAKE i \in 1 .. c, j \in 1 .. c
  <2> HAVE more[i] = more[j]
  <2>1. e(i) \in new /\ e(j) \in new /\ d[e(i)] = d[e(j)]
    BY <1>7, <1>10
  <2>2. e(i) \in Nat /\ e(j) \in Nat
    BY <1>22, <2>1
  <2>3. ~(e(i) < e(j)) /\ ~(e(j) < e(i))
    <3>1. /\ e(i) < e(j) => e(i) \in 1 .. e(j) - 1
          /\ e(j) < e(i) => e(j) \in 1 .. e(i) - 1
      BY <2>1, <2>2, <1>22
    <3> QED
      BY <2>1, <3>1, <1>21
  <2>4. e(i) = e(j)
    BY <2>2, <2>3
  <2> QED
    BY <1>7, <2>4
<1>12. Range(more) = {d[j] : j \in new}
  <2>1. Range(more) = {more[i] : i \in 1 .. c}
    BY <1>9, RangeSeq
  <2>2. \A i \in 1 .. c : more[i] \in {d[j] : j \in new}
    BY <1>7, <1>10
  <2>3. \A j \in new : d[j] \in Range(more)
    <3> TAKE j \in new
    <3>1. PICK i \in 1 .. c : e(i) = j
      BY <1>8
    <3> QED
      BY <2>1, <3>1, <1>10
  <2> HIDE DEF c
  <2> QED
    BY <2>1, <2>2, <2>3
<1>13. \A j \in 1 .. Len(d) : d[j] \in Range(seen) \cup {d[k] : k \in new}
  <2> SUFFICES ASSUME NEW j \in 1 .. Len(d), d[j] \notin Range(seen)
               PROVE  d[j] \in {d[k] : k \in new}
    OBVIOUS
  <2> DEFINE S == {k \in 0 .. Len(d) : \A i \in 1 .. k : d[i] = d[j] =>
                                         \E l \in new : d[l] = d[j]}
  <2>1. 0 \in S
    BY <1>2
  <2>2. \A k \in 0 .. Len(d) - 1 : k \in S => k + 1 \in S
    <3> TAKE k \in 0 .. Len(d) - 1
    <3> HAVE k \in S
    <3>1. k + 1 \in 0 .. Len(d) /\ k + 1 \in 1 .. Len(d)
      BY <1>2
    <3>2. d[k + 1] = d[j] => \E l \in new : d[l] = d[j]
      <4>1. CASE \E i \in 1 .. k : d[i] = d[j]
        BY <4>1
      <4>2. CASE d[k + 1] = d[j] /\ \A i \in 1 .. k : d[i] # d[j]
        <5>1. k + 1 - 1 = k
          OBVIOUS
        <5>2. k + 1 \in new
          BY <1>21, <3>1, <4>2, <5>1
        <5> QED
          BY <4>2, <5>2
      <4> QED
        BY <4>1, <4>2
    <3>3. \A i \in 1 .. k + 1 : i \in 1 .. k \/ i = k + 1
      OBVIOUS
    <3>4. \A i \in 1 .. k + 1 : d[i] = d[j] => \E l \in new : d[l] = d[j]
      BY <3>2, <3>3
    <3> QED
      BY <3>1, <3>4
  <2>3. \A k \in 0 .. Len(d) : k \in S
    <3> HIDE DEF S
    <3> QED
      BY <1>2, <2>1, <2>2, UpTo
  <2>4. Len(d) \in S
    BY <1>2, <2>3
  <2> QED
    BY <2>4
<1>14. Range(d) = {d[j] : j \in 1 .. Len(d)}
  BY <1>2, RangeSeq
<1>15. Range(d) \subseteq Range(seen) \cup Range(more)
  BY <1>12, <1>13, <1>14
<1>16. Range(more) \subseteq Range(d) \ Range(seen)
  BY <1>12, <1>14, <1>21, <1>22
<1> HIDE DEF c
<1> DEFINE r == seen \o more
<1>17. /\ r \in Seq(Node) /\ Len(r) = Len(seen) + c
       /\ \A i \in 1 .. Len(seen) : r[i] = seen[i]
       /\ \A i \in Len(seen) + 1 .. Len(seen) + c : r[i] = more[i - Len(seen)]
  BY <1>9
<1>18. Range(r) = Range(seen) \cup Range(more)
  <2>1. /\ Range(r) = {r[i] : i \in 1 .. Len(seen) + c}
        /\ Range(seen) = {seen[i] : i \in 1 .. Len(seen)}
        /\ Range(more) = {more[i] : i \in 1 .. c}
    BY <1>9, <1>17, RangeSeq
  <2>2. \A i \in 1 .. Len(seen) + c : r[i] \in Range(seen) \cup Range(more)
    <3> TAKE i \in 1 .. Len(seen) + c
    <3>1. CASE i <= Len(seen)
      BY <1>17, <2>1, <3>1
    <3>2. CASE i > Len(seen)
      <4>1. i - Len(seen) \in 1 .. c /\ i \in Len(seen) + 1 .. Len(seen) + c
        BY <1>3, <3>2
      <4> QED
        BY <1>17, <2>1, <4>1
    <3>3. Len(seen) \in Nat
      OBVIOUS
    <3> HIDE DEF r
    <3> QED
      BY <1>3, <3>1, <3>2, <3>3
  <2>3. \A i \in 1 .. Len(seen) : seen[i] \in Range(r)
    BY <1>3, <1>17, <2>1
  <2>4. \A i \in 1 .. c : more[i] \in Range(r)
    <3> TAKE i \in 1 .. c
    <3>1. i + Len(seen) \in Len(seen) + 1 .. Len(seen) + c /\ i + Len(seen) \in 1 .. Len(seen) + c
      BY <1>3
    <3>2. r[i + Len(seen)] = more[i]
      BY <1>17, <3>1
    <3> QED
      BY <2>1, <3>1, <3>2
  <2> HIDE DEF r
  <2> QED
    BY <2>1, <2>2, <2>3, <2>4
<1>19. Distinct(r)
  <2> SUFFICES ASSUME NEW i \in 1 .. Len(r), NEW j \in 1 .. Len(r), r[i] = r[j]
               PROVE  i = j
    BY DEF Distinct
  <2>1. /\ \A k \in 1 .. Len(seen) : seen[k] \in Range(seen)
        /\ \A k \in 1 .. c : more[k] \in Range(more)
    BY <1>9, RangeSeq
  <2>2. /\ i <= Len(seen) => i \in 1 .. Len(seen) /\ r[i] = seen[i]
        /\ i > Len(seen) => i - Len(seen) \in 1 .. c /\ r[i] = more[i - Len(seen)]
    BY <1>3, <1>17
  <2>3. /\ j <= Len(seen) => j \in 1 .. Len(seen) /\ r[j] = seen[j]
        /\ j > Len(seen) => j - Len(seen) \in 1 .. c /\ r[j] = more[j - Len(seen)]
    BY <1>3, <1>17
  <2> HIDE DEF r
  <2>4. CASE i <= Len(seen) /\ j <= Len(seen)
    BY <2>2, <2>3, <2>4 DEF Distinct
  <2>5. CASE i > Len(seen) /\ j > Len(seen)
    <3>1. i - Len(seen) = j - Len(seen)
      BY <1>11, <2>2, <2>3, <2>5
    <3> QED
      BY <3>1
  <2>6. CASE i <= Len(seen) /\ j > Len(seen)
    BY <1>16, <2>1, <2>2, <2>3, <2>6
  <2>7. CASE i > Len(seen) /\ j <= Len(seen)
    BY <1>16, <2>1, <2>2, <2>3, <2>7
  <2> QED
    BY <2>4, <2>5, <2>6, <2>7
<1>20. Range(r) = Range(seen) \cup Range(d)
  BY <1>15, <1>16, <1>18
<1> QED
  BY <1>1, <1>3, <1>17, <1>19, <1>20 DEF d

(* The walk visits one node after another, at most all of them.            *)
IsWalk(P, start, f, K) ==
  f = [k \in 0 .. K |-> IF k = 0 THEN start ELSE Visiting(P, {f[k - 1]}, k)]

(* Visiting has one walk to choose from.                                  *)
LEMMA VisitingOne ==
  ASSUME NEW P, NEW e, NEW k
  PROVE  Visiting(P, {e}, k) = IF k > Len(e) THEN e ELSE Walked(P, e, e[k])
<1> DEFINE S == {IF k > Len(seen) THEN seen ELSE Walked(P, seen, seen[k]) : seen \in {e}}
<1>1. S = {IF k > Len(e) THEN e ELSE Walked(P, e, e[k])}
  OBVIOUS
<1>2. \A v : (CHOOSE walk \in {v} : TRUE) = v
  OBVIOUS
<1>3. Visiting(P, {e}, k) = CHOOSE walk \in S : TRUE
  BY DEF Visiting
<1> QED
  BY <1>1, <1>2, <1>3

(* The recursive function of GetNodes exists.                              *)
LEMMA WalkExists ==
  ASSUME NEW P, NEW start
  PROVE  \E f : IsWalk(P, start, f, N)
<1> USE DEF IsWalk
<1> DEFINE Rec(f, K) == IsWalk(P, start, f, K)
           S == {K \in 0 .. N : \E f : Rec(f, K)}
<1>0. N \in Nat
  BY NAssumption
<1>1. 0 \in S
  <2> DEFINE f == [k \in 0 .. 0 |-> start]
  <2>1. \A k \in 0 .. 0 : k = 0
    OBVIOUS
  <2>2. f = [k \in 0 .. 0 |-> IF k = 0 THEN start ELSE Visiting(P, {f[k - 1]}, k)]
    BY <2>1
  <2>3. Rec(f, 0)
    BY <2>2
  <2>4. 0 \in 0 .. N
    BY <1>0
  <2> QED
    BY <2>3, <2>4
<1>2. \A K \in 0 .. N - 1 : K \in S => K + 1 \in S
  <2> TAKE K \in 0 .. N - 1
  <2> HAVE K \in S
  <2>1. PICK f : Rec(f, K)
    OBVIOUS
  <2> DEFINE h == [k \in 0 .. K + 1 |-> IF k = K + 1 THEN Visiting(P, {f[K]}, K + 1) ELSE f[k]]
  <2>2. \A k \in 0 .. K : h[k] = f[k]
    OBVIOUS
  <2>3. \A k \in 0 .. K : f[k] = IF k = 0 THEN start ELSE Visiting(P, {f[k - 1]}, k)
    BY <2>1
  <2>4. \A k \in 1 .. K : k - 1 \in 0 .. K
    OBVIOUS
  <2>5. \A k \in 0 .. K + 1 : h[k] = IF k = 0 THEN start ELSE Visiting(P, {h[k - 1]}, k)
    <3> TAKE k \in 0 .. K + 1
    <3>1. CASE k = K + 1
      <4>1. h[k] = Visiting(P, {f[K]}, K + 1)
        BY <3>1
      <4>2. k - 1 = K /\ k # 0 /\ K \in 0 .. K
        BY <3>1
      <4> HIDE DEF h
      <4> QED
        BY <2>2, <3>1, <4>1, <4>2
    <3>2. CASE k = 0
      <4>1. k \in 0 .. K
        BY <3>2
      <4> HIDE DEF h
      <4> QED
        BY <2>2, <2>3, <3>2, <4>1
    <3>3. CASE k \in 1 .. K
      <4>1. k \in 0 .. K /\ k - 1 \in 0 .. K /\ k # 0
        BY <3>3
      <4>2. h[k] = f[k] /\ h[k - 1] = f[k - 1]
        BY <2>2, <4>1
      <4> HIDE DEF h
      <4> QED
        BY <2>3, <4>1, <4>2
    <3> QED
      BY <3>1, <3>2, <3>3
  <2>6. h = [k \in 0 .. K + 1 |-> h[k]]
    OBVIOUS
  <2>7. Rec(h, K + 1)
    <3> HIDE DEF h
    <3> QED
      BY <2>5, <2>6
  <2>8. K + 1 \in 0 .. N
    BY <1>0
  <2> QED
    BY <2>7, <2>8
<1>3. \A K \in 0 .. N : K \in S
  <2> HIDE DEF S
  <2> QED
    BY <1>0, <1>1, <1>2, UpTo
<1>4. N \in S
  <2>1. N \in 0 .. N
    BY <1>0
  <2> HIDE DEF S
  <2> QED
    BY <1>3, <2>1
<1> QED
  BY <1>4

(* A sequence that names no node twice is at most N long.                  *)
LEMMA DistinctShort ==
  ASSUME NEW s \in Seq(Node), Distinct(s)
  PROVE  Len(s) \in 0 .. N
<1>1. s \in [1 .. Len(s) -> Node] /\ DOMAIN s = 1 .. Len(s) /\ Len(s) \in Nat
  OBVIOUS
<1>2. s \in Injection(1 .. Len(s), Node)
  BY <1>1 DEF Distinct, Injection, IsInjective
<1>3. IsFiniteSet(Node) /\ Cardinality(Node) = N
  BY NAssumption, FS_Interval DEF Node
<1>4. Cardinality(1 .. Len(s)) <= Cardinality(Node)
  BY <1>2, <1>3, FS_Injection
<1>5. Cardinality(1 .. Len(s)) = Len(s)
  <2>1. 1 \in Int /\ Len(s) \in Int
    BY <1>1
  <2>2. Cardinality(1 .. Len(s)) = IF 1 > Len(s) THEN 0 ELSE Len(s) - 1 + 1
    BY <2>1, FS_Interval
  <2> QED
    BY <1>1, <2>2
<1> QED
  BY <1>1, <1>3, <1>4, <1>5, NAssumption

(* getNodes returns what can be reached from the start, each node once.    *)
LEMMA GetNodesFacts ==
  ASSUME NEW P, Connected(P), NEW start \in Seq(Node), Distinct(start)
  PROVE  /\ GetNodes(P, start) \in Seq(Node)
         /\ Distinct(GetNodes(P, start))
         /\ Range(start) \subseteq Range(GetNodes(P, start))
         /\ Closed(P, Range(GetNodes(P, start)))
         /\ \A K : Range(start) \subseteq K /\ Closed(P, K) =>
                     Range(GetNodes(P, start)) \subseteq K
<1> DEFINE w == CHOOSE f : IsWalk(P, start, f, N)
<1>0. N \in Nat
  BY NAssumption
<1>1. GetNodes(P, start) = w[N]
  BY DEF GetNodes, IsWalk
<1>2. \A k \in 0 .. N : w[k] = IF k = 0 THEN start ELSE Visiting(P, {w[k - 1]}, k)
  <2>1. \E f : IsWalk(P, start, f, N)
    BY WalkExists
  <2>2. IsWalk(P, start, w, N)
    BY <2>1, Zenon
  <2> HIDE DEF w
  <2> QED
    BY <2>2 DEF IsWalk
<1> HIDE DEF w
<1>3. w[0] = start /\ \A k \in 0 .. N - 1 : w[k + 1] = Visiting(P, {w[k]}, k + 1)
  <2>1. \A k \in 0 .. N - 1 : k + 1 \in 0 .. N /\ k + 1 # 0 /\ k + 1 - 1 = k
    BY <1>0
  <2>2. 0 \in 0 .. N
    BY <1>0
  <2>3. w[0] = start
    BY <1>2, <2>2
  <2>4. \A k \in 0 .. N - 1 : w[k + 1] = Visiting(P, {w[k]}, k + 1)
    <3> TAKE k \in 0 .. N - 1
    <3>1. w[k + 1] = Visiting(P, {w[k + 1 - 1]}, k + 1)
      BY <1>2, <2>1
    <3> QED
      BY <2>1, <3>1
  <2> QED
    BY <2>3, <2>4
<1> DEFINE Good(k) ==
             /\ w[k] \in Seq(Node)
             /\ Distinct(w[k])
             /\ Range(start) \subseteq Range(w[k])
             /\ \A i \in 1 .. k : i <= Len(w[k]) =>
                  Range(Dispatched(P, w[k][i])) \subseteq Range(w[k])
             /\ \A K : Range(start) \subseteq K /\ Closed(P, K) => Range(w[k]) \subseteq K
           S == {k \in 0 .. N : Good(k)}
<1>4. 0 \in S
  BY <1>0, <1>3
<1>5. \A k \in 0 .. N - 1 : k \in S => k + 1 \in S
  <2> TAKE k \in 0 .. N - 1
  <2> HAVE k \in S
  <2> DEFINE v == w[k]
             u == w[k + 1]
  <2>1. Good(k) /\ k + 1 \in 0 .. N /\ Len(v) \in Nat
    BY <1>0
  <2>2. u = Visiting(P, {v}, k + 1)
    BY <1>3
  <2>3. CASE k + 1 > Len(v)
    <3>1. u = v
      BY <2>2, <2>3, VisitingOne
    <3>2. \A i \in 1 .. k + 1 : i <= Len(v) => i \in 1 .. k
      BY <2>1, <2>3
    <3>3. Good(k + 1)
      BY <2>1, <3>1, <3>2
    <3> QED
      BY <2>1, <3>3
  <2>4. CASE k + 1 <= Len(v)
    <3> DEFINE x == v[k + 1]
    <3>1. u = Walked(P, v, x)
      BY <2>1, <2>2, <2>4, VisitingOne
    <3>2. k + 1 \in 1 .. Len(v)
      BY <2>1, <2>4
    <3>3. v \in Seq(Node) /\ Distinct(v) /\ x \in Node /\ x \in Range(v)
      BY <2>1, <3>2, RangeSeq
    <3>4. Dispatched(P, x) \in Seq(Node)
      BY <3>3 DEF Connected
    <3> HIDE DEF x
    <3>5. /\ u \in Seq(Node)
          /\ Distinct(u)
          /\ Range(u) = Range(v) \cup Range(Dispatched(P, x))
          /\ Len(u) >= Len(v)
          /\ \A i \in 1 .. Len(v) : u[i] = v[i]
      <4> DEFINE r == Walked(P, v, x)
      <4>1. /\ r \in Seq(Node)
            /\ Distinct(r)
            /\ Range(r) = Range(v) \cup Range(Dispatched(P, x))
            /\ Len(r) >= Len(v)
            /\ \A i \in 1 .. Len(v) : r[i] = v[i]
        <5> HIDE DEF v
        <5> QED
          BY <3>3, <3>4, WalkedFacts
      <4>2. u = r
        BY <3>1
      <4> HIDE DEF r, u, v
      <4> QED
        BY <4>1, <4>2
    <3>6. \A i \in 1 .. k + 1 : i \in 1 .. Len(v) /\ (i \in 1 .. k \/ i = k + 1)
      BY <2>1, <3>2
    <3>7. \A i \in 1 .. k + 1 : Range(Dispatched(P, u[i])) \subseteq Range(u)
      <4> TAKE i \in 1 .. k + 1
      <4>1. u[i] = v[i] /\ i <= Len(v)
        BY <2>1, <3>5, <3>6
      <4>2. CASE i \in 1 .. k
        BY <2>1, <3>5, <4>1, <4>2
      <4>3. CASE i = k + 1
        BY <3>5, <4>1, <4>3 DEF x
      <4> QED
        BY <3>6, <4>2, <4>3
    <3>8. \A K : Range(start) \subseteq K /\ Closed(P, K) => Range(u) \subseteq K
      BY <2>1, <3>3, <3>5 DEF Closed
    <3>9. Range(start) \subseteq Range(u)
      BY <2>1, <3>5
    <3> HIDE DEF u, v
    <3>10. Good(k + 1)
      BY <3>5, <3>7, <3>8, <3>9 DEF u
    <3> QED
      BY <2>1, <3>10
  <2> QED
    BY <2>1, <2>3, <2>4
<1>6. N \in S
  <2>1. \A k \in 0 .. N : k \in S
    <3> HIDE DEF S
    <3> QED
      BY <1>0, <1>4, <1>5, UpTo
  <2>2. N \in 0 .. N
    BY <1>0
  <2> QED
    BY <2>1, <2>2
<1>7. Good(N)
  BY <1>6
<1>8. Closed(P, Range(w[N]))
  <2>1. Len(w[N]) \in 0 .. N
    BY <1>7, DistinctShort
  <2>2. Range(w[N]) = {w[N][i] : i \in 1 .. Len(w[N])}
    BY <1>7, RangeSeq
  <2>3. \A i \in 1 .. Len(w[N]) : i \in 1 .. N /\ i <= Len(w[N])
    BY <1>0, <2>1
  <2> QED
    BY <1>7, <2>2, <2>3 DEF Closed
<1> QED
  BY <1>1, <1>7, <1>8

-----------------------------------------------------------------------------
(***************************************************************************)
(* The inductive invariant of the analysis: a node that is not queued has  *)
(* done what the pointers and the memory that matter to it ask for.        *)
(***************************************************************************)

(* Everything that is processed.                                           *)
Region == Reached(prog.root) \cup Range(prog.globals)

(* An execution may compute o before it comes to y.                        *)
Precedes(o, y) ==
  \/ o \notin Node
  \/ o \in Range(prog.globals)
  \/ y \notin Range(prog.globals) /\ y \in Reached(o)

(* What y can get from its operand o.                                      *)
Effective(o, y) == {q \in PointsTo(o) : Precedes(o, y)}

(* The pointers that y gets from its operands and from the cells C, ...    *)
Delivered(y, C) ==
  LET ops == prog.op[y] IN
  CASE prog.type[y] = "LOAD" ->
         (Effective(ops[1], y) \cap {UnknownPointer})
           \cup UNION {Loaded(C, ptr) : ptr \in Memory(Effective(ops[1], y))}
    [] prog.type[y] = "GEP" -> {Shifted(y, ptr) : ptr \in Effective(ops[1], y)}
    [] prog.type[y] \in {"CAST", "PHI", "RETURN", "CALL_RETURN"} ->
         UNION {Effective(o, y) : o \in Range(ops)}
    [] OTHER -> {}

(* ... and the cells that it writes.                                       *)
Contributed(y, C) ==
  LET ops == prog.op[y] IN
  CASE prog.type[y] = "STORE" ->
         {<<w[1][1], w[1][2], w[2]>> : w \in Memory(Effective(ops[2], y)) \X Effective(ops[1], y)}
    [] prog.type[y] = "MEMCPY" ->
         UNION {Copied(C, w[1], w[2], prog.off[y]) :
                  w \in Memory(Effective(ops[1], y)) \X Memory(Effective(ops[2], y))}
    [] OTHER -> {}

(* A node that y is not behind may have written the cell.                  *)
Exposed(c, y) == \E z \in Region : <<c[1], c[3][1]>> \in Written(z) /\ y \notin ReadsBehind(z)

Visible(y) == {c \in mem[0] : ~Exposed(c, y)}

(* q is in the set, or its target with an unknown offset.                  *)
Stands(S, q) == q \in S \/ <<q[1], UNKNOWN>> \in S

Applied(y) ==
  /\ \A q \in Delivered(y, Visible(y)) : Stands(pointsTo[y], q)
  /\ Contributed(y, Visible(y)) \subseteq mem[0]

Pending(y) ==
  \/ y \in Range(to_process)
  \/ pc = "globals" /\ y \in Reached(prog.root)
  \/ pc = "fixpoint" /\ \E x \in Range(changed) : y \in Reached(x)

TypeInv ==
  /\ prog \in PSNodes /\ WellFormed(prog)
  /\ pc \in {"globals", "fixpoint", "done"}
  /\ pointsTo \in [Node -> SUBSET Pointer]
  /\ mem \in [0 .. N -> SUBSET Cell]
  /\ data = [x \in Node |-> 0]
  /\ gepOffset = Preprocessed(prog, "FI")
  /\ to_process \in Seq(Node)
  /\ changed \in Seq(Node)

QueueInv ==
  /\ pc = "globals" => Range(to_process) \subseteq Range(prog.globals)
  /\ pc = "fixpoint" => /\ Distinct(to_process) /\ Distinct(changed)
                        /\ Range(to_process) \cap Range(changed) = {}
                        /\ Range(to_process) \subseteq Reached(prog.root)
                        /\ Range(changed) \subseteq Reached(prog.root)
  /\ pc = "done" => to_process = <<>>

(* run() has not given up before it ends.                                  *)
ResultInv == pc # "done" => result

AnalysisInv ==
  flow = "FI" /\ result =>
    /\ TypeInv
    /\ QueueInv
    /\ \A x \in Node : Constructed(x) \subseteq pointsTo[x]
    /\ \A y \in Region : Pending(y) \/ Applied(y)

-----------------------------------------------------------------------------
(***************************************************************************)
(* ... and of the execution: what it has computed lies before the nodes    *)
(* that come next, and a cell is one that such a node may have written.    *)
(***************************************************************************)
Ahead(x) == \A y \in Range(rest) : Precedes(x, y)

(* The pointer stands for the address.                                     *)
For(q, v) == q \in {<<v[1], v[3]>>, <<v[1], UNKNOWN>>, UnknownPointer}

RestInv ==
  /\ rest \in Seq(Node)
  /\ \A i \in 1 .. Len(rest) - 1 : rest[i] \in Range(prog.globals)
  /\ rest # <<>> => rest[Len(rest)] \in Reached(prog.root)

EnvInv ==
  /\ DOMAIN env = Node
  /\ \A x \in Node : env[x] # UNDEFINED => Ahead(x) /\ Covered(env[x], pointsTo[x])

HeapInv ==
  \A l \in DOMAIN heap : heap[l] \in Address =>
    \E c \in mem[0] :
      /\ c[1] = l[1] /\ c[2] \in {l[3], UNKNOWN} /\ For(c[3], heap[l])
      /\ \E w \in Region : Ahead(w) /\ <<c[1], c[3][1]>> \in Written(w)

ExecutionInv ==
  IF pc # "done"
  THEN /\ rest = prog.globals \o <<prog.root>>
       /\ env = [x \in Node |-> UNDEFINED]
       /\ heap = <<>>
  ELSE flow = "FI" /\ result /\ WritesKnown /\ ReadsSettled => RestInv /\ EnvInv /\ HeapInv

SoundInv == ResultInv /\ AnalysisInv /\ ExecutionInv

-----------------------------------------------------------------------------
(* Programs.                                                               *)

(* The types of a program's fields.                                        *)
LEMMA ProgramFacts ==
  ASSUME prog \in PSNodes
  PROVE  /\ prog.type \in [Node -> NodeType]
         /\ prog.op \in [Node -> Seq(Target)]
         /\ prog.size \in [Node -> Offset]
         /\ prog.off \in [Node -> Offset]
         /\ prog.globals \in Seq(Node)
         /\ prog.root \in Node
         /\ Connected(prog)
<1>1. /\ prog.type \in [Node -> NodeType]
      /\ prog.op \in [Node -> Seq(Target)]
      /\ prog.succ \in [Node -> Seq(Node)]
      /\ prog.size \in [Node -> Offset]
      /\ prog.off \in [Node -> Offset]
      /\ prog.globals \in Seq(Node)
      /\ prog.root \in Node
      /\ prog.callees \in [Node -> Seq(Node)]
      /\ prog.returns \in [Node -> Seq(Node)]
  BY DEF PSNodes
<1>2. Connected(prog)
  BY <1>1 DEF Connected, Dispatched
<1> QED
  BY <1>1, <1>2

(* A sequence of one node.                                                 *)
LEMMA SingleDistinct ==
  ASSUME NEW x \in Node
  PROVE  <<x>> \in Seq(Node) /\ Distinct(<<x>>) /\ Range(<<x>>) = {x}
<1>1. <<x>> \in Seq(Node) /\ Len(<<x>>) = 1 /\ <<x>>[1] = x
  OBVIOUS
<1>2. \A i \in 1 .. 1 : i = 1
  OBVIOUS
<1>3. Range(<<x>>) = {<<x>>[i] : i \in 1 .. 1}
  BY <1>1, RangeSeq
<1> QED
  BY <1>1, <1>2, <1>3 DEF Distinct

(* Reached(x) is the least set with x that control flow does not leave.    *)
LEMMA ReachedFacts ==
  ASSUME prog \in PSNodes, NEW x \in Node
  PROVE  /\ Reached(x) \subseteq Node
         /\ x \in Reached(x)
         /\ \A y \in Reached(x) : Range(Dispatched(prog, y)) \subseteq Reached(x)
         /\ \A K : x \in K /\ Closed(prog, K) => Reached(x) \subseteq K
<1>1. Connected(prog)
  BY ProgramFacts
<1>2. <<x>> \in Seq(Node) /\ Distinct(<<x>>) /\ Range(<<x>>) = {x}
  BY SingleDistinct
<1>3. /\ GetNodes(prog, <<x>>) \in Seq(Node)
      /\ Range(<<x>>) \subseteq Range(GetNodes(prog, <<x>>))
      /\ Closed(prog, Range(GetNodes(prog, <<x>>)))
      /\ \A K : Range(<<x>>) \subseteq K /\ Closed(prog, K) =>
                  Range(GetNodes(prog, <<x>>)) \subseteq K
  BY <1>1, <1>2, GetNodesFacts
<1>4. Range(GetNodes(prog, <<x>>)) \subseteq Node
  BY <1>3, RangeSeq
<1> QED
  BY <1>2, <1>3, <1>4 DEF Reached, Closed

(* What is behind a node behind x is behind x.                             *)
LEMMA ReachedTransitive ==
  ASSUME prog \in PSNodes, NEW x \in Node, NEW y \in Reached(x)
  PROVE  Reached(y) \subseteq Reached(x)
<1>1. y \in Node /\ Closed(prog, Reached(x))
  BY ReachedFacts DEF Closed
<1> QED
  BY <1>1, ReachedFacts

(* Nothing leads to global nodes.                                          *)
LEMMA GlobalsApart ==
  ASSUME prog \in PSNodes, WellFormed(prog), NEW x \in Node, x \notin Range(prog.globals)
  PROVE  Reached(x) \cap Range(prog.globals) = {}
<1> DEFINE K == Node \ Range(prog.globals)
<1>1. Closed(prog, K)
  <2> SUFFICES ASSUME NEW y \in K
               PROVE  Range(Dispatched(prog, y)) \subseteq K
    BY DEF Closed
  <2>1. Range(Dispatched(prog, y)) \subseteq Node
    BY ProgramFacts, RangeSeq DEF Connected
  <2>2. \A g \in Range(prog.globals) : g \notin Range(Dispatched(prog, y))
    <3> TAKE g \in Range(prog.globals)
    <3>1. g \notin Range(prog.succ[y]) \cup Range(prog.callees[y]) \cup Range(prog.returns[y])
      BY DEF WellFormed
    <3> QED
      BY <3>1 DEF Dispatched
  <2> QED
    BY <2>1, <2>2
<1>2. x \in K
  OBVIOUS
<1> HIDE DEF K
<1>3. Reached(x) \subseteq K
  BY <1>1, <1>2, ReachedFacts
<1> QED
  BY <1>3 DEF K

(* Global nodes are processed apart from the nodes behind the root.        *)
LEMMA RootFacts ==
  ASSUME prog \in PSNodes, WellFormed(prog)
  PROVE  /\ prog.root \in Node /\ prog.root \notin Range(prog.globals)
         /\ Range(prog.globals) \subseteq Node
         /\ Reached(prog.root) \subseteq Node
         /\ Reached(prog.root) \cap Range(prog.globals) = {}
         /\ Region \subseteq Node
<1>1. prog.root \in Node /\ Range(prog.globals) \subseteq Node
  BY ProgramFacts, RangeSeq
<1>2. prog.root \notin Range(prog.globals)
  BY DEF WellFormed
<1> QED
  BY <1>1, <1>2, ReachedFacts, GlobalsApart DEF Region

(* What is queued: everything behind the changed nodes, each node once.    *)
LEMMA QueueFacts ==
  ASSUME prog \in PSNodes, NEW start \in Seq(Node), Distinct(start)
  PROVE  /\ GetNodes(prog, start) \in Seq(Node)
         /\ Distinct(GetNodes(prog, start))
         /\ \A x \in Range(start) : Reached(x) \subseteq Range(GetNodes(prog, start))
         /\ Range(start) \subseteq Reached(prog.root) =>
              Range(GetNodes(prog, start)) \subseteq Reached(prog.root)
<1> DEFINE q == GetNodes(prog, start)
<1>1. /\ q \in Seq(Node)
      /\ Distinct(q)
      /\ Range(start) \subseteq Range(q)
      /\ Closed(prog, Range(q))
      /\ \A K : Range(start) \subseteq K /\ Closed(prog, K) => Range(q) \subseteq K
  BY ProgramFacts, GetNodesFacts
<1>2. \A x \in Range(start) : Reached(x) \subseteq Range(q)
  <2> TAKE x \in Range(start)
  <2>1. x \in Node
    BY RangeSeq
  <2> QED
    BY <1>1, <2>1, ReachedFacts
<1>3. Closed(prog, Reached(prog.root))
  BY ProgramFacts, ReachedFacts DEF Closed
<1> QED
  BY <1>1, <1>2, <1>3

-----------------------------------------------------------------------------
(* Sets of pointers and cells.                                             *)

(* The pointers of an operand.                                             *)
LEMMA PointsToType ==
  ASSUME pointsTo \in [Node -> SUBSET Pointer], NEW o \in Target
  PROVE  PointsTo(o) \subseteq Pointer
<1>1. NullPointer \in Pointer /\ UnknownPointer \in Pointer
  BY NAssumption, UNKNOWNAssumption
    DEF NullPointer, UnknownPointer, Pointer, Target, Offset, NULLPTR, UNKNOWN_MEMORY
<1>2. o = NULLPTR \/ o = UNKNOWN_MEMORY \/ o \in Node
  BY DEF Target
<1> QED
  BY <1>1, <1>2 DEF PointsTo

(* The parts of a pointer.                                                 *)
LEMMA PointerFacts ==
  ASSUME NEW q \in Pointer
  PROVE  /\ q = <<q[1], q[2]>> /\ q[1] \in Target /\ q[2] \in Offset
         /\ <<q[1], UNKNOWN>> \in Pointer
  BY UNKNOWNAssumption DEF Pointer, Offset

(* A pointer that is added is there, or one for its target stands for it.  *)
LEMMA AddEachFacts ==
  ASSUME NEW S \in SUBSET Pointer, NEW P \in SUBSET Pointer
  PROVE  /\ AddEach(S, P) \subseteq Pointer
         /\ \A q \in S \cup P : Stands(AddEach(S, P), q)
<1>1. AddEach(S, P) \subseteq Pointer
  BY DEF AddEach
<1>2. ASSUME NEW q \in S \cup P
      PROVE  Stands(AddEach(S, P), q)
  <2> DEFINE any == <<q[1], UNKNOWN>>
  <2>1. q = <<q[1], q[2]>> /\ any[1] = q[1] /\ any[2] = UNKNOWN
    BY PointerFacts
  <2>2. CASE any \in S
    <3>1. any \in AddEach(S, P)
      BY <2>1, <2>2 DEF AddEach
    <3> QED
      BY <3>1 DEF Stands
  <2>3. CASE any \notin S /\ any \in P
    <3>1. any \in AddEach(S, P)
      BY <2>1, <2>3 DEF AddEach
    <3> QED
      BY <3>1 DEF Stands
  <2>4. CASE any \notin S /\ any \notin P
    <3>1. q \in AddEach(S, P)
      BY <2>4 DEF AddEach
    <3> QED
      BY <3>1 DEF Stands
  <2> QED
    BY <2>2, <2>3, <2>4
<1> QED
  BY <1>1, <1>2

(* What stands for a pointer is itself stood for.                          *)
LEMMA StandsTransitive ==
  ASSUME NEW S \in SUBSET Pointer, NEW T, \A p \in S : Stands(T, p),
         NEW q, Stands(S, q)
  PROVE  Stands(T, q)
<1>1. CASE q \in S
  BY <1>1
<1>2. CASE <<q[1], UNKNOWN>> \in S
  BY <1>2 DEF Stands
<1> QED
  BY <1>1, <1>2 DEF Stands

(* The parts of a memory cell.                                             *)
LEMMA CellFacts ==
  ASSUME NEW c \in Cell
  PROVE  /\ c = <<c[1], c[2], c[3]>> /\ c[1] \in Node /\ c[2] \in Offset /\ c[3] \in Pointer
         /\ c[3][1] \in Target
  BY DEF Cell, Pointer

(* Null pointers that are added stand for others in no cell.               *)
LEMMA AddEachCellFacts ==
  ASSUME NEW m, NEW C, \A c \in C : c[3] = NullPointer
  PROVE  m \subseteq AddEachCell(m, C) /\ AddEachCell(m, C) \subseteq m \cup C
<1>1. ASSUME NEW c \in m
      PROVE  c \in AddEachCell(m, C)
  <2> DEFINE any == <<c[1], c[2], <<c[3][1], UNKNOWN>>>>
  <2>1. any \notin C
    BY UNKNOWNAssumption DEF NullPointer
  <2> QED
    BY <2>1 DEF AddEachCell
<1>2. AddEachCell(m, C) \subseteq m \cup C
  BY DEF AddEachCell
<1> QED
  BY <1>1, <1>2

-----------------------------------------------------------------------------
(* Processing one node.                                                    *)

(* Nodes have the operands that their constructors ask for.                *)
LEMMA OperandFacts ==
  ASSUME prog \in PSNodes, WellFormed(prog), NEW x \in Node
  PROVE  /\ \A o \in Range(prog.op[x]) : o \in Target
         /\ prog.type[x] \in {"LOAD", "GEP", "CAST", "CONSTANT", "STORE", "MEMCPY"} =>
              prog.op[x][1] \in Range(prog.op[x])
         /\ prog.type[x] \in {"STORE", "MEMCPY"} => prog.op[x][2] \in Range(prog.op[x])
<1>1. prog.op[x] \in Seq(Target)
  BY ProgramFacts
<1>2. Range(prog.op[x]) = {prog.op[x][i] : i \in 1 .. Len(prog.op[x])}
  BY <1>1, RangeSeq
<1>3. /\ prog.type[x] \in {"LOAD", "GEP", "CAST", "CONSTANT"} => Len(prog.op[x]) = 1
      /\ prog.type[x] \in {"STORE", "MEMCPY"} => Len(prog.op[x]) = 2
  BY DEF WellFormed
<1> QED
  BY <1>1, <1>2, <1>3, RangeSeq

(* More cells, more loaded pointers.                                       *)
LEMMA LoadedFacts ==
  ASSUME NEW m \in SUBSET Cell, NEW C \in SUBSET m, NEW ptr
  PROVE  Loaded(C, ptr) \subseteq Loaded(m, ptr) /\ Loaded(m, ptr) \subseteq Pointer
<1>1. \A c \in m : c[3] \in Pointer
  BY CellFacts
<1> QED
  BY <1>1 DEF Loaded, Anywhere, At

(* preprocessGEPs only sets offsets to unknown.                            *)
LEMMA GepOffsetType ==
  ASSUME prog \in PSNodes, gepOffset = Preprocessed(prog, "FI"), NEW x \in Node
  PROVE  /\ gepOffset[x] \in Offset
         /\ gepOffset[x] = UNKNOWN \/ gepOffset[x] = prog.off[x]
  BY ProgramFacts, UNKNOWNAssumption DEF Preprocessed, Offset

(* The size of a target is an offset.                                      *)
LEMMA SizeType ==
  ASSUME prog \in PSNodes, NEW t
  PROVE  SizeOf(t) \in Offset
  BY ProgramFacts, UNKNOWNAssumption DEF SizeOf, Offset

(* processGep shifts pointers to pointers.                                 *)
LEMMA ShiftedFacts ==
  ASSUME prog \in PSNodes, gepOffset = Preprocessed(prog, "FI"), NEW x \in Node,
         NEW ptr \in Pointer
  PROVE  Shifted(x, ptr) \in Pointer
<1> DEFINE o == (ptr[2] + gepOffset[x]) % (UNKNOWN + 1)
<1>1. ptr[1] \in Target /\ ptr[2] \in Offset /\ gepOffset[x] \in Offset
  BY PointerFacts, GepOffsetType
<1>2. o \in Int /\ 0 <= o /\ o <= UNKNOWN
  BY <1>1, UNKNOWNAssumption DEF Offset
<1>3. <<ptr[1], UNKNOWN>> \in Pointer
  BY PointerFacts
<1>4. <<ptr[1], o>> \in Pointer
  BY <1>1, <1>2 DEF Pointer, Offset
<1> QED
  BY <1>3, <1>4 DEF Shifted

(* After a visit x has what it had and what was delivered to it.           *)
LEMMA PointsToAfterFacts ==
  ASSUME TypeInv, NEW x \in Node, NEW m \in SUBSET Cell, NEW C \in SUBSET m
  PROVE  /\ PointsToAfter(x, m) \subseteq Pointer
         /\ \A q \in pointsTo[x] \cup Delivered(x, C) : Stands(PointsToAfter(x, m), q)
<1> DEFINE ops == prog.op[x]
           T == pointsTo[x]
<1>0. /\ prog \in PSNodes /\ WellFormed(prog) /\ gepOffset = Preprocessed(prog, "FI")
      /\ pointsTo \in [Node -> SUBSET Pointer] /\ T \in SUBSET Pointer
  BY DEF TypeInv
<1>1. /\ \A o \in Range(ops) : PointsTo(o) \subseteq Pointer
      /\ \A o \in Range(ops) : Effective(o, x) \subseteq PointsTo(o)
  BY <1>0, OperandFacts, PointsToType DEF Effective
<1>2. CASE prog.type[x] = "LOAD"
  <2> DEFINE P == PointsTo(ops[1])
             E == Effective(ops[1], x)
             A == {UnknownPointer : ptr \in P \cap {UnknownPointer}}
                    \cup {NullPointer : ptr \in {q \in Memory(P) : LoadsNull(m, q)}}
             B == UNION {Loaded(m, ptr) : ptr \in Memory(P)}
  <2>1. PointsToAfter(x, m) = AddEach(T, A) \cup B
    BY <1>2 DEF PointsToAfter, ProcessLoad
  <2>2. Delivered(x, C) = (E \cap {UnknownPointer}) \cup UNION {Loaded(C, ptr) : ptr \in Memory(E)}
    BY <1>2 DEF Delivered
  <2>3. E \subseteq P /\ P \subseteq Pointer
    BY <1>0, <1>1, <1>2, OperandFacts
  <2>4. Memory(E) \subseteq Memory(P)
    BY <2>3 DEF Memory
  <2> HIDE DEF P, E
  <2>5. A \in SUBSET Pointer
    BY NAssumption, UNKNOWNAssumption
      DEF NullPointer, UnknownPointer, Pointer, Target, Offset, NULLPTR, UNKNOWN_MEMORY
  <2>6. B \subseteq Pointer
    BY LoadedFacts
  <2>7. E \cap {UnknownPointer} \subseteq A
    BY <2>3
  <2>8. UNION {Loaded(C, ptr) : ptr \in Memory(E)} \subseteq B
    BY <2>4, LoadedFacts
  <2> HIDE DEF A, B
  <2>9. /\ AddEach(T, A) \subseteq Pointer
        /\ \A q \in T \cup A : Stands(AddEach(T, A), q)
    <3> HIDE DEF T
    <3> QED
      BY <1>0, <2>5, AddEachFacts
  <2> HIDE DEF T
  <2>10. \A q \in T \cup A \cup B : Stands(AddEach(T, A) \cup B, q)
    BY <2>9 DEF Stands
  <2> QED
    BY <2>1, <2>2, <2>6, <2>7, <2>8, <2>9, <2>10 DEF T
<1>3. CASE prog.type[x] = "GEP"
  <2> DEFINE A == {Shifted(x, ptr) : ptr \in PointsTo(ops[1])}
  <2>1. PointsToAfter(x, m) = AddEach(T, A)
    BY <1>3 DEF PointsToAfter
  <2>2. Delivered(x, C) \subseteq A
    BY <1>0, <1>1, <1>3, OperandFacts DEF Delivered
  <2>3. A \in SUBSET Pointer
    BY <1>0, <1>1, <1>3, OperandFacts, ShiftedFacts
  <2> HIDE DEF A
  <2>4. /\ AddEach(T, A) \subseteq Pointer
        /\ \A q \in T \cup A : Stands(AddEach(T, A), q)
    <3> HIDE DEF T
    <3> QED
      BY <1>0, <2>3, AddEachFacts
  <2> QED
    BY <2>1, <2>2, <2>4
<1>4. CASE prog.type[x] \in {"CAST", "PHI", "RETURN", "CALL_RETURN"}
  <2>1. PointsToAfter(x, m) = T \cup UNION {PointsTo(o) : o \in Range(ops)}
    BY <1>4 DEF PointsToAfter
  <2>2. Delivered(x, C) = UNION {Effective(o, x) : o \in Range(ops)}
    BY <1>4 DEF Delivered
  <2>3. T \cup Delivered(x, C) \subseteq PointsToAfter(x, m)
    BY <1>1, <2>1, <2>2
  <2>4. PointsToAfter(x, m) \subseteq Pointer
    BY <1>0, <1>1, <2>1
  <2> QED
    BY <2>3, <2>4 DEF Stands
<1>5. CASE prog.type[x] \notin {"LOAD", "GEP", "CAST", "PHI", "RETURN", "CALL_RETURN"}
  <2>1. PointsToAfter(x, m) = T /\ Delivered(x, C) = {}
    BY <1>5 DEF PointsToAfter, Delivered
  <2> QED
    BY <1>0, <2>1 DEF Stands
<1> QED
  BY <1>2, <1>3, <1>4, <1>5

(* memcpy moves cells to offsets.                                          *)
LEMMA MovedType ==
  ASSUME NEW o \in Offset, NEW src \in Pointer, NEW dst \in Pointer, NEW len,
         InRange(o, src, len)
  PROVE  Moved(o, src, dst) \in Offset
<1>1. src[2] \in 0 .. UNKNOWN /\ dst[2] \in 0 .. UNKNOWN /\ o \in 0 .. UNKNOWN
  BY PointerFacts DEF Offset
<1>2. o = UNKNOWN \/ src[2] = UNKNOWN \/ src[2] <= o
  BY DEF InRange
<1> QED
  BY <1>1, <1>2, UNKNOWNAssumption DEF Moved, Offset


(* The pointers that can be dereferenced.                                  *)
LEMMA MemoryType ==
  ASSUME NEW S \in SUBSET Pointer, NEW T \in SUBSET S
  PROVE  /\ Memory(T) \subseteq Memory(S)
         /\ \A q \in Memory(S) : q \in S /\ q[1] \in Node /\ q[2] \in Offset /\ q \in Pointer
  BY PointerFacts DEF Memory

(* memcpy copies cells into the destination; more cells, more copies.      *)
LEMMA CopiedFacts ==
  ASSUME NEW m \in SUBSET Cell, NEW C \in SUBSET m, NEW src \in Pointer,
         NEW dst \in Pointer, dst[1] \in Node, NEW len
  PROVE  /\ Copied(C, src, dst, len) \subseteq Copied(m, src, dst, len)
         /\ \A c \in Copied(m, src, dst, len) : c \in Cell /\ c[1] = dst[1]
<1>1. Copied(C, src, dst, len) \subseteq Copied(m, src, dst, len)
  BY DEF Copied
<1>2. ASSUME NEW c \in Copied(m, src, dst, len)
      PROVE  c \in Cell /\ c[1] = dst[1]
  <2>1. PICK b \in m : /\ b[1] = src[1] /\ InRange(b[2], src, len)
                       /\ c = <<dst[1], Moved(b[2], src, dst), b[3]>>
    BY DEF Copied
  <2>2. b[2] \in Offset /\ b[3] \in Pointer
    BY CellFacts
  <2>3. Moved(b[2], src, dst) \in Offset
    BY <2>1, <2>2, MovedType
  <2> QED
    BY <2>1, <2>2, <2>3 DEF Cell
<1> QED
  BY <1>1, <1>2

(* After a visit the memory has what x contributes; x wrote all new cells. *)
LEMMA MemoryAfterFacts ==
  ASSUME TypeInv, NEW x \in Node, NEW m \in SUBSET Cell, NEW C \in SUBSET m
  PROVE  /\ m \subseteq MemoryAfter(x, m)
         /\ MemoryAfter(x, m) \subseteq Cell
         /\ Contributed(x, C) \subseteq MemoryAfter(x, m)
         /\ \A c \in MemoryAfter(x, m) \ m : <<c[1], c[3][1]>> \in Written(x)
         /\ prog.type[x] \notin {"STORE", "MEMCPY"} => MemoryAfter(x, m) = m
<1> DEFINE ops == prog.op[x]
           P1 == PointsTo(ops[1])
           P2 == PointsTo(ops[2])
           E1 == Effective(ops[1], x)
           E2 == Effective(ops[2], x)
<1>0. prog \in PSNodes /\ WellFormed(prog) /\ pointsTo \in [Node -> SUBSET Pointer]
  BY DEF TypeInv
<1>1. CASE prog.type[x] \notin {"STORE", "MEMCPY"}
  BY <1>1 DEF MemoryAfter, Contributed
<1>2. ASSUME prog.type[x] \in {"STORE", "MEMCPY"}
      PROVE  /\ P1 \in SUBSET Pointer /\ P2 \in SUBSET Pointer
             /\ E1 \in SUBSET P1 /\ E2 \in SUBSET P2
             /\ Memory(E1) \subseteq Memory(P1) /\ Memory(E2) \subseteq Memory(P2)
  <2>1. P1 \in SUBSET Pointer /\ P2 \in SUBSET Pointer
    BY <1>0, <1>2, OperandFacts, PointsToType
  <2>2. E1 \in SUBSET P1 /\ E2 \in SUBSET P2
    BY DEF Effective
  <2> QED
    BY <2>1, <2>2, MemoryType
<1>3. CASE prog.type[x] = "STORE"
  <2> DEFINE A == {<<ptr[1], ptr[2], v>> : ptr \in Memory(P2), v \in P1}
  <2>1. MemoryAfter(x, m) = m \cup A
    BY <1>3 DEF MemoryAfter
  <2>2. Contributed(x, C) = {<<w[1][1], w[1][2], w[2]>> : w \in Memory(E2) \X E1}
    BY <1>3 DEF Contributed
  <2>3. Written(x) = {<<a[1], v[1]>> : a \in Memory(P2), v \in P1}
    BY <1>3 DEF Written
  <2> HIDE DEF P1, P2, E1, E2
  <2>4. Contributed(x, C) \subseteq A
    BY <1>2, <1>3, <2>2
  <2>5. \A c \in A : c \in Cell /\ <<c[1], c[3][1]>> \in Written(x)
    BY <1>2, <1>3, <2>3, MemoryType DEF Cell
  <2> HIDE DEF A
  <2> QED
    BY <1>3, <2>1, <2>4, <2>5
<1>4. CASE prog.type[x] = "MEMCPY"
  <2> DEFINE A == {<<c[2][1], UNKNOWN, NullPointer>> :
                     c \in {d \in Copies(x) : CopiedNull(d[1], d[2], prog.off[x])}}
             B == UNION {Copied(m, c[1], c[2], prog.off[x]) : c \in Copies(x)}
  <2>1. MemoryAfter(x, m) = AddEachCell(m, A) \cup B
    BY <1>4 DEF MemoryAfter
  <2>2. Contributed(x, C) = UNION {Copied(C, w[1], w[2], prog.off[x]) :
                                     w \in Memory(E1) \X Memory(E2)}
    BY <1>4 DEF Contributed
  <2>3. Written(x) = {a[1] : a \in Memory(P2)} \X Target
    BY <1>4 DEF Written
  <2>4. Copies(x) = Memory(P1) \X Memory(P2)
    BY DEF Copies
  <2> HIDE DEF P1, P2, E1, E2
  <2>5. /\ \A w \in Copies(x) : w[1] \in Pointer /\ w[2] \in Pointer /\ w[2][1] \in Node
        /\ Memory(E1) \X Memory(E2) \subseteq Copies(x)
    BY <1>2, <1>4, <2>4, MemoryType
  <2>6. Contributed(x, C) \subseteq B
    BY <2>2, <2>5, CopiedFacts
  <2>7. \A c \in B : c \in Cell /\ <<c[1], c[3][1]>> \in Written(x)
    <3> TAKE c \in B
    <3>1. PICK w \in Copies(x) : c \in Copied(m, w[1], w[2], prog.off[x])
      OBVIOUS
    <3>2. c \in Cell /\ c[1] = w[2][1]
      BY <2>5, <3>1, CopiedFacts
    <3>3. c[3][1] \in Target
      BY <3>2, CellFacts
    <3> QED
      BY <2>3, <2>4, <3>2, <3>3
  <2>8. \A c \in A : c \in Cell /\ <<c[1], c[3][1]>> \in Written(x) /\ c[3] = NullPointer
    <3> TAKE c \in A
    <3>1. PICK w \in Copies(x) : c = <<w[2][1], UNKNOWN, NullPointer>>
      OBVIOUS
    <3>2. NullPointer \in Pointer /\ NullPointer[1] \in Target /\ UNKNOWN \in Offset
      BY UNKNOWNAssumption DEF NullPointer, Pointer, Target, Offset, NULLPTR
    <3> QED
      BY <2>3, <2>4, <2>5, <3>1, <3>2 DEF Cell
  <2> HIDE DEF A, B
  <2>9. m \subseteq AddEachCell(m, A) /\ AddEachCell(m, A) \subseteq m \cup A
    BY <2>8, AddEachCellFacts
  <2> QED
    BY <1>4, <2>1, <2>6, <2>7, <2>8, <2>9
<1> QED
  BY <1>1, <1>3, <1>4

(* processNode in the flow-insensitive analysis.                           *)
LEMMA ProcessFI ==
  ASSUME TypeInv, flow = "FI", NEW x \in Node, Process(x)
  PROVE  /\ pointsTo' = [pointsTo EXCEPT ![x] = PointsToAfter(x, mem[0])]
         /\ mem' = [mem EXCEPT ![0] = MemoryAfter(x, mem[0])]
         /\ data' = data
         /\ changed' = IF pointsTo' # pointsTo \/ MemoryAfter(x, mem[0]) # mem[0]
                       THEN Append(changed, x) ELSE changed
<1>1. data[x] = 0 /\ data[x] # -1
  BY DEF TypeInv
<1>2. MapOf(x) = 0
  BY <1>1 DEF MapOf
<1>3. Before(x) = mem[0]
  BY <1>1, <1>2 DEF Before
<1>4. Merged(x) = {}
  BY DEF Merged
<1>5. \A m : AddEachCell(m, {}) = m
  BY DEF AddEachCell
<1> DEFINE stored == MemoryAfter(x, mem[0])
<1>6. AddEachCell(stored, Merged(x)) = stored
  BY <1>4, <1>5
<1>7. [data EXCEPT ![x] = 0] = data
  BY <1>1 DEF TypeInv
<1>8. /\ pointsTo' = [pointsTo EXCEPT ![x] = PointsToAfter(x, Before(x))]
      /\ mem' = [mem EXCEPT ![MapOf(x)] =
                     AddEachCell(MemoryAfter(x, Before(x)), Merged(x))]
      /\ data' = [data EXCEPT ![x] = MapOf(x)]
      /\ changed' = IF \/ data[x] = -1 \/ pointsTo' # pointsTo
                       \/ AddEachCell(MemoryAfter(x, Before(x)), Merged(x)) # Before(x)
                    THEN Append(changed, x) ELSE changed
  BY DEF Process
<1>9. /\ pointsTo' = [pointsTo EXCEPT ![x] = PointsToAfter(x, mem[0])]
      /\ mem' = [mem EXCEPT ![0] = stored]
      /\ data' = data
  BY <1>2, <1>3, <1>6, <1>7, <1>8
<1>10. changed' = IF pointsTo' # pointsTo \/ stored # mem[0]
                  THEN Append(changed, x) ELSE changed
  BY <1>1, <1>3, <1>6, <1>8
<1> QED
  BY <1>9, <1>10

-----------------------------------------------------------------------------
(* What stays when pointers and cells are added.                           *)

(* More cells, more that is delivered and contributed.                     *)
LEMMA DeliveredMono ==
  ASSUME TypeInv, NEW y \in Node, NEW D \in SUBSET Cell, NEW C \in SUBSET D
  PROVE  Delivered(y, C) \subseteq Delivered(y, D) /\ Contributed(y, C) \subseteq Contributed(y, D)
<1>1. \A ptr : Loaded(C, ptr) \subseteq Loaded(D, ptr)
  BY LoadedFacts
<1>2. \A src, dst, len : Copied(C, src, dst, len) \subseteq Copied(D, src, dst, len)
  BY DEF Copied
<1>3. Delivered(y, C) \subseteq Delivered(y, D)
  BY <1>1 DEF Delivered
<1>4. Contributed(y, C) \subseteq Contributed(y, D)
  BY <1>2 DEF Contributed
<1> QED
  BY <1>3, <1>4

(* A write never loses a target while pointers are added.                  *)
LEMMA WrittenGrows ==
  ASSUME TypeInv, prog' = prog, pointsTo' \in [Node -> SUBSET Pointer],
         \A x \in Node : \A q \in pointsTo[x] : Stands(pointsTo'[x], q),
         NEW z \in Node
  PROVE  Written(z) \subseteq Written(z)'
<1>0. prog \in PSNodes /\ WellFormed(prog) /\ pointsTo \in [Node -> SUBSET Pointer]
  BY DEF TypeInv
<1>1. ASSUME NEW o \in Target, NEW q \in PointsTo(o)
      PROVE  \E p \in PointsTo(o)' : p[1] = q[1]
  <2>1. CASE o \in {NULLPTR, UNKNOWN_MEMORY}
    BY <2>1 DEF PointsTo
  <2>2. CASE o \notin {NULLPTR, UNKNOWN_MEMORY}
    <3>1. o \in Node /\ q \in pointsTo[o] /\ PointsTo(o)' = pointsTo'[o]
      BY <2>2 DEF PointsTo, Target
    <3>2. Stands(pointsTo'[o], q)
      BY <3>1
    <3>3. <<q[1], UNKNOWN>>[1] = q[1]
      OBVIOUS
    <3> QED
      BY <3>1, <3>2, <3>3 DEF Stands
  <2> QED
    BY <2>1, <2>2
<1>2. ASSUME NEW o \in Target, NEW q \in Memory(PointsTo(o))
      PROVE  \E p \in Memory(PointsTo(o))' : p[1] = q[1]
  <2>1. q \in PointsTo(o) /\ q[1] \in Node /\ prog.type[q[1]] # "FUNCTION"
    BY DEF Memory
  <2>2. PICK p \in PointsTo(o)' : p[1] = q[1]
    BY <1>1, <2>1
  <2>3. p \in Memory(PointsTo(o))'
    BY <2>1, <2>2 DEF Memory
  <2> QED
    BY <2>2, <2>3
<1>3. CASE prog.type[z] = "STORE"
  <2>1. prog.op[z][1] \in Target /\ prog.op[z][2] \in Target
    BY <1>0, <1>3, OperandFacts
  <2>2. Written(z) = {<<a[1], v[1]>> : a \in Memory(PointsTo(prog.op[z][2])),
                                       v \in PointsTo(prog.op[z][1])}
    BY <1>3 DEF Written
  <2>3. Written(z)' = {<<a[1], v[1]>> : a \in Memory(PointsTo(prog.op[z][2]))',
                                        v \in PointsTo(prog.op[z][1])'}
    BY <1>3 DEF Written
  <2> SUFFICES ASSUME NEW a \in Memory(PointsTo(prog.op[z][2])),
                      NEW v \in PointsTo(prog.op[z][1])
               PROVE  <<a[1], v[1]>> \in Written(z)'
    BY <2>2
  <2>4. PICK b \in Memory(PointsTo(prog.op[z][2]))' : b[1] = a[1]
    BY <1>2, <2>1
  <2>5. PICK w \in PointsTo(prog.op[z][1])' : w[1] = v[1]
    BY <1>1, <2>1
  <2> QED
    BY <2>3, <2>4, <2>5
<1>4. CASE prog.type[z] = "MEMCPY"
  <2>1. prog.op[z][2] \in Target
    BY <1>0, <1>4, OperandFacts
  <2>2. Written(z) = {a[1] : a \in Memory(PointsTo(prog.op[z][2]))} \X Target
    BY <1>4 DEF Written
  <2>3. Written(z)' = {a[1] : a \in Memory(PointsTo(prog.op[z][2]))'} \X Target
    BY <1>4 DEF Written
  <2>4. {a[1] : a \in Memory(PointsTo(prog.op[z][2]))}
          \subseteq {a[1] : a \in Memory(PointsTo(prog.op[z][2]))'}
    BY <1>2, <2>1
  <2> QED
    BY <2>2, <2>3, <2>4
<1>5. CASE prog.type[z] \notin {"STORE", "MEMCPY"}
  BY <1>5 DEF Written
<1> QED
  BY <1>3, <1>4, <1>5

(* A cell that two nodes may have written stays one.                       *)
LEMMA ExposedGrows ==
  ASSUME TypeInv, prog' = prog, pointsTo' \in [Node -> SUBSET Pointer],
         \A x \in Node : \A q \in pointsTo[x] : Stands(pointsTo'[x], q),
         NEW c, NEW y, Exposed(c, y)
  PROVE  Exposed(c, y)'
<1>1. PICK z \in Region : <<c[1], c[3][1]>> \in Written(z) /\ y \notin ReadsBehind(z)
  BY DEF Exposed
<1>2. z \in Node
  BY RootFacts DEF TypeInv
<1>3. <<c[1], c[3][1]>> \in Written(z)'
  BY <1>1, <1>2, WrittenGrows
<1>4. Region' = Region /\ ReadsBehind(z)' = ReadsBehind(z)
  BY DEF Region, ReadsBehind, Reached
<1> QED
  BY <1>1, <1>3, <1>4 DEF Exposed

(* Global nodes need nothing but what they have from the start.            *)
LEMMA AppliedGlobal ==
  ASSUME prog \in PSNodes, WellFormed(prog), NEW y \in Range(prog.globals)
  PROVE  /\ Applied(y) <=> Contributed(y, {}) \subseteq mem[0]
         /\ \A C : Contributed(y, C) = Contributed(y, {})
<1>1. prog.type[y] \in {"ALLOC", "FUNCTION", "CONSTANT", "STORE"}
  BY DEF WellFormed
<1>2. \A C : Delivered(y, C) = {}
  BY <1>1 DEF Delivered
<1>3. \A C : Contributed(y, C) = Contributed(y, {})
  BY <1>1 DEF Contributed
<1> QED
  BY <1>2, <1>3 DEF Applied


(* What a visit changes, and that pointers and cells only grow.            *)
LEMMA ProcessTypes ==
  ASSUME TypeInv, flow = "FI", NEW x \in Node, Process(x)
  PROVE  /\ TypeInv'
         /\ prog' = prog /\ flow' = flow /\ pc' = pc /\ result' = result
         /\ gepOffset' = gepOffset
         /\ pointsTo'[x] = PointsToAfter(x, mem[0])
         /\ \A z \in Node \ {x} : pointsTo'[z] = pointsTo[z]
         /\ mem'[0] = MemoryAfter(x, mem[0])
         /\ mem[0] \in SUBSET Cell /\ mem'[0] \in SUBSET Cell /\ mem[0] \subseteq mem'[0]
         /\ \A z \in Node : \A q \in pointsTo[z] : Stands(pointsTo'[z], q)
<1>1. /\ prog' = prog /\ flow' = flow /\ pc' = pc /\ result' = result
      /\ gepOffset' = gepOffset /\ to_process # <<>> /\ to_process' = Tail(to_process)
  BY DEF Process
<1>2. /\ pointsTo' = [pointsTo EXCEPT ![x] = PointsToAfter(x, mem[0])]
      /\ mem' = [mem EXCEPT ![0] = MemoryAfter(x, mem[0])]
      /\ data' = data
      /\ changed' \in {Append(changed, x), changed}
  BY ProcessFI
<1>3. 0 \in 0 .. N
  BY NAssumption
<1>4. /\ pointsTo \in [Node -> SUBSET Pointer] /\ mem \in [0 .. N -> SUBSET Cell]
      /\ mem[0] \in SUBSET Cell
  BY <1>3 DEF TypeInv
<1>5. /\ PointsToAfter(x, mem[0]) \in SUBSET Pointer
      /\ \A q \in pointsTo[x] : Stands(PointsToAfter(x, mem[0]), q)
  BY <1>4, PointsToAfterFacts
<1>6. MemoryAfter(x, mem[0]) \in SUBSET Cell /\ mem[0] \subseteq MemoryAfter(x, mem[0])
  <2> DEFINE m == mem[0]
             C == {}
  <2>1. m \in SUBSET Cell /\ C \in SUBSET m
    BY <1>4
  <2> HIDE DEF m, C
  <2>2. m \subseteq MemoryAfter(x, m) /\ MemoryAfter(x, m) \subseteq Cell
    BY <2>1, MemoryAfterFacts
  <2> QED
    BY <2>2 DEF m
<1>7. /\ pointsTo' \in [Node -> SUBSET Pointer]
      /\ pointsTo'[x] = PointsToAfter(x, mem[0])
      /\ \A z \in Node \ {x} : pointsTo'[z] = pointsTo[z]
  BY <1>2, <1>4, <1>5
<1>8. mem' \in [0 .. N -> SUBSET Cell] /\ mem'[0] = MemoryAfter(x, mem[0])
  BY <1>2, <1>3, <1>4, <1>6
<1>9. \A z \in Node : \A q \in pointsTo[z] : Stands(pointsTo'[z], q)
  BY <1>5, <1>7 DEF Stands
<1>10. to_process' \in Seq(Node) /\ changed' \in Seq(Node)
  <2>1. to_process \in Seq(Node) /\ changed \in Seq(Node)
    BY DEF TypeInv
  <2>2. Tail(to_process) \in Seq(Node) /\ Append(changed, x) \in Seq(Node)
    BY <1>1, <2>1
  <2> QED
    BY <1>1, <1>2, <2>1, <2>2
<1>11. TypeInv'
  BY <1>1, <1>2, <1>7, <1>8, <1>10 DEF TypeInv
<1> QED
  BY <1>1, <1>4, <1>6, <1>7, <1>8, <1>9, <1>11

(* What does not come before y does not change what y has to do.           *)
LEMMA AppliedStays ==
  ASSUME TypeInv, flow = "FI", NEW x \in Region, Process(x), x \notin Range(prog.globals),
         NEW y \in Node, ~Precedes(x, y), Applied(y)
  PROVE  Applied(y)'
<1>0. x \in Node /\ prog \in PSNodes /\ WellFormed(prog)
  BY RootFacts DEF TypeInv
<1>1. /\ TypeInv'
      /\ prog' = prog /\ gepOffset' = gepOffset
      /\ \A z \in Node \ {x} : pointsTo'[z] = pointsTo[z]
      /\ mem'[0] = MemoryAfter(x, mem[0])
      /\ mem[0] \in SUBSET Cell /\ mem'[0] \in SUBSET Cell /\ mem[0] \subseteq mem'[0]
      /\ \A z \in Node : \A q \in pointsTo[z] : Stands(pointsTo'[z], q)
  BY <1>0, ProcessTypes
<1>2. pointsTo' \in [Node -> SUBSET Pointer]
  BY <1>1 DEF TypeInv
<1>3. y \notin ReadsBehind(x)
  <2>1. Reached(x) \cap Range(prog.globals) = {}
    BY <1>0, GlobalsApart
  <2>2. y \notin Reached(x)
    BY <2>1, <1>0 DEF Precedes
  <2> QED
    BY <2>2 DEF ReadsBehind
<1>4. Visible(y)' \subseteq Visible(y)
  <2> SUFFICES ASSUME NEW c \in mem'[0], ~Exposed(c, y)'
               PROVE  c \in mem[0] /\ ~Exposed(c, y)
    BY DEF Visible
  <2>1. ~Exposed(c, y)
    BY <1>1, <1>2, ExposedGrows
  <2>2. ASSUME c \notin mem[0] PROVE FALSE
    <3>1. <<c[1], c[3][1]>> \in Written(x)
      BY <1>0, <1>1, <2>2, MemoryAfterFacts
    <3>2. Exposed(c, y)
      BY <1>3, <3>1 DEF Exposed
    <3> QED
      BY <2>1, <3>2
  <2> QED
    BY <2>1, <2>2
<1>5. \A o : PointsTo(o)' = PointsTo(o) \/ o = x \/ o \notin Target
  <2> TAKE o
  <2> SUFFICES ASSUME o \in Target, o # x
               PROVE  PointsTo(o)' = PointsTo(o)
    OBVIOUS
  <2>1. o = NULLPTR \/ o = UNKNOWN_MEMORY \/ o \in Node \ {x}
    BY DEF Target
  <2> QED
    BY <1>1, <2>1 DEF PointsTo
<1>6. \A o : Precedes(o, y)' <=> Precedes(o, y)
  BY <1>1 DEF Precedes, Reached
<1>7. \A o \in Target : Effective(o, y)' = Effective(o, y)
  <2> TAKE o \in Target
  <2>1. CASE o = x
    <3>1. Effective(o, y) = {} /\ Effective(o, y)' = {}
      BY <1>6, <2>1 DEF Effective
    <3> QED
      BY <3>1
  <2>2. CASE o # x
    <3>1. PointsTo(o)' = PointsTo(o)
      BY <1>5, <2>2
    <3> QED
      BY <1>6, <3>1 DEF Effective
  <2> QED
    BY <2>1, <2>2
<1>8. /\ \A o \in Range(prog.op[y]) : o \in Target
      /\ prog.type[y] \in {"LOAD", "GEP", "STORE", "MEMCPY"} => prog.op[y][1] \in Target
      /\ prog.type[y] \in {"STORE", "MEMCPY"} => prog.op[y][2] \in Target
  BY <1>0, OperandFacts
<1>9. /\ \A S : Memory(S)' = Memory(S)
      /\ \A ptr : Shifted(y, ptr)' = Shifted(y, ptr)
  BY <1>1 DEF Memory, Shifted, SizeOf
<1>10. Delivered(y, Visible(y))' = Delivered(y, Visible(y)')
  BY <1>1, <1>7, <1>8, <1>9 DEF Delivered
<1>11. Contributed(y, Visible(y))' = Contributed(y, Visible(y)')
  <2>1. CASE prog.type[y] = "STORE"
    BY <1>1, <1>7, <1>8, <1>9, <2>1 DEF Contributed
  <2>2. CASE prog.type[y] = "MEMCPY"
    <3>1. \A C, src, dst, len : Copied(C, src, dst, len)' = Copied(C, src, dst, len)
      BY <1>1 DEF Copied, Moved, SizeOf
    <3> DEFINE e1 == Effective(prog.op[y][1], y)
               e2 == Effective(prog.op[y][2], y)
    <3>2. e1' = e1 /\ e2' = e2
      BY <1>1, <1>7, <1>8, <2>2
    <3> QED
      BY <1>1, <1>9, <2>2, <3>1, <3>2 DEF Contributed
  <2>3. CASE prog.type[y] \notin {"STORE", "MEMCPY"}
    BY <1>1, <2>3 DEF Contributed
  <2> QED
    BY <2>1, <2>2, <2>3
<1>12. Visible(y) \in SUBSET Cell /\ Visible(y)' \in SUBSET Visible(y)
  BY <1>1, <1>4 DEF Visible
<1>13. /\ Delivered(y, Visible(y)') \subseteq Delivered(y, Visible(y))
       /\ Contributed(y, Visible(y)') \subseteq Contributed(y, Visible(y))
  BY <1>12, DeliveredMono
<1>14. \A q \in Delivered(y, Visible(y))' : Stands(pointsTo'[y], q)
  <2> TAKE q \in Delivered(y, Visible(y))'
  <2>1. Stands(pointsTo[y], q)
    BY <1>10, <1>13 DEF Applied
  <2>2. pointsTo[y] \in SUBSET Pointer /\ \A p \in pointsTo[y] : Stands(pointsTo'[y], p)
    BY <1>1 DEF TypeInv
  <2> QED
    BY <2>1, <2>2, StandsTransitive
<1>15. Contributed(y, Visible(y))' \subseteq mem'[0]
  BY <1>1, <1>11, <1>13 DEF Applied
<1> QED
  BY <1>14, <1>15 DEF Applied, Stands

-----------------------------------------------------------------------------
(* The steps of the analysis.                                              *)

(* Taking the first element of a queue.                                    *)
LEMMA HeadTail ==
  ASSUME NEW s \in Seq(Node), s # <<>>
  PROVE  /\ Tail(s) \in Seq(Node) /\ Head(s) \in Node
         /\ Range(s) = {Head(s)} \cup Range(Tail(s))
         /\ Distinct(s) => Distinct(Tail(s)) /\ Head(s) \notin Range(Tail(s))
<1> DEFINE t == Tail(s)
<1>1. /\ t \in Seq(Node) /\ Len(t) = Len(s) - 1 /\ Head(s) = s[1] /\ Len(s) \in Nat \ {0}
      /\ \A i \in 1 .. Len(s) - 1 : t[i] = s[i + 1]
      /\ Head(s) \in Node
  OBVIOUS
<1> HIDE DEF t
<1>2. Range(s) = {s[i] : i \in 1 .. Len(s)} /\ Range(t) = {t[i] : i \in 1 .. Len(s) - 1}
  BY <1>1, RangeSeq
<1>3. \A i \in 1 .. Len(s) - 1 : i + 1 \in 1 .. Len(s) /\ i + 1 # 1
  BY <1>1
<1>4. \A i \in 1 .. Len(s) : i # 1 => i - 1 \in 1 .. Len(s) - 1 /\ i - 1 + 1 = i
  BY <1>1
<1>5. Range(t) \subseteq Range(s)
  BY <1>1, <1>2, <1>3
<1>6. Head(s) \in Range(s) /\ 1 \in 1 .. Len(s)
  BY <1>1, <1>2
<1>7. Range(s) \subseteq {Head(s)} \cup Range(t)
  <2> SUFFICES ASSUME NEW i \in 1 .. Len(s), i # 1
               PROVE  s[i] \in Range(t)
    BY <1>1, <1>2
  <2>1. s[i] = t[i - 1] /\ i - 1 \in 1 .. Len(s) - 1
    BY <1>1, <1>4
  <2> QED
    BY <1>2, <2>1
<1>8. ASSUME Distinct(s) PROVE Distinct(t) /\ Head(s) \notin Range(t)
  <2>1. \A i, j \in 1 .. Len(s) - 1 : t[i] = t[j] => i = j
    <3> SUFFICES ASSUME NEW i \in 1 .. Len(s) - 1, NEW j \in 1 .. Len(s) - 1, t[i] = t[j]
                 PROVE  i = j
      OBVIOUS
    <3>1. s[i + 1] = s[j + 1]
      BY <1>1
    <3>2. i + 1 = j + 1
      BY <1>3, <1>8, <3>1 DEF Distinct
    <3> QED
      BY <3>2
  <2>2. \A i \in 1 .. Len(s) - 1 : t[i] # s[1]
    BY <1>1, <1>3, <1>6, <1>8 DEF Distinct
  <2> QED
    BY <1>1, <1>2, <2>1, <2>2 DEF Distinct
<1> QED
  BY <1>1, <1>5, <1>6, <1>7, <1>8 DEF t

(* Appending to a queue.                                                   *)
LEMMA AppendRange ==
  ASSUME NEW s \in Seq(Node), NEW x \in Node
  PROVE  /\ Append(s, x) \in Seq(Node)
         /\ Range(Append(s, x)) = Range(s) \cup {x}
         /\ Distinct(s) /\ x \notin Range(s) => Distinct(Append(s, x))
<1> DEFINE t == Append(s, x)
<1>1. /\ t \in Seq(Node) /\ Len(t) = Len(s) + 1 /\ Len(s) \in Nat
      /\ \A i \in 1 .. Len(s) : t[i] = s[i]
      /\ t[Len(s) + 1] = x
  OBVIOUS
<1> HIDE DEF t
<1>2. Range(s) = {s[i] : i \in 1 .. Len(s)} /\ Range(t) = {t[i] : i \in 1 .. Len(s) + 1}
  BY <1>1, RangeSeq
<1>3. \A i \in 1 .. Len(s) + 1 : i \in 1 .. Len(s) \/ i = Len(s) + 1
  BY <1>1
<1>4. Len(s) + 1 \in 1 .. Len(s) + 1 /\ 1 .. Len(s) \subseteq 1 .. Len(s) + 1
  BY <1>1
<1>5. Range(t) = Range(s) \cup {x}
  <2>1. Range(t) \subseteq Range(s) \cup {x}
    BY <1>1, <1>2, <1>3
  <2>2. x \in Range(t)
    BY <1>1, <1>2, <1>4
  <2>3. Range(s) \subseteq Range(t)
    BY <1>1, <1>2, <1>4
  <2> QED
    BY <2>1, <2>2, <2>3
<1>6. ASSUME Distinct(s), x \notin Range(s) PROVE Distinct(t)
  <2> SUFFICES ASSUME NEW i \in 1 .. Len(t), NEW j \in 1 .. Len(t), t[i] = t[j]
               PROVE  i = j
    BY DEF Distinct
  <2>1. (i \in 1 .. Len(s) \/ i = Len(s) + 1) /\ (j \in 1 .. Len(s) \/ j = Len(s) + 1)
    BY <1>1, <1>3
  <2> QED
    BY <1>1, <1>2, <1>6, <2>1 DEF Distinct
<1> QED
  BY <1>1, <1>5, <1>6 DEF t

(* The queue and the changed nodes after a visit.                          *)
LEMMA ProcessQueue ==
  ASSUME TypeInv, QueueInv, NEW x \in Node, Process(x), changed' \in {changed, Append(changed, x)}
  PROVE  /\ QueueInv'
         /\ Range(to_process) = {x} \cup Range(to_process')
         /\ Range(changed) \subseteq Range(changed')
         /\ changed' = Append(changed, x) => x \in Range(changed')
         /\ pc = "globals" => x \in Range(prog.globals)
         /\ pc # "globals" => pc = "fixpoint" /\ x \in Reached(prog.root)
<1>1. /\ prog' = prog /\ pc' = pc /\ pc # "done"
      /\ to_process # <<>> /\ x = Head(to_process) /\ to_process' = Tail(to_process)
  BY DEF Process
<1>2. /\ to_process \in Seq(Node) /\ changed \in Seq(Node) 
      /\ pc \in {"globals", "fixpoint", "done"}
  BY DEF TypeInv
<1>3. /\ Range(to_process) = {x} \cup Range(to_process')
      /\ Distinct(to_process) => Distinct(to_process') /\ x \notin Range(to_process')
  BY <1>1, <1>2, HeadTail
<1>4. /\ Range(Append(changed, x)) = Range(changed) \cup {x}
      /\ Distinct(changed) /\ x \notin Range(changed) => Distinct(Append(changed, x))
  BY <1>2, AppendRange
<1>5. Reached(prog.root)' = Reached(prog.root)
  BY <1>1 DEF Reached
<1>6. CASE pc = "globals"
  <2>1. QueueInv'
    BY <1>1, <1>3, <1>6 DEF QueueInv
  <2> QED
    BY <1>3, <1>4, <1>6, <2>1 DEF QueueInv
<1>7. CASE pc = "fixpoint"
  <2>1. /\ Distinct(to_process) /\ Distinct(changed)
        /\ Range(to_process) \cap Range(changed) = {}
        /\ Range(to_process) \subseteq Reached(prog.root)
        /\ Range(changed) \subseteq Reached(prog.root)
    BY <1>7 DEF QueueInv
  <2>2. x \in Range(to_process) /\ x \notin Range(changed)
    BY <1>3, <2>1
  <2>5. Distinct(Append(changed, x))
    BY <1>4, <2>1, <2>2
  <2>6. Distinct(changed')
    <3>1. CASE changed' = changed
      BY <2>1, <3>1
    <3>2. CASE changed' = Append(changed, x)
      BY <2>5, <3>2
    <3> QED
      BY <3>1, <3>2
  <2>3. /\ Range(to_process') \cap Range(changed') = {}
        /\ Range(to_process') \subseteq Reached(prog.root)
        /\ Range(changed') \subseteq Reached(prog.root)
    <3>1. Range(changed') \subseteq Range(changed) \cup {x}
      BY <1>4
    <3>2. x \notin Range(to_process') /\ Range(to_process') \subseteq Range(to_process)
      BY <1>3, <2>1
    <3> QED
      BY <2>1, <2>2, <3>1, <3>2
  <2>4. QueueInv'
    BY <1>1, <1>3, <1>5, <1>7, <2>1, <2>6, <2>3 DEF QueueInv
  <2> QED
    BY <1>3, <1>4, <1>7, <2>1, <2>4
<1> QED
  BY <1>1, <1>2, <1>6, <1>7


(* As long as pointers stay, what y has to do depends on the cells only.   *)
LEMMA SamePointers ==
  ASSUME prog \in PSNodes, WellFormed(prog), prog' = prog, gepOffset' = gepOffset,
         pointsTo' = pointsTo, NEW x \in Node
  PROVE  /\ Delivered(x, Visible(x))' = Delivered(x, Visible(x)')
         /\ Contributed(x, Visible(x))' = Contributed(x, Visible(x)')
         /\ x \in Range(prog.globals) =>
              Delivered(x, Visible(x)') = {} /\ Contributed(x, Visible(x)') = Contributed(x, {})
<1>1. prog' = prog /\ gepOffset' = gepOffset
  OBVIOUS
<1>2. prog \in PSNodes /\ WellFormed(prog)
  OBVIOUS
<1>3. pointsTo' = pointsTo
  OBVIOUS
<1>4. \A o \in Target : Effective(o, x)' = Effective(o, x)
  BY <1>1, <1>3 DEF Effective, Precedes, Reached, PointsTo
<1>11. /\ \A o \in Range(prog.op[x]) : o \in Target
       /\ prog.type[x] \in {"LOAD", "GEP", "STORE", "MEMCPY"} => prog.op[x][1] \in Target
       /\ prog.type[x] \in {"STORE", "MEMCPY"} => prog.op[x][2] \in Target
  BY <1>2, OperandFacts
<1>5. /\ \A S : Memory(S)' = Memory(S)
      /\ \A ptr : Shifted(x, ptr)' = Shifted(x, ptr)
  BY <1>1 DEF Memory, Shifted, SizeOf
<1>12. \A C, src, dst, len : Copied(C, src, dst, len)' = Copied(C, src, dst, len)
  BY <1>1 DEF Copied, Moved, SizeOf
<1>6. Delivered(x, Visible(x))' = Delivered(x, Visible(x)')
  <2>1. CASE prog.type[x] = "LOAD"
    <3> DEFINE e == Effective(prog.op[x][1], x)
    <3>1. e' = e
      BY <1>1, <1>4, <1>11, <2>1
    <3>2. Memory(e)' = Memory(e)
      BY <1>1, <3>1 DEF Memory
    <3>3. \A C, ptr : Loaded(C, ptr)' = Loaded(C, ptr)
      BY DEF Loaded, At, Anywhere
    <3> QED
      BY <1>1, <2>1, <3>1, <3>2, <3>3 DEF Delivered
  <2>2. CASE prog.type[x] = "GEP"
    BY <1>1, <1>4, <1>5, <1>11, <2>2 DEF Delivered
  <2>3. CASE prog.type[x] \notin {"LOAD", "GEP"}
    <3> DEFINE E == UNION {Effective(o, x) : o \in Range(prog.op[x])}
    <3>1. E' = UNION {Effective(o, x)' : o \in Range(prog.op[x])}
      BY <1>1
    <3>2. E' = E
      BY <1>4, <1>11, <3>1
    <3> QED
      BY <1>1, <2>3, <3>2 DEF Delivered
  <2> QED
    BY <2>1, <2>2, <2>3
<1>7. Contributed(x, Visible(x))' = Contributed(x, Visible(x)')
  <2>1. CASE prog.type[x] = "MEMCPY"
    <3> DEFINE e1 == Effective(prog.op[x][1], x)
               e2 == Effective(prog.op[x][2], x)
    <3>1. e1' = e1 /\ e2' = e2
      BY <1>1, <1>4, <1>11, <2>1
    <3> QED
      BY <1>1, <1>5, <1>12, <2>1, <3>1 DEF Contributed
  <2>2. CASE prog.type[x] # "MEMCPY"
    BY <1>1, <1>4, <1>5, <1>11, <2>2 DEF Contributed
  <2> QED
    BY <2>1, <2>2
<1>8. ASSUME x \in Range(prog.globals)
      PROVE  Delivered(x, Visible(x)') = {} /\ Contributed(x, Visible(x)') = Contributed(x, {})
  <2>1. Contributed(x, Visible(x)') = Contributed(x, {})
    BY <1>2, <1>8, AppliedGlobal
  <2>2. prog.type[x] \in {"ALLOC", "FUNCTION", "CONSTANT", "STORE"}
    BY <1>2, <1>8 DEF WellFormed
  <2>3. Delivered(x, Visible(x)') = {}
    BY <2>2 DEF Delivered
  <2> QED
    BY <2>1, <2>3
<1> QED
  BY <1>6, <1>7, <1>8

(* A node that was done still is if only cells are added and it is global. *)
LEMMA AppliedUnchanged ==
  ASSUME TypeInv, prog' = prog, gepOffset' = gepOffset, pointsTo' = pointsTo,
         NEW y \in Node, Applied(y), mem[0] \subseteq mem'[0],
         y \in Range(prog.globals) \/ mem'[0] = mem[0]
  PROVE  Applied(y)'
<1>0. prog \in PSNodes /\ WellFormed(prog)
  BY DEF TypeInv
<1>1. /\ Delivered(y, Visible(y))' = Delivered(y, Visible(y)')
      /\ Contributed(y, Visible(y))' = Contributed(y, Visible(y)')
      /\ y \in Range(prog.globals) =>
           Delivered(y, Visible(y)') = {} /\ Contributed(y, Visible(y)') = Contributed(y, {})
  BY <1>0, SamePointers
<1>2. CASE y \in Range(prog.globals)
  <2>1. Contributed(y, {}) \subseteq mem[0]
    BY <1>0, <1>2, AppliedGlobal
  <2> QED
    BY <1>1, <1>2, <2>1 DEF Applied
<1>3. CASE mem'[0] = mem[0]
  <2>1. Visible(y)' = Visible(y)
    <3>1. \A c : Exposed(c, y)' <=> Exposed(c, y)
      <4>1. \A z : Written(z)' = Written(z)
        BY DEF Written, PointsTo, Memory
      <4>2. \A z : ReadsBehind(z)' = ReadsBehind(z)
        BY DEF ReadsBehind, Reached
      <4>3. Region' = Region
        BY DEF Region, Reached
      <4> QED
        BY <4>1, <4>2, <4>3 DEF Exposed
    <3> QED
      BY <1>3, <3>1 DEF Visible
  <2> QED
    BY <1>1, <1>3, <2>1 DEF Applied, Stands
<1> QED
  BY <1>2, <1>3

(* A node that has been processed is done, unless it changed something and *)
(* is behind itself.                                                       *)
LEMMA AppliedAfter ==
  ASSUME TypeInv, flow = "FI", NEW x \in Node, Process(x),
         x \in Range(prog.globals) \/ (pointsTo' = pointsTo /\ mem'[0] = mem[0])
  PROVE  Applied(x)'
<1>1. /\ prog' = prog /\ gepOffset' = gepOffset
      /\ pointsTo'[x] = PointsToAfter(x, mem[0])
      /\ mem'[0] = MemoryAfter(x, mem[0])
      /\ mem[0] \in SUBSET Cell
      /\ pointsTo' = [pointsTo EXCEPT ![x] = PointsToAfter(x, mem[0])]
  BY ProcessTypes, ProcessFI
<1>2. TypeInv' /\ prog \in PSNodes /\ WellFormed(prog) /\ pointsTo \in [Node -> SUBSET Pointer]
  BY ProcessTypes DEF TypeInv
<1>3. pointsTo' = pointsTo
  <2>1. CASE x \in Range(prog.globals)
    <3>1. prog.type[x] \in {"ALLOC", "FUNCTION", "CONSTANT", "STORE"}
      BY <1>2, <2>1 DEF WellFormed
    <3>2. PointsToAfter(x, mem[0]) = pointsTo[x]
      BY <3>1 DEF PointsToAfter
    <3> QED
      BY <1>1, <1>2, <3>2
  <2> QED
    BY <2>1
<1>4. /\ Delivered(x, Visible(x))' = Delivered(x, Visible(x)')
      /\ Contributed(x, Visible(x))' = Contributed(x, Visible(x)')
      /\ x \in Range(prog.globals) =>
           Delivered(x, Visible(x)') = {} /\ Contributed(x, Visible(x)') = Contributed(x, {})
  BY <1>1, <1>2, <1>3, SamePointers
<1>8. Visible(x)' \subseteq mem'[0]
  BY DEF Visible
<1>9. CASE x \in Range(prog.globals)
  <2>3. Contributed(x, {}) \subseteq MemoryAfter(x, mem[0])
    <3> DEFINE m == mem[0]
               C == {}
    <3>1. m \in SUBSET Cell /\ C \in SUBSET m
      BY <1>1
    <3> HIDE DEF m, C
    <3>2. Contributed(x, C) \subseteq MemoryAfter(x, m)
      BY <3>1, MemoryAfterFacts
    <3> QED
      BY <3>2 DEF m, C
  <2> QED
    BY <1>1, <1>4, <1>9, <2>3 DEF Applied
<1>10. CASE mem'[0] = mem[0]
  <2>1. Visible(x)' \in SUBSET mem[0]
    BY <1>8, <1>10
  <2>2. /\ \A q \in Delivered(x, Visible(x)') : Stands(PointsToAfter(x, mem[0]), q)
        /\ Contributed(x, Visible(x)') \subseteq MemoryAfter(x, mem[0])
    <3> DEFINE m == mem[0]
               C == Visible(x)'
    <3>1. m \in SUBSET Cell /\ C \in SUBSET m
      BY <1>1, <2>1
    <3> HIDE DEF m, C
    <3>2. /\ \A q \in pointsTo[x] \cup Delivered(x, C) : Stands(PointsToAfter(x, m), q)
          /\ Contributed(x, C) \subseteq MemoryAfter(x, m)
      BY <3>1, PointsToAfterFacts, MemoryAfterFacts
    <3> QED
      BY <3>2 DEF m, C
  <2> QED
    BY <1>1, <1>4, <2>2 DEF Applied, Stands
<1> QED
  BY <1>9, <1>10


(* A visit keeps the invariant.                                            *)
LEMMA ProcessStep ==
  ASSUME AnalysisInv, flow = "FI", result, NEW x \in Node, Process(x)
  PROVE  AnalysisInv'
<1>0. /\ TypeInv /\ QueueInv
      /\ \A y \in Node : Constructed(y) \subseteq pointsTo[y]
      /\ \A y \in Region : Pending(y) \/ Applied(y)
  BY DEF AnalysisInv
<1>1. /\ TypeInv'
      /\ prog' = prog /\ flow' = flow /\ pc' = pc /\ result' = result
      /\ gepOffset' = gepOffset
      /\ pointsTo'[x] = PointsToAfter(x, mem[0])
      /\ \A z \in Node \ {x} : pointsTo'[z] = pointsTo[z]
      /\ mem'[0] = MemoryAfter(x, mem[0])
      /\ mem[0] \in SUBSET Cell
      /\ mem[0] \subseteq mem'[0]
  BY <1>0, ProcessTypes
<1>2. changed' = IF pointsTo' # pointsTo \/ MemoryAfter(x, mem[0]) # mem[0]
                 THEN Append(changed, x) ELSE changed
  BY <1>0, ProcessFI
<1>3. /\ QueueInv'
      /\ Range(to_process) = {x} \cup Range(to_process')
      /\ Range(changed) \subseteq Range(changed')
      /\ changed' = Append(changed, x) => x \in Range(changed')
      /\ pc = "globals" => x \in Range(prog.globals)
      /\ pc # "globals" => pc = "fixpoint" /\ x \in Reached(prog.root)
  <2>1. changed' \in {changed, Append(changed, x)}
    BY <1>2
  <2> QED
    BY <1>0, <2>1, ProcessQueue
<1>4. /\ prog \in PSNodes /\ WellFormed(prog) /\ pointsTo \in [Node -> SUBSET Pointer]
      /\ Region \subseteq Node
      /\ Reached(prog.root) \cap Range(prog.globals) = {}
      /\ Reached(prog.root) \subseteq Node
  BY <1>0, RootFacts DEF TypeInv
<1>5. \A z : Reached(z)' = Reached(z)
  BY <1>1 DEF Reached
<1>6. Region' = Region
  BY <1>1, <1>5 DEF Region
<1>7. \A y \in Node : (Constructed(y) \subseteq pointsTo[y])'
  <2> TAKE y \in Node
  <2>1. Constructed(y)' = Constructed(y)
    BY <1>1 DEF Constructed, Allocates
  <2>2. CASE y # x
    BY <1>0, <1>1, <2>1, <2>2
  <2>3. CASE y = x /\ prog.type[x] \in {"ALLOC", "FUNCTION", "CONSTANT"}
    <3>1. PointsToAfter(x, mem[0]) = pointsTo[x]
      BY <2>3 DEF PointsToAfter
    <3> QED
      BY <1>0, <1>1, <2>1, <2>3, <3>1
  <2>4. CASE y = x /\ prog.type[x] \notin {"ALLOC", "FUNCTION", "CONSTANT"}
    <3>1. Constructed(y) = {}
      BY <2>4 DEF Constructed, Allocates
    <3> QED
      BY <2>1, <3>1
  <2> QED
    BY <2>2, <2>3, <2>4
<1>8. ASSUME NEW y \in Region, pc = "globals"
      PROVE  Pending(y)' \/ Applied(y)'
  <2>1. CASE y \in Reached(prog.root)
    BY <1>1, <1>5, <1>8, <2>1 DEF Pending
  <2>2. CASE y \in Range(prog.globals) /\ y = x
    <3>1. Applied(x)'
      BY <1>0, <2>2, AppliedAfter
    <3> QED
      BY <2>2, <3>1
  <2>3. CASE y \in Range(prog.globals) /\ y # x /\ Pending(y)
    BY <1>0, <1>1, <1>3, <1>4, <1>8, <2>3 DEF Pending
  <2>4. CASE y \in Range(prog.globals) /\ y # x /\ Applied(y)
    <3>1. prog.type[x] \in {"ALLOC", "FUNCTION", "CONSTANT", "STORE"}
      BY <1>3, <1>4, <1>8 DEF WellFormed
    <3>2. PointsToAfter(x, mem[0]) = pointsTo[x]
      BY <3>1 DEF PointsToAfter
    <3>3. pointsTo' = [pointsTo EXCEPT ![x] = PointsToAfter(x, mem[0])]
      BY <1>0, ProcessFI
    <3>4. pointsTo' = pointsTo
      BY <1>4, <3>2, <3>3
    <3>5. Applied(y)'
      BY <1>0, <1>1, <1>4, <2>4, <3>4, AppliedUnchanged
    <3> QED
      BY <3>5
  <2> QED
    BY <1>0, <2>1, <2>2, <2>3, <2>4 DEF Region
<1>9. ASSUME NEW y \in Region, pc = "fixpoint"
      PROVE  Pending(y)' \/ Applied(y)'
  <2>0. x \in Reached(prog.root) /\ x \notin Range(prog.globals) /\ x \in Region /\ y \in Node
    BY <1>3, <1>4, <1>9 DEF Region
  <2>1. CASE changed' = Append(changed, x) /\ y \in Reached(x)
    BY <1>1, <1>3, <1>5, <1>9, <2>1 DEF Pending
  <2>2. CASE y # x /\ Pending(y)
    <3>1. CASE y \in Range(to_process)
      BY <1>3, <2>2, <3>1 DEF Pending
    <3>2. CASE \E z \in Range(changed) : y \in Reached(z)
      BY <1>1, <1>3, <1>5, <1>9, <3>2 DEF Pending
    <3> QED
      BY <1>9, <2>2, <3>1, <3>2 DEF Pending
  <2>3. CASE y \notin Reached(x) /\ Applied(y)
    <3>1. ~Precedes(x, y)
      BY <2>0, <2>3 DEF Precedes
    <3>2. Applied(y)'
      BY <1>0, <2>0, <2>3, <3>1, AppliedStays
    <3> QED
      BY <3>2
  <2>4. CASE pointsTo' = pointsTo /\ mem'[0] = mem[0] /\ y = x
    <3>1. Applied(x)'
      BY <1>0, <2>4, AppliedAfter
    <3> QED
      BY <2>4, <3>1
  <2>5. CASE pointsTo' = pointsTo /\ mem'[0] = mem[0] /\ Applied(y)
    <3>1. Applied(y)'
      BY <1>0, <1>1, <2>0, <2>5, AppliedUnchanged
    <3> QED
      BY <3>1
  <2>6. x \in Reached(x)
    BY <1>4, ReachedFacts
  <2>7. changed' = Append(changed, x) \/ (pointsTo' = pointsTo /\ mem'[0] = mem[0])
    BY <1>1, <1>2
  <2> QED
    BY <1>0, <2>1, <2>2, <2>3, <2>4, <2>5, <2>6, <2>7
<1>10. \A y \in Region' : Pending(y)' \/ Applied(y)'
  BY <1>3, <1>6, <1>8, <1>9
<1> QED
  BY <1>1, <1>3, <1>7, <1>10 DEF AnalysisInv


(* So does the step to the first iteration, ...                            *)
LEMMA EndGlobalsStep ==
  ASSUME AnalysisInv, flow = "FI", result, EndGlobals
  PROVE  AnalysisInv'
<1>0. /\ TypeInv /\ QueueInv
      /\ \A y \in Node : Constructed(y) \subseteq pointsTo[y]
      /\ \A y \in Region : Pending(y) \/ Applied(y)
  BY DEF AnalysisInv
<1>1. /\ pc = "globals" /\ to_process = <<>> /\ pc' = "fixpoint" /\ changed' = <<>>
      /\ to_process' = GetNodes(prog, <<prog.root>>)
      /\ prog' = prog /\ flow' = flow /\ pointsTo' = pointsTo /\ gepOffset' = gepOffset
      /\ data' = data /\ mem' = mem
  BY DEF EndGlobals, IterationEnds
<1>2. /\ prog \in PSNodes /\ WellFormed(prog) /\ prog.root \in Node
      /\ Region \subseteq Node
      /\ Reached(prog.root) \cap Range(prog.globals) = {}
  BY <1>0, RootFacts DEF TypeInv
<1>3. <<prog.root>> \in Seq(Node) /\ Distinct(<<prog.root>>)
  BY <1>2, SingleDistinct
<1>4. to_process' \in Seq(Node) /\ Distinct(to_process')
  BY <1>1, <1>2, <1>3, QueueFacts
<1>5. Range(to_process') = Reached(prog.root)
  BY <1>1 DEF Reached
<1>6. \A z : Reached(z)' = Reached(z)
  BY <1>1 DEF Reached
<1>7. <<>> \in Seq(Node) /\ Distinct(<<>>) /\ Range(<<>>) = {}
  BY DEF Distinct, Range
<1>8. TypeInv'
  BY <1>0, <1>1, <1>4, <1>7 DEF TypeInv
<1>9. QueueInv'
  BY <1>1, <1>4, <1>5, <1>6, <1>7 DEF QueueInv
<1>10. \A y \in Node : Constructed(y)' \subseteq pointsTo'[y]
  BY <1>0, <1>1 DEF Constructed, Allocates
<1>11. \A y \in Region : Pending(y)' \/ Applied(y)'
  <2> TAKE y \in Region
  <2>1. CASE y \in Reached(prog.root)
    BY <1>5, <2>1 DEF Pending
  <2>2. CASE y \notin Reached(prog.root)
    <3>1. ~Pending(y)
      BY <1>1, <1>7, <2>2 DEF Pending
    <3>2. Applied(y)'
      BY <1>0, <1>1, <1>2, <3>1, AppliedUnchanged
    <3> QED
      BY <3>2
  <2> QED
    BY <2>1, <2>2
<1>12. Region' = Region
  BY <1>1, <1>6 DEF Region
<1> QED
  BY <1>8, <1>9, <1>10, <1>11, <1>12 DEF AnalysisInv

(* ... the step to another one, ...                                        *)
LEMMA RepeatStep ==
  ASSUME AnalysisInv, flow = "FI", result, Repeat
  PROVE  AnalysisInv'
<1>0. /\ TypeInv /\ QueueInv
      /\ \A y \in Node : Constructed(y) \subseteq pointsTo[y]
      /\ \A y \in Region : Pending(y) \/ Applied(y)
  BY DEF AnalysisInv
<1>1. /\ pc = "fixpoint" /\ to_process = <<>> /\ pc' = pc /\ changed' = <<>>
      /\ to_process' = GetNodes(prog, changed)
      /\ prog' = prog /\ flow' = flow /\ pointsTo' = pointsTo /\ gepOffset' = gepOffset
      /\ data' = data /\ mem' = mem
  BY DEF Repeat, IterationEnds
<1>2. prog \in PSNodes /\ Region \subseteq Node
  BY <1>0, RootFacts DEF TypeInv
<1>3. changed \in Seq(Node) /\ Distinct(changed) /\ Range(changed) \subseteq Reached(prog.root)
  BY <1>0, <1>1 DEF TypeInv, QueueInv
<1>4. /\ to_process' \in Seq(Node) /\ Distinct(to_process')
      /\ \A x \in Range(changed) : Reached(x) \subseteq Range(to_process')
      /\ Range(to_process') \subseteq Reached(prog.root)
  BY <1>1, <1>2, <1>3, QueueFacts
<1>6. \A z : Reached(z)' = Reached(z)
  BY <1>1 DEF Reached
<1>7. <<>> \in Seq(Node) /\ Distinct(<<>>) /\ Range(<<>>) = {}
  BY DEF Distinct, Range
<1>8. TypeInv'
  BY <1>0, <1>1, <1>4, <1>7 DEF TypeInv
<1>9. QueueInv'
  BY <1>1, <1>4, <1>6, <1>7 DEF QueueInv
<1>10. \A y \in Node : Constructed(y)' \subseteq pointsTo'[y]
  BY <1>0, <1>1 DEF Constructed, Allocates
<1>11. \A y \in Region : Pending(y)' \/ Applied(y)'
  <2> TAKE y \in Region
  <2>1. CASE Pending(y)
    BY <1>1, <1>4, <1>7, <2>1 DEF Pending
  <2>2. CASE Applied(y)
    <3>1. Applied(y)'
      BY <1>0, <1>1, <1>2, <2>2, AppliedUnchanged
    <3> QED
      BY <3>1
  <2> QED
    BY <1>0, <2>1, <2>2
<1>12. Region' = Region
  BY <1>1, <1>6 DEF Region
<1> QED
  BY <1>8, <1>9, <1>10, <1>11, <1>12 DEF AnalysisInv

(* ... and the end of the analysis, when nothing is pending any more.      *)
LEMMA FinishStep ==
  ASSUME AnalysisInv, flow = "FI", result, Finish
  PROVE  AnalysisInv'
<1>0. /\ TypeInv /\ QueueInv
      /\ \A y \in Node : Constructed(y) \subseteq pointsTo[y]
      /\ \A y \in Region : Pending(y) \/ Applied(y)
  BY DEF AnalysisInv
<1>1. /\ pc = "fixpoint" /\ to_process = <<>> /\ pc' = "done" /\ changed = <<>>
      /\ prog' = prog /\ flow' = flow /\ pointsTo' = pointsTo /\ gepOffset' = gepOffset
      /\ data' = data /\ mem' = mem /\ to_process' = to_process /\ changed' = changed
  BY DEF Finish, IterationEnds
<1>2. prog \in PSNodes /\ Region \subseteq Node
  BY <1>0, RootFacts DEF TypeInv
<1>7. Range(<<>>) = {}
  BY DEF Range
<1>8. TypeInv'
  BY <1>0, <1>1 DEF TypeInv
<1>9. QueueInv'
  BY <1>1 DEF QueueInv
<1>10. \A y \in Node : Constructed(y)' \subseteq pointsTo'[y]
  BY <1>0, <1>1 DEF Constructed, Allocates
<1>11. \A y \in Region : Applied(y)'
  <2> TAKE y \in Region
  <2>1. ~Pending(y)
    BY <1>1, <1>7 DEF Pending
  <2>2. Applied(y)'
    BY <1>0, <1>1, <1>2, <2>1, AppliedUnchanged
  <2> QED
    BY <2>2
<1>12. Region' = Region
  BY <1>1 DEF Region, Reached
<1> QED
  BY <1>8, <1>9, <1>10, <1>11, <1>12 DEF AnalysisInv

(* At the beginning everything is pending.                                 *)
LEMMA AnalysisInit ==
  ASSUME Init
  PROVE  AnalysisInv
<1> SUFFICES ASSUME flow = "FI"
             PROVE  /\ TypeInv
                    /\ QueueInv
                    /\ \A x \in Node : Constructed(x) \subseteq pointsTo[x]
                    /\ \A y \in Region : Pending(y)
  BY DEF AnalysisInv
<1>1. prog \in PSNodes /\ WellFormed(prog)
  BY OptionsAssumption DEF Init
<1>2. \A x \in Node : Constructed(x) \in SUBSET Pointer
  <2> TAKE x \in Node
  <2>1. 0 \in Offset /\ x \in Target /\ prog.off[x] \in Offset
    BY <1>1, ProgramFacts, UNKNOWNAssumption DEF Offset, Target
  <2>2. CASE Allocates(x)
    BY <2>1, <2>2 DEF Constructed, Pointer
  <2>3. CASE ~Allocates(x) /\ prog.type[x] = "CONSTANT"
    <3>1. prog.op[x][1] \in Target
      BY <1>1, <2>3, OperandFacts
    <3> QED
      BY <2>1, <2>3, <3>1 DEF Constructed, Pointer
  <2>4. CASE ~Allocates(x) /\ prog.type[x] # "CONSTANT"
    BY <2>4 DEF Constructed
  <2> QED
    BY <2>2, <2>3, <2>4
<1>3. pointsTo = [x \in Node |-> Constructed(x)] /\ pointsTo \in [Node -> SUBSET Pointer]
  BY <1>2 DEF Init
<1>4. mem \in [0 .. N -> SUBSET Cell]
  BY DEF Init
<1>5. prog.globals \in Seq(Node) /\ <<>> \in Seq(Node)
  BY <1>1, ProgramFacts
<1>6. TypeInv
  BY <1>1, <1>3, <1>4, <1>5 DEF TypeInv, Init
<1>7. QueueInv
  BY DEF QueueInv, Init
<1>8. \A y \in Region : Pending(y)
  BY DEF Pending, Region, Init
<1> QED
  BY <1>3, <1>6, <1>7, <1>8

(* The invariant speaks of the analysis only.                              *)
LEMMA AnalysisSame ==
  ASSUME AnalysisInv, UNCHANGED vars
  PROVE  AnalysisInv'
<1>1. TypeInv' <=> TypeInv
  BY DEF vars, TypeInv
<1>2. QueueInv' <=> QueueInv
  BY DEF vars, QueueInv, Reached
<1>3. \A x : Constructed(x)' = Constructed(x)
  BY DEF vars, Constructed, Allocates
<1>4. \A y : Pending(y)' <=> Pending(y)
  BY DEF vars, Pending, Reached
<1>5. Region' = Region
  BY DEF vars, Region, Reached
<1>6. ASSUME TypeInv, NEW y \in Region, Applied(y)
      PROVE  Applied(y)'
  <2>1. Region \subseteq Node
    BY <1>6, RootFacts DEF TypeInv
  <2> QED
    BY <1>6, <2>1, AppliedUnchanged DEF vars
<1> QED
  BY <1>1, <1>2, <1>3, <1>4, <1>5, <1>6 DEF AnalysisInv, vars

(* All steps of the analysis keep the invariant.                           *)
LEMMA AnalysisStep ==
  ASSUME ResultInv, AnalysisInv, Run \/ UNCHANGED vars
  PROVE  ResultInv' /\ AnalysisInv'
<1>1. CASE UNCHANGED vars
  BY <1>1, AnalysisSame DEF ResultInv, vars
<1>2. CASE Run
  <2>1. result
    BY <1>2 DEF ResultInv, Run, Process, EndGlobals, Repeat, GiveUp, Finish, IterationEnds
  <2>2. ResultInv'
    BY <1>2, <2>1 DEF ResultInv, Run, Process, EndGlobals, Repeat, GiveUp, Finish
  <2>3. CASE flow = "FI"
    <3>1. CASE \E x \in Node : Process(x)
      BY <2>1, <2>2, <2>3, <3>1, ProcessStep
    <3>2. CASE EndGlobals
      BY <2>1, <2>2, <2>3, <3>2, EndGlobalsStep
    <3>3. CASE Repeat
      BY <2>1, <2>2, <2>3, <3>3, RepeatStep
    <3>4. CASE GiveUp
      BY <2>2, <3>4 DEF GiveUp, AnalysisInv
    <3>5. CASE Finish
      BY <2>1, <2>2, <2>3, <3>5, FinishStep
    <3> QED
      BY <1>2, <3>1, <3>2, <3>3, <3>4, <3>5 DEF Run
  <2>4. CASE flow # "FI"
    <3>1. flow' = flow
      BY <1>2 DEF Run, Process, EndGlobals, Repeat, GiveUp, Finish
    <3> QED
      BY <2>2, <2>4, <3>1 DEF AnalysisInv
  <2> QED
    BY <2>2, <2>3, <2>4
<1> QED
  BY <1>1, <1>2

-----------------------------------------------------------------------------
(* The execution of one node after the analysis.                           *)

Analysed ==
  /\ pc = "done" /\ flow = "FI" /\ WritesKnown /\ ReadsSettled
  /\ TypeInv
  /\ \A x \in Node : Constructed(x) \subseteq pointsTo[x]
  /\ \A y \in Region : Applied(y)

(* A finished analysis has nothing pending, so all nodes are done.         *)
LEMMA AnalysedFacts ==
  ASSUME AnalysisInv, pc = "done", flow = "FI", result, WritesKnown, ReadsSettled
  PROVE  Analysed
<1>1. /\ TypeInv /\ QueueInv
      /\ \A y \in Node : Constructed(y) \subseteq pointsTo[y]
      /\ \A y \in Region : Pending(y) \/ Applied(y)
  BY DEF AnalysisInv
<1>2. \A y : ~Pending(y)
  BY <1>1 DEF Pending, QueueInv, Range
<1> QED
  BY <1>1, <1>2 DEF Analysed

(* Null and undefined values are no addresses.                             *)
LEMMA ValueFacts ==
  /\ UNDEFINED \notin Address /\ NULL \notin Address
  /\ \A v \in Address : v[1] \in Node /\ v[3] \in Offset
  /\ NULLPTR \notin Node /\ UNKNOWN_MEMORY \notin Node /\ NULLPTR # UNKNOWN_MEMORY
  /\ UnknownPointer[1] \notin Node /\ UnknownPointer = <<UNKNOWN_MEMORY, UNKNOWN>>
<1>1. -1 \notin Node /\ 0 \notin Node /\ N + 1 \notin Node /\ 0 # N + 1
  BY NAssumption DEF Node
<1> QED
  BY <1>1 DEF UNDEFINED, NULL, Address, NULLPTR, UNKNOWN_MEMORY, UnknownPointer

(* The node that is executed, and what comes next.                         *)
LEMMA NextFacts ==
  ASSUME TypeInv, RestInv, NEW x \in Node, Execute(x)
  PROVE  /\ x \in Region /\ x \in Range(rest)
         /\ RestInv'
         /\ Ahead(x)'
         /\ \A w : Ahead(w) => Precedes(w, x) /\ Ahead(w)'
<1>1. /\ rest # <<>> /\ x = Head(rest)
      /\ \/ Len(rest) > 1 /\ rest' = Tail(rest)
         \/ Len(rest) = 1 /\ \E s \in Range(Dispatched(prog, x)) : rest' = <<s>>
         \/ Len(rest) = 1 /\ rest' = <<>>
      /\ prog' = prog
  BY DEF Execute, vars
<1>2. /\ rest \in Seq(Node)
      /\ \A i \in 1 .. Len(rest) - 1 : rest[i] \in Range(prog.globals)
      /\ rest[Len(rest)] \in Reached(prog.root)
  BY <1>1 DEF RestInv
<1>3. /\ Len(rest) \in Nat \ {0} /\ rest[1] = x
      /\ Range(rest) = {rest[i] : i \in 1 .. Len(rest)}
  BY <1>1, <1>2, RangeSeq
<1>4. x \in Range(rest)
  <2>1. 1 \in 1 .. Len(rest)
    BY <1>3
  <2> QED
    BY <1>3, <2>1
<1>5. /\ prog \in PSNodes /\ WellFormed(prog) /\ prog.root \in Node
      /\ Reached(prog.root) \subseteq Node
      /\ Reached(prog.root) \cap Range(prog.globals) = {}
  BY RootFacts DEF TypeInv
<1>6. \A z : Reached(z)' = Reached(z)
  BY <1>1 DEF Reached
<1>7. \A w, y : Precedes(w, y)' <=> Precedes(w, y)
  BY <1>1, <1>6 DEF Precedes
<1>8. Ahead(x)' <=> \A y \in Range(rest') : Precedes(x, y)
  BY <1>7 DEF Ahead
<1>9. \A w : Ahead(w)' <=> \A y \in Range(rest') : Precedes(w, y)
  BY <1>7 DEF Ahead
<1>10. \A w : Ahead(w) => Precedes(w, x)
  BY <1>4 DEF Ahead
<1>11. CASE Len(rest) > 1 /\ rest' = Tail(rest)
  <2>1. x \in Range(prog.globals)
    BY <1>2, <1>3, <1>11
  <2>2. \A y : Precedes(x, y)
    BY <2>1 DEF Precedes
  <2>3. Range(rest') \subseteq Range(rest) /\ rest' \in Seq(Node)
    BY <1>1, <1>2, <1>11, HeadTail
  <2>4. /\ Len(rest') = Len(rest) - 1 /\ rest' # <<>>
        /\ \A i \in 1 .. Len(rest) - 1 : rest'[i] = rest[i + 1]
    <3> DEFINE t == Tail(rest)
    <3>1. /\ Len(t) = Len(rest) - 1
          /\ \A i \in 1 .. Len(rest) - 1 : t[i] = rest[i + 1]
      BY <1>1, <1>2
    <3>2. rest' = t
      BY <1>11
    <3> HIDE DEF t
    <3>3. Len(t) # 0
      BY <1>3, <1>11, <3>1
    <3> QED
      BY <3>1, <3>2, <3>3
  <2>5. \A i \in 1 .. Len(rest') - 1 : rest'[i] \in Range(prog.globals)
    <3> TAKE i \in 1 .. Len(rest') - 1
    <3>1. i \in 1 .. Len(rest) - 1 /\ i + 1 \in 1 .. Len(rest) - 1
      BY <1>3, <2>4
    <3> QED
      BY <1>2, <2>4, <3>1
  <2>6. rest'[Len(rest')] \in Reached(prog.root)
    <3>1. Len(rest) - 1 \in 1 .. Len(rest) - 1 /\ Len(rest) - 1 + 1 = Len(rest)
      BY <1>3, <1>11
    <3> QED
      BY <1>2, <2>4, <3>1
  <2>7. RestInv'
    BY <1>1, <1>6, <2>3, <2>5, <2>6 DEF RestInv
  <2>8. x \in Region
    BY <2>1 DEF Region
  <2>9. \A w : Ahead(w) => Ahead(w)'
    BY <1>9, <2>3 DEF Ahead
  <2> QED
    BY <1>4, <1>8, <1>10, <2>2, <2>7, <2>8, <2>9
<1>12. ASSUME Len(rest) = 1
       PROVE  x \in Reached(prog.root) /\ x \notin Range(prog.globals) /\ x \in Region
  BY <1>2, <1>3, <1>5, <1>12 DEF Region
<1>13. CASE Len(rest) = 1 /\ rest' = <<>>
  <2>1. Range(rest') = {}
    BY <1>13 DEF Range
  <2>2. RestInv'
    BY <1>13 DEF RestInv
  <2> QED
    BY <1>4, <1>8, <1>9, <1>10, <1>12, <1>13, <2>1, <2>2
<1>14. CASE Len(rest) = 1 /\ \E s \in Range(Dispatched(prog, x)) : rest' = <<s>>
  <2>1. PICK s \in Range(Dispatched(prog, x)) : rest' = <<s>>
    BY <1>14
  <2>2. s \in Reached(prog.root) /\ s \in Node
    BY <1>5, <1>12, <1>14, ReachedFacts
  <2>3. s \in Reached(x)
    BY <1>5, ReachedFacts
  <2>4. Range(rest') = {s} /\ rest' \in Seq(Node) /\ Len(rest') = 1 /\ rest'[1] = s
    BY <2>1, <2>2, SingleDistinct
  <2>5. s \notin Range(prog.globals)
    BY <1>5, <2>2
  <2>6. RestInv'
    BY <1>1, <1>6, <2>2, <2>4 DEF RestInv
  <2>7. Precedes(x, s)
    BY <2>3, <2>5 DEF Precedes
  <2>8. \A w : Precedes(w, x) => Precedes(w, s)
    <3> TAKE w
    <3> HAVE Precedes(w, x)
    <3>1. CASE w \notin Node \/ w \in Range(prog.globals)
      BY <3>1 DEF Precedes
    <3>2. CASE w \in Node /\ w \notin Range(prog.globals)
      <4>1. x \in Reached(w)
        BY <3>2 DEF Precedes
      <4>2. s \in Reached(w)
        BY <1>5, <3>2, <4>1, ReachedFacts
      <4> QED
        BY <2>5, <4>2 DEF Precedes
    <3> QED
      BY <3>1, <3>2
  <2> QED
    BY <1>4, <1>8, <1>9, <1>10, <1>12, <1>14, <2>4, <2>6, <2>7, <2>8
<1> QED
  BY <1>1, <1>11, <1>13, <1>14


(* An address that x gets from an operand has a pointer among those that   *)
(* matter to x.                                                            *)
LEMMA OperandFound ==
  ASSUME TypeInv, EnvInv, RestInv, NEW x \in Range(rest), NEW o \in Target,
         NEW v \in Values(o), v \in Address
  PROVE  \E q \in Effective(o, x) : For(q, v)
<1>1. CASE o = NULLPTR
  BY <1>1, ValueFacts DEF Values
<1>2. CASE o = UNKNOWN_MEMORY
  <2>1. PointsTo(o) = {UnknownPointer}
    BY <1>2, ValueFacts DEF PointsTo
  <2>2. Precedes(o, x)
    BY <1>2, ValueFacts DEF Precedes
  <2> QED
    BY <2>1, <2>2 DEF Effective, For
<1>3. CASE o \in Node
  <2>1. v = env[o] /\ PointsTo(o) = pointsTo[o]
    BY <1>3, ValueFacts DEF Values, PointsTo
  <2>2. Ahead(o) /\ Covered(v, pointsTo[o])
    BY <1>3, <2>1, ValueFacts DEF EnvInv
  <2>3. Precedes(o, x)
    BY <2>2 DEF Ahead
  <2>4. \E q \in pointsTo[o] : For(q, v)
    BY <2>2 DEF Covered, For
  <2> QED
    BY <2>1, <2>3, <2>4 DEF Effective
<1> QED
  BY <1>1, <1>2, <1>3 DEF Target

(* A pointer for a cell that can be accessed points to memory.             *)
LEMMA InsideMemory ==
  ASSUME TypeInv, NEW v, Inside(v), NEW S, NEW q \in S, For(q, v), q # UnknownPointer
  PROVE  /\ q \in Memory(S) /\ q[1] = v[1] /\ q[2] \in {v[3], UNKNOWN}
         /\ v[3] \in 0 .. UNKNOWN - 1
<1>1. v \in Address /\ v[3] < prog.size[v[1]] /\ v[3] \in 0 .. UNKNOWN - 1
  BY DEF Inside, Place
<1>2. v[1] \in Node
  BY <1>1 DEF Address
<1>3. prog.type[v[1]] # "FUNCTION"
  <2>1. prog.type[v[1]] = "FUNCTION" => prog.size[v[1]] = 0
    BY <1>2 DEF TypeInv, WellFormed
  <2> QED
    BY <1>1, <2>1
<1>4. q[1] = v[1] /\ q[2] \in {v[3], UNKNOWN}
  BY DEF For
<1> QED
  BY <1>1, <1>2, <1>3, <1>4 DEF Memory

(* A pointer that is stood for covers its addresses.                       *)
LEMMA CoveredBy ==
  ASSUME NEW S, NEW q, Stands(S, q), NEW v, For(q, v)
  PROVE  Covered(v, S)
<1>1. q \in {<<v[1], v[3]>>, <<v[1], UNKNOWN>>, UnknownPointer}
  BY DEF For
<1>2. CASE q = UnknownPointer
  BY <1>2 DEF Stands, Covered, UnknownPointer
<1>3. CASE q # UnknownPointer
  <2>1. q[1] = v[1]
    BY <1>1, <1>3
  <2> QED
    BY <1>1, <1>3, <2>1 DEF Stands, Covered
<1> QED
  BY <1>2, <1>3

(* What can be delivered from cells that x sees has been delivered, and so *)
(* has what comes from a cell that an executed node may have written.      *)
LEMMA ReadFound ==
  ASSUME Analysed, NEW x \in Region, prog.type[x] \in {"LOAD", "MEMCPY"},
         NEW c \in mem[0], NEW w \in Region, Precedes(w, x),
         <<c[1], c[3][1]>> \in Written(w)
  PROVE  \E C \in SUBSET mem[0] :
           /\ c \in C
           /\ \A q \in Delivered(x, C) : Stands(pointsTo[x], q)
           /\ Contributed(x, C) \subseteq mem[0]
<1>1. /\ TypeInv /\ ReadsSettled /\ Applied(x)
      /\ mem[0] \in SUBSET Cell /\ pointsTo \in [Node -> SUBSET Pointer]
      /\ x \in Node /\ w \in Node
      /\ prog \in PSNodes /\ WellFormed(prog)
  <2>1. TypeInv /\ ReadsSettled /\ Applied(x)
    BY DEF Analysed
  <2>2. 0 \in 0 .. N
    BY NAssumption
  <2> QED
    BY <2>1, <2>2, RootFacts DEF TypeInv
<1>2. CASE ~Exposed(c, x)
  <2>1. c \in Visible(x) /\ Visible(x) \in SUBSET mem[0]
    BY <1>2 DEF Visible
  <2> QED
    BY <1>1, <2>1 DEF Applied
<1>3. CASE Exposed(c, x)
  <2>1. PICK z \in Region : <<c[1], c[3][1]>> \in Written(z) /\ x \notin ReadsBehind(z)
    BY <1>3 DEF Exposed
  <2>2. x \in Reached(prog.root) /\ x \notin Range(prog.globals)
    BY <1>1 DEF Region, WellFormed
  <2>3. x \in ReadsBehind(w)
    BY <1>1, <2>2 DEF ReadsBehind, Precedes
  <2>4. Written(w) \cap Written(z) # {}
    BY <2>1
  <2>5. Settled(x)
    BY <1>1, <2>1, <2>3, <2>4 DEF ReadsSettled, Region
  <2>6. PointsToAfter(x, mem[0]) = pointsTo[x] /\ MemoryAfter(x, mem[0]) = mem[0]
    BY <2>5 DEF Settled
  <2> DEFINE m == mem[0]
  <2>7. m \in SUBSET Cell /\ m \in SUBSET m
    BY <1>1
  <2> HIDE DEF m
  <2>8. /\ \A q \in Delivered(x, m) : Stands(PointsToAfter(x, m), q)
        /\ Contributed(x, m) \subseteq MemoryAfter(x, m)
    BY <1>1, <2>7, PointsToAfterFacts, MemoryAfterFacts
  <2>9. /\ m \in SUBSET mem[0] /\ c \in m
        /\ \A q \in Delivered(x, m) : Stands(pointsTo[x], q)
        /\ Contributed(x, m) \subseteq mem[0]
    BY <2>6, <2>8 DEF m
  <2> QED
    BY <2>9, Zenon
<1> QED
  BY <1>2, <1>3

(* What a load finds in the heap, the analysis has found.                  *)
LEMMA LoadFound ==
  ASSUME Analysed, EnvInv, RestInv, HeapInv, NEW x \in Region, x \in Range(rest),
         prog.type[x] = "LOAD", NEW a \in Values(prog.op[x][1]), Inside(a),
         a \in DOMAIN heap
  PROVE  Covered(heap[a], pointsTo[x])
<1>1. TypeInv /\ prog \in PSNodes /\ WellFormed(prog) /\ x \in Node /\ Applied(x)
  BY RootFacts DEF Analysed, TypeInv
<1>2. prog.op[x][1] \in Target /\ a \in Address
  BY <1>1, OperandFacts DEF Inside
<1>3. PICK p \in Effective(prog.op[x][1], x) : For(p, a)
  BY <1>1, <1>2, OperandFound
<1>4. CASE p = UnknownPointer
  <2>1. p \in Delivered(x, Visible(x))
    BY <1>4 DEF Delivered
  <2>2. Stands(pointsTo[x], p)
    BY <1>1, <2>1 DEF Applied
  <2> QED
    BY <1>4, <2>2 DEF Stands, Covered, UnknownPointer
<1>5. CASE p # UnknownPointer /\ heap[a] \in Address
  <2>1. PICK c \in mem[0] :
          /\ c[1] = a[1] /\ c[2] \in {a[3], UNKNOWN} /\ For(c[3], heap[a])
          /\ \E w \in Region : Ahead(w) /\ <<c[1], c[3][1]>> \in Written(w)
    BY <1>5 DEF HeapInv
  <2>2. PICK w \in Region : Ahead(w) /\ <<c[1], c[3][1]>> \in Written(w)
    BY <2>1
  <2>3. Precedes(w, x)
    BY <2>2 DEF Ahead
  <2>4. PICK C \in SUBSET mem[0] : /\ c \in C
                                   /\ \A q \in Delivered(x, C) : Stands(pointsTo[x], q)
    BY <2>2, <2>3, ReadFound
  <2>5. /\ p \in Memory(Effective(prog.op[x][1], x))
        /\ p[1] = a[1] /\ p[2] \in {a[3], UNKNOWN}
    BY <1>1, <1>3, <1>5, InsideMemory
  <2>6. c[3] \in Loaded(C, p)
    BY <2>1, <2>4, <2>5 DEF Loaded, At, Anywhere
  <2>7. c[3] \in Delivered(x, C)
    BY <2>5, <2>6 DEF Delivered
  <2>8. Stands(pointsTo[x], c[3])
    BY <2>4, <2>7
  <2> QED
    BY <2>1, <2>8, CoveredBy
<1>6. CASE heap[a] \notin Address
  BY <1>6 DEF Covered
<1> QED
  BY <1>4, <1>5, <1>6


(* The heap h after x: its cells are in the memory of the analysis.        *)
CellFound(x, l, v) ==
  \E c \in mem[0] :
    /\ c[1] = l[1] /\ c[2] \in {l[3], UNKNOWN} /\ For(c[3], v)
    /\ \E w \in Region : (w = x \/ Ahead(w)) /\ <<c[1], c[3][1]>> \in Written(w)

HeapFound(x, h) == \A l \in DOMAIN h : h[l] \in Address => CellFound(x, l, h[l])

(* Cells that x does not write keep theirs in the analysis.                *)
LEMMA HeapStays ==
  ASSUME HeapInv, NEW x, NEW l \in DOMAIN heap, heap[l] \in Address
  PROVE  CellFound(x, l, heap[l])
<1>1. PICK c \in mem[0] :
        /\ c[1] = l[1] /\ c[2] \in {l[3], UNKNOWN} /\ For(c[3], heap[l])
        /\ \E w \in Region : Ahead(w) /\ <<c[1], c[3][1]>> \in Written(w)
  BY DEF HeapInv
<1> QED
  BY <1>1 DEF CellFound

(* A stored value has its cell in the memory of the analysis.              *)
LEMMA StoreFound ==
  ASSUME Analysed, EnvInv, RestInv, HeapInv, NEW x \in Region, x \in Range(rest),
         prog.type[x] = "STORE", NEW v \in Values(prog.op[x][1]),
         NEW a \in Values(prog.op[x][2]), Inside(a)
  PROVE  HeapFound(x, HeapWith(heap, [l \in {a} |-> v]))
<1> DEFINE h == HeapWith(heap, [l \in {a} |-> v])
<1>1. /\ DOMAIN h = {a} \cup DOMAIN heap
      /\ h[a] = v
      /\ \A l \in DOMAIN heap \ {a} : h[l] = heap[l]
  BY DEF HeapWith
<1> HIDE DEF h
<1>2. /\ TypeInv /\ prog \in PSNodes /\ WellFormed(prog) /\ x \in Node /\ Applied(x)
      /\ WritesKnown
  BY RootFacts DEF Analysed, TypeInv
<1>3. prog.op[x][1] \in Target /\ prog.op[x][2] \in Target /\ a \in Address
  BY <1>2, OperandFacts DEF Inside
<1>4. ASSUME v \in Address
      PROVE  CellFound(x, a, v)
  <2> DEFINE e1 == Effective(prog.op[x][1], x)
             e2 == Effective(prog.op[x][2], x)
  <2>1. PICK q \in e1 : For(q, v)
    BY <1>2, <1>3, <1>4, OperandFound
  <2>2. PICK p \in e2 : For(p, a)
    BY <1>2, <1>3, OperandFound
  <2>3. e1 \subseteq PointsTo(prog.op[x][1]) /\ e2 \subseteq PointsTo(prog.op[x][2])
    BY DEF Effective
  <2>4. p # UnknownPointer
    BY <1>2, <2>2, <2>3 DEF WritesKnown
  <2>5. /\ p \in Memory(e2) /\ p \in Memory(PointsTo(prog.op[x][2]))
        /\ p[1] = a[1] /\ p[2] \in {a[3], UNKNOWN}
    <3> HIDE DEF e2
    <3> QED
      BY <1>2, <2>2, <2>3, <2>4, InsideMemory
  <2> DEFINE c == <<p[1], p[2], q>>
  <2>6. c \in Contributed(x, Visible(x))
    <3>1. Contributed(x, Visible(x)) = {<<w[1][1], w[1][2], w[2]>> : w \in Memory(e2) \X e1}
      BY DEF Contributed
    <3>2. <<p, q>> \in Memory(e2) \X e1
      BY <2>1, <2>5
    <3>3. <<p, q>>[1] = p /\ <<p, q>>[2] = q
      OBVIOUS
    <3> HIDE DEF e1, e2
    <3> QED
      BY <3>1, <3>2, <3>3
  <2>7. c \in mem[0]
    BY <1>2, <2>6 DEF Applied
  <2>8. <<p[1], q[1]>> \in Written(x)
    BY <2>1, <2>3, <2>5 DEF Written
  <2>9. c[1] = p[1] /\ c[2] = p[2] /\ c[3] = q
    OBVIOUS
  <2> HIDE DEF c
  <2> QED
    BY <2>1, <2>5, <2>7, <2>8, <2>9 DEF CellFound
<1>5. \A l \in DOMAIN heap : heap[l] \in Address => CellFound(x, l, heap[l])
  BY HeapStays
<1>6. HeapFound(x, h)
  BY <1>1, <1>4, <1>5 DEF HeapFound
<1> QED
  BY <1>6 DEF h

(* New memory holds no address.                                            *)
LEMMA AllocFound ==
  ASSUME HeapInv, NEW x, NEW K
  PROVE  HeapFound(x, HeapWith(heap, [l \in K |-> NULL]))
<1> DEFINE h == HeapWith(heap, [l \in K |-> NULL])
<1>1. /\ DOMAIN h = K \cup DOMAIN heap
      /\ \A l \in K : h[l] = NULL
      /\ \A l \in DOMAIN heap \ K : h[l] = heap[l]
  BY DEF HeapWith
<1> HIDE DEF h
<1>2. \A l \in DOMAIN heap : heap[l] \in Address => CellFound(x, l, heap[l])
  BY HeapStays
<1>3. NULL \notin Address
  BY ValueFacts
<1>4. HeapFound(x, h)
  BY <1>1, <1>2, <1>3 DEF HeapFound
<1> QED
  BY <1>4 DEF h


(* Small offsets do not wrap.                                              *)
LEMMA SmallModulus ==
  ASSUME NEW k \in 0 .. UNKNOWN
  PROVE  k % (UNKNOWN + 1) = k
  BY UNKNOWNAssumption

(* Addresses inside an object do not wrap.                                 *)
LEMMA AddFacts ==
  ASSUME NEW v \in Address, NEW i \in Nat, v[3] + i <= UNKNOWN
  PROVE  Add(v, i) = <<v[1], v[2], v[3] + i>>
<1>1. v[3] + i \in 0 .. UNKNOWN
  BY ValueFacts, UNKNOWNAssumption DEF Offset
<1> QED
  BY <1>1, SmallModulus DEF Add

(* A shifted address is found, at its offset or an unknown one.            *)
LEMMA GepFound ==
  ASSUME Analysed, EnvInv, RestInv, NEW x \in Region, x \in Range(rest),
         prog.type[x] = "GEP", NEW v \in Values(prog.op[x][1]), v \in Address,
         NEW d \in Amounts(x)
  PROVE  Covered(Add(v, d), pointsTo[x])
<1>1. /\ TypeInv /\ prog \in PSNodes /\ WellFormed(prog) /\ x \in Node /\ Applied(x)
      /\ gepOffset = Preprocessed(prog, "FI")
  BY RootFacts DEF Analysed, TypeInv
<1>2. prog.op[x][1] \in Target
  BY <1>1, OperandFacts
<1>3. PICK p \in Effective(prog.op[x][1], x) : For(p, v)
  BY <1>1, <1>2, OperandFound
<1>4. Shifted(x, p) \in Delivered(x, Visible(x))
  BY DEF Delivered
<1>5. Stands(pointsTo[x], Shifted(x, p))
  BY <1>1, <1>4 DEF Applied
<1> DEFINE a == Add(v, d)
<1>6. a = <<v[1], v[2], (v[3] + d) % (UNKNOWN + 1)>>
  BY DEF Add
<1>7. a[1] = v[1] /\ a[3] = (v[3] + d) % (UNKNOWN + 1)
  BY <1>6
<1> HIDE DEF a
<1>8. For(Shifted(x, p), a)
  <2>1. CASE p[2] = UNKNOWN
    <3>1. Shifted(x, p) = <<p[1], UNKNOWN>>
      BY <2>1 DEF Shifted
    <3>2. p[1] = v[1] \/ p = UnknownPointer
      BY <1>3 DEF For
    <3> QED
      BY <1>7, <2>1, <3>1, <3>2 DEF For, UnknownPointer
  <2>2. CASE p[2] # UNKNOWN
    <3>1. p = <<v[1], v[3]>> /\ p[1] = v[1] /\ p[2] = v[3]
      BY <1>3, <2>2 DEF For, UnknownPointer
    <3>2. CASE gepOffset[x] = UNKNOWN
      <4>1. Shifted(x, p) = <<p[1], UNKNOWN>>
        BY <3>2 DEF Shifted
      <4> QED
        BY <1>7, <3>1, <4>1 DEF For
    <3>3. CASE gepOffset[x] # UNKNOWN
      <4>1. gepOffset[x] = prog.off[x] /\ d = gepOffset[x]
        BY <1>1, <3>3, GepOffsetType DEF Amounts
      <4>2. Shifted(x, p) \in {<<p[1], (p[2] + gepOffset[x]) % (UNKNOWN + 1)>>, <<p[1], UNKNOWN>>}
        BY DEF Shifted
      <4> QED
        BY <1>7, <3>1, <4>1, <4>2 DEF For
    <3> QED
      BY <3>2, <3>3
  <2> QED
    BY <2>1, <2>2
<1>9. Covered(a, pointsTo[x])
  BY <1>5, <1>8, CoveredBy
<1> QED
  BY <1>9 DEF a

(* Where a copied pointer comes from and where it is written.              *)
LEMMA MovedFound ==
  ASSUME NEW s \in Address, NEW d \in Address, NEW len \in Nat, NEW i \in 0 .. len - 1,
         s[3] + len <= UNKNOWN, d[3] + len <= UNKNOWN,
         NEW p1, p1[1] = s[1], p1[2] \in {s[3], UNKNOWN},
         NEW p2, p2[1] = d[1], p2[2] \in {d[3], UNKNOWN},
         NEW o \in {s[3] + i, UNKNOWN}, NEW amount \in {len, UNKNOWN}
  PROVE  InRange(o, p1, amount) /\ Moved(o, p1, p2) \in {d[3] + i, UNKNOWN}
<1>1. s[3] \in Nat /\ d[3] \in Nat /\ i \in Nat /\ i < len /\ UNKNOWN \in Nat
  BY ValueFacts, UNKNOWNAssumption DEF Offset
<1>2. InRange(o, p1, amount)
  <2>1. CASE o = UNKNOWN \/ p1[2] = UNKNOWN
    BY <2>1 DEF InRange
  <2>2. CASE o = s[3] + i /\ p1[2] = s[3]
    <3>1. s[3] <= o /\ o - s[3] < len
      BY <1>1, <2>2
    <3> QED
      BY <2>2, <3>1 DEF InRange
  <2> QED
    BY <2>1, <2>2
<1>3. Moved(o, p1, p2) \in {d[3] + i, UNKNOWN}
  <2>1. CASE UNKNOWN \in {o, p1[2], p2[2]}
    BY <2>1 DEF Moved
  <2>2. CASE UNKNOWN \notin {o, p1[2], p2[2]}
    <3>1. o - p1[2] + p2[2] = d[3] + i
      BY <1>1, <2>2
    <3> QED
      BY <3>1 DEF Moved
  <2> QED
    BY <2>1, <2>2
<1> QED
  BY <1>2, <1>3


(* Copied values have their cells in the memory of the analysis.           *)
LEMMA CopyFound ==
  ASSUME Analysed, EnvInv, RestInv, HeapInv, NEW x \in Region, x \in Range(rest),
         prog.type[x] = "MEMCPY", NEW s \in Values(prog.op[x][1]),
         NEW d \in Values(prog.op[x][2]), NEW len \in Amounts(x) \ {0},
         Inside(s), s[3] + len <= prog.size[s[1]],
         Inside(d), d[3] + len <= prog.size[d[1]]
  PROVE  HeapFound(x, HeapWithCopy(s, d, len))
<1> DEFINE h == HeapWithCopy(s, d, len)
           written == {Add(d, i) : i \in 0 .. len - 1}
           from(l) == Add(s, l[3] - d[3])
           e1 == Effective(prog.op[x][1], x)
           e2 == Effective(prog.op[x][2], x)
<1>1. /\ DOMAIN h = {k \in written : from(k) \in DOMAIN heap} \cup (DOMAIN heap \ written)
      /\ \A l \in DOMAIN h : h[l] = IF l \in written THEN heap[from(l)] ELSE heap[l]
  BY DEF HeapWithCopy
<1>2. /\ TypeInv /\ prog \in PSNodes /\ WellFormed(prog) /\ x \in Node /\ Applied(x)
      /\ WritesKnown /\ mem[0] \in SUBSET Cell
  <2>1. 0 \in 0 .. N
    BY NAssumption
  <2> QED
    BY <2>1, RootFacts DEF Analysed, TypeInv
<1>3. prog.op[x][1] \in Target /\ prog.op[x][2] \in Target /\ s \in Address /\ d \in Address
  BY <1>2, OperandFacts DEF Inside
<1>4. /\ len \in Nat \ {0} /\ prog.off[x] \in {len, UNKNOWN}
      /\ s[3] + len <= UNKNOWN /\ d[3] + len <= UNKNOWN
      /\ s[3] \in Nat /\ d[3] \in Nat /\ UNKNOWN \in Nat
  <2>1. /\ prog.size[s[1]] \in 0 .. UNKNOWN /\ prog.size[d[1]] \in 0 .. UNKNOWN
        /\ prog.off[x] \in 0 .. UNKNOWN /\ s[3] \in 0 .. UNKNOWN /\ d[3] \in 0 .. UNKNOWN
    BY <1>2, <1>3, ProgramFacts, ValueFacts DEF Offset
  <2>2. len \in 0 .. UNKNOWN /\ len # 0 /\ prog.off[x] \in {len, UNKNOWN}
    BY <2>1 DEF Amounts, Offset
  <2> QED
    BY <2>1, <2>2, UNKNOWNAssumption
<1>5. PICK p1 \in e1 : For(p1, s)
  BY <1>2, <1>3, OperandFound
<1>6. PICK p2 \in e2 : For(p2, d)
  BY <1>2, <1>3, OperandFound
<1>7. e1 \subseteq PointsTo(prog.op[x][1]) /\ e2 \subseteq PointsTo(prog.op[x][2])
  BY DEF Effective
<1>8. p1 # UnknownPointer /\ p2 # UnknownPointer
  BY <1>2, <1>5, <1>6, <1>7 DEF WritesKnown
<1>9. /\ p1 \in Memory(e1) /\ p1[1] = s[1] /\ p1[2] \in {s[3], UNKNOWN}
      /\ p2 \in Memory(e2) /\ p2[1] = d[1] /\ p2[2] \in {d[3], UNKNOWN}
      /\ p2 \in Memory(PointsTo(prog.op[x][2]))
  <2> HIDE DEF e1, e2
  <2> QED
    BY <1>2, <1>5, <1>6, <1>7, <1>8, InsideMemory
<1> HIDE DEF h
<1>10. ASSUME NEW i \in 0 .. len - 1, NEW l, l = Add(d, i), from(l) \in DOMAIN heap,
              heap[from(l)] \in Address
       PROVE  CellFound(x, l, heap[from(l)])
  <2>1. l = <<d[1], d[2], d[3] + i>> /\ l[1] = d[1] /\ l[3] = d[3] + i
    <3>1. i \in Nat /\ d[3] + i <= UNKNOWN
      BY <1>4
    <3>2. Add(d, i) = <<d[1], d[2], d[3] + i>>
      BY <1>3, <3>1, AddFacts
    <3> QED
      BY <1>10, <3>2
  <2>2. from(l)[1] = s[1] /\ from(l)[3] = s[3] + i
    <3>1. i \in Nat /\ s[3] + i <= UNKNOWN /\ l[3] - d[3] = i
      BY <1>4, <2>1
    <3>2. Add(s, i) = <<s[1], s[2], s[3] + i>>
      BY <1>3, <3>1, AddFacts
    <3>3. from(l) = <<s[1], s[2], s[3] + i>>
      BY <3>1, <3>2
    <3> QED
      BY <3>3
  <2> DEFINE v == heap[from(l)]
  <2>3. PICK c \in mem[0] :
          /\ c[1] = from(l)[1] /\ c[2] \in {from(l)[3], UNKNOWN} /\ For(c[3], v)
          /\ \E w \in Region : Ahead(w) /\ <<c[1], c[3][1]>> \in Written(w)
    BY <1>10 DEF HeapInv
  <2> HIDE DEF v
  <2>4. c[1] = s[1] /\ c[2] \in {s[3] + i, UNKNOWN}
    BY <2>2, <2>3
  <2>5. PICK w \in Region : Ahead(w) /\ <<c[1], c[3][1]>> \in Written(w)
    BY <2>3
  <2>6. Precedes(w, x)
    BY <2>5 DEF Ahead
  <2>7. PICK C \in SUBSET mem[0] : c \in C /\ Contributed(x, C) \subseteq mem[0]
    BY <2>5, <2>6, ReadFound
  <2> DEFINE e == <<p2[1], Moved(c[2], p1, p2), c[3]>>
  <2>8. InRange(c[2], p1, prog.off[x]) /\ Moved(c[2], p1, p2) \in {d[3] + i, UNKNOWN}
    <3> HIDE DEF from
    <3> QED
      BY <1>3, <1>4, <1>9, <2>4, MovedFound
  <2>9. e \in Copied(C, p1, p2, prog.off[x])
    BY <1>9, <2>4, <2>7, <2>8 DEF Copied
  <2>10. e \in Contributed(x, C)
    <3>1. Contributed(x, C) = UNION {Copied(C, u[1], u[2], prog.off[x]) : u \in Memory(e1) \X Memory(e2)}
      BY DEF Contributed
    <3>2. <<p1, p2>> \in Memory(e1) \X Memory(e2) /\ <<p1, p2>>[1] = p1 /\ <<p1, p2>>[2] = p2
      BY <1>9
    <3> HIDE DEF e1, e2, e
    <3> QED
      BY <2>9, <3>1, <3>2
  <2>11. e[1] = p2[1] /\ e[2] = Moved(c[2], p1, p2) /\ e[3] = c[3]
    OBVIOUS
  <2> HIDE DEF e
  <2>12. <<e[1], e[3][1]>> \in Written(x)
    <3>1. c[3][1] \in Target
      BY <1>2, CellFacts
    <3>2. Written(x) = {a[1] : a \in Memory(PointsTo(prog.op[x][2]))} \X Target
      BY DEF Written
    <3> QED
      BY <1>9, <2>11, <3>1, <3>2
  <2>13. CellFound(x, l, v)
    BY <1>9, <2>1, <2>3, <2>7, <2>8, <2>10, <2>11, <2>12 DEF CellFound
  <2> QED
    BY <2>13 DEF v
<1>11. \A l \in DOMAIN heap : heap[l] \in Address => CellFound(x, l, heap[l])
  BY HeapStays
<1>12. HeapFound(x, h)
  <2> SUFFICES ASSUME NEW l \in DOMAIN h, h[l] \in Address
               PROVE  CellFound(x, l, h[l])
    BY DEF HeapFound
  <2>1. CASE l \in written
    <3>1. PICK i \in 0 .. len - 1 : l = Add(d, i)
      BY <2>1
    <3>2. h[l] = heap[from(l)] /\ from(l) \in DOMAIN heap
      <4> HIDE DEF written, from
      <4> QED
        BY <1>1, <2>1
    <3> QED
      BY <1>10, <3>1, <3>2
  <2>2. CASE l \notin written
    <3>1. h[l] = heap[l] /\ l \in DOMAIN heap
      <4> HIDE DEF written, from
      <4> QED
        BY <1>1, <2>2
    <3> QED
      BY <1>11, <3>1
  <2> QED
    BY <2>1, <2>2
<1> QED
  BY <1>12 DEF h


(* Nodes that pass their operands on.                                      *)
LEMMA PassedFound ==
  ASSUME Analysed, EnvInv, RestInv, NEW x \in Region, x \in Range(rest),
         prog.type[x] \in {"CAST", "PHI", "RETURN", "CALL_RETURN"},
         NEW o \in Range(prog.op[x]), NEW v \in Values(o)
  PROVE  Covered(v, pointsTo[x])
<1>1. /\ TypeInv /\ prog \in PSNodes /\ WellFormed(prog) /\ x \in Node /\ Applied(x)
      /\ o \in Target
  BY RootFacts, OperandFacts DEF Analysed, TypeInv
<1>2. CASE v \in Address
  <2>1. PICK q \in Effective(o, x) : For(q, v)
    BY <1>1, <1>2, OperandFound
  <2>2. q \in Delivered(x, Visible(x))
    BY <2>1 DEF Delivered
  <2>3. Stands(pointsTo[x], q)
    BY <1>1, <2>2 DEF Applied
  <2> QED
    BY <2>1, <2>3, CoveredBy
<1>3. CASE v \notin Address
  BY <1>3 DEF Covered
<1> QED
  BY <1>2, <1>3

(* Whatever executing x computes and writes, the analysis has found.       *)
LEMMA OutcomeFound ==
  ASSUME Analysed, EnvInv, RestInv, HeapInv, NEW x \in Region, x \in Range(rest),
         NEW o \in Outcomes(x)
  PROVE  Covered(o.val, pointsTo[x]) /\ HeapFound(x, o.heap)
<1>1. /\ TypeInv /\ prog \in PSNodes /\ WellFormed(prog) /\ x \in Node
      /\ Constructed(x) \subseteq pointsTo[x]
  BY RootFacts DEF Analysed, TypeInv
<1>2. HeapFound(x, heap)
  BY HeapStays DEF HeapFound
<1>3. \A S : Covered(UNDEFINED, S) /\ Covered(NULL, S)
  BY ValueFacts DEF Covered
<1>4. prog.type[x] \in NodeType
  BY <1>1, ProgramFacts
<1>5. CASE Allocates(x)
  <2> DEFINE K == {l \in Place : l[1] = x /\ l[2] = live[x] + 1 /\ x \in prog.zero}
  <2>1. o = [val |-> <<x, live[x] + 1, 0>>, heap |-> HeapWith(heap, [l \in K |-> NULL])]
    <3>1. prog.type[x] \in {"ALLOC", "FUNCTION"}
      BY <1>5 DEF Allocates
    <3>2. Outcomes(x) = Allocated(x)
      BY <1>5, <3>1 DEF Outcomes
    <3> QED
      BY <3>2 DEF Allocated
  <2> HIDE DEF K
  <2>2. o.val = <<x, live[x] + 1, 0>> /\ o.heap = HeapWith(heap, [l \in K |-> NULL])
    BY <2>1
  <2>3. <<x, 0>> \in pointsTo[x]
    BY <1>1, <1>5 DEF Constructed
  <2>4. Covered(o.val, pointsTo[x])
    BY <2>2, <2>3 DEF Covered
  <2> QED
    BY <2>2, <2>4, AllocFound
<1>6. CASE prog.type[x] = "STORE"
  <2>1. o \in Stored(x)
    BY <1>6 DEF Outcomes, Allocates
  <2>2. PICK w \in Values(prog.op[x][1]) \X Values(prog.op[x][2]) :
          /\ Inside(w[2])
          /\ o = [val |-> UNDEFINED, heap |-> HeapWith(heap, [l \in {w[2]} |-> w[1]])]
    BY <2>1 DEF Stored
  <2>3. o.val = UNDEFINED /\ o.heap = HeapWith(heap, [l \in {w[2]} |-> w[1]])
    BY <2>2
  <2>4. HeapFound(x, HeapWith(heap, [l \in {w[2]} |-> w[1]]))
    BY <1>6, <2>2, StoreFound
  <2> QED
    BY <1>3, <2>3, <2>4
<1>7. CASE prog.type[x] = "MEMCPY"
  <2>1. o \in CopiedCells(x)
    BY <1>7 DEF Outcomes, Allocates
  <2>2. PICK w \in Values(prog.op[x][1]) \X Values(prog.op[x][2]) \X (Amounts(x) \ {0}) :
          /\ Inside(w[1]) /\ w[1][3] + w[3] <= prog.size[w[1][1]]
          /\ Inside(w[2]) /\ w[2][3] + w[3] <= prog.size[w[2][1]]
          /\ o = [val |-> UNDEFINED, heap |-> HeapWithCopy(w[1], w[2], w[3])]
    BY <2>1 DEF CopiedCells
  <2>3. o.val = UNDEFINED /\ o.heap = HeapWithCopy(w[1], w[2], w[3])
    BY <2>2
  <2>4. HeapFound(x, HeapWithCopy(w[1], w[2], w[3]))
    BY <1>7, <2>2, CopyFound
  <2> QED
    BY <1>3, <2>3, <2>4
<1>8. CASE prog.type[x] \in {"NOOP", "ENTRY", "CALL", "CALL_FUNCPTR"}
  <2>1. o = [val |-> UNDEFINED, heap |-> heap]
    BY <1>8 DEF Outcomes, Allocates
  <2> QED
    BY <1>2, <1>3, <2>1
<1>9. CASE prog.type[x] \in {"LOAD", "GEP", "CONSTANT", "CAST", "PHI", "RETURN", "CALL_RETURN"}
  <2>1. o \in {[val |-> v, heap |-> heap] : v \in Computed(x) \cup {UNDEFINED}}
    BY <1>9 DEF Outcomes, Allocates
  <2>2. PICK v \in Computed(x) \cup {UNDEFINED} : o = [val |-> v, heap |-> heap]
    BY <2>1
  <2>3. o.val = v /\ o.heap = heap
    BY <2>2
  <2>4. CASE prog.type[x] = "LOAD" /\ v \in Computed(x)
    <3>1. PICK a \in Values(prog.op[x][1]) : Inside(a) /\ a \in DOMAIN heap /\ v = heap[a]
      BY <2>4 DEF Computed
    <3> QED
      BY <1>2, <2>3, <2>4, <3>1, LoadFound
  <2>5. CASE prog.type[x] = "GEP" /\ v \in Computed(x)
    <3>1. PICK a \in Values(prog.op[x][1]) \cap Address, d \in Amounts(x) : v = Add(a, d)
      BY <2>5 DEF Computed
    <3>2. Covered(Add(a, d), pointsTo[x])
      BY <2>5, <3>1, GepFound
    <3> QED
      BY <1>2, <2>3, <3>1, <3>2
  <2>6. CASE prog.type[x] = "CONSTANT" /\ v \in Computed(x)
    <3>1. v = NULL \/ Covered(v, {<<prog.op[x][1], prog.off[x]>>})
      BY <2>6 DEF Computed
    <3>2. <<prog.op[x][1], prog.off[x]>> \in pointsTo[x]
      BY <1>1, <2>6 DEF Constructed, Allocates
    <3>3. Covered(v, {<<prog.op[x][1], prog.off[x]>>}) => Covered(v, pointsTo[x])
      BY <3>2 DEF Covered
    <3> QED
      BY <1>2, <1>3, <2>3, <3>1, <3>3
  <2>7. CASE prog.type[x] \in {"CAST", "PHI", "RETURN", "CALL_RETURN"} /\ v \in Computed(x)
    <3>1. PICK p \in Range(prog.op[x]) : v \in Values(p)
      BY <2>7 DEF Computed
    <3> QED
      BY <1>2, <2>3, <2>7, <3>1, PassedFound
  <2> QED
    BY <1>2, <1>3, <1>9, <2>2, <2>3, <2>4, <2>5, <2>6, <2>7
<1> QED
  BY <1>4, <1>5, <1>6, <1>7, <1>8, <1>9 DEF NodeType, Allocates

(* Executing a node keeps the invariant.                                   *)
LEMMA ExecuteStep ==
  ASSUME Analysed, EnvInv, RestInv, HeapInv, NEW x \in Node, Execute(x)
  PROVE  RestInv' /\ EnvInv' /\ HeapInv'
<1>1. TypeInv
  BY DEF Analysed
<1>2. /\ x \in Region /\ x \in Range(rest)
      /\ RestInv'
      /\ Ahead(x)'
      /\ \A w : Ahead(w) => Precedes(w, x) /\ Ahead(w)'
  BY <1>1, NextFacts
<1>3. PICK o \in Outcomes(x) : env' = [env EXCEPT ![x] = o.val] /\ heap' = o.heap
  BY DEF Execute
<1>4. prog' = prog /\ pointsTo' = pointsTo /\ mem' = mem
  BY DEF Execute, vars
<1>5. Covered(o.val, pointsTo[x]) /\ HeapFound(x, o.heap)
  BY <1>2, OutcomeFound
<1>6. DOMAIN env = Node
  BY DEF EnvInv
<1>7. DOMAIN env' = Node /\ env'[x] = o.val /\ \A z \in Node \ {x} : env'[z] = env[z]
  BY <1>3, <1>6
<1>8. \A v, S : Covered(v, S)' <=> Covered(v, S)
  BY DEF Covered
<1>9. EnvInv'
  <2>1. \A z \in Node : env'[z] # UNDEFINED => Ahead(z)' /\ Covered(env'[z], pointsTo[z])
    BY <1>2, <1>5, <1>7 DEF EnvInv
  <2> QED
    BY <1>4, <1>7, <2>1 DEF EnvInv
<1>10. HeapInv'
  <2>1. Region' = Region /\ \A w : Written(w)' = Written(w)
    BY <1>4 DEF Region, Reached, Written, Memory, PointsTo
  <2>2. ASSUME NEW l \in DOMAIN heap', heap'[l] \in Address
        PROVE  \E c \in mem'[0] :
                 /\ c[1] = l[1] /\ c[2] \in {l[3], UNKNOWN} /\ For(c[3], heap'[l])
                 /\ \E w \in Region' : Ahead(w)' /\ <<c[1], c[3][1]>> \in Written(w)'
    <3>1. CellFound(x, l, heap'[l])
      BY <1>3, <1>5, <2>2 DEF HeapFound
    <3>2. PICK c \in mem[0] :
            /\ c[1] = l[1] /\ c[2] \in {l[3], UNKNOWN} /\ For(c[3], heap'[l])
            /\ \E w \in Region : (w = x \/ Ahead(w)) /\ <<c[1], c[3][1]>> \in Written(w)
      BY <3>1 DEF CellFound
    <3>3. PICK w \in Region : (w = x \/ Ahead(w)) /\ <<c[1], c[3][1]>> \in Written(w)
      BY <3>2
    <3>4. Ahead(w)'
      BY <1>2, <3>3
    <3> QED
      BY <1>4, <2>1, <3>2, <3>3, <3>4
  <2> QED
    BY <2>2 DEF HeapInv
<1> QED
  BY <1>2, <1>9, <1>10


-----------------------------------------------------------------------------
(* Nothing has been executed at first.                                     *)
LEMMA ExecutionInit ==
  ASSUME SoundInit
  PROVE  ExecutionInv
  BY DEF SoundInit, Init, ExecutionInv

(* The analysis ends before the execution has computed anything.           *)
LEMMA ExecutionStart ==
  ASSUME TypeInv, rest = prog.globals \o <<prog.root>>,
         env = [x \in Node |-> UNDEFINED], heap = <<>>
  PROVE  RestInv /\ EnvInv /\ HeapInv
<1>1. /\ prog.globals \in Seq(Node) /\ prog.root \in Node /\ prog \in PSNodes
      /\ <<prog.root>> \in Seq(Node)
  BY ProgramFacts DEF TypeInv
<1>2. /\ rest \in Seq(Node) /\ Len(rest) = Len(prog.globals) + 1
      /\ \A i \in 1 .. Len(prog.globals) : rest[i] = prog.globals[i]
      /\ rest[Len(prog.globals) + 1] = prog.root
      /\ Len(prog.globals) \in Nat
  BY <1>1
<1>3. \A i \in 1 .. Len(prog.globals) : prog.globals[i] \in Range(prog.globals)
  BY <1>1, RangeSeq
<1>4. prog.root \in Reached(prog.root)
  BY <1>1, ReachedFacts
<1>5. RestInv
  <2>1. \A i \in 1 .. Len(rest) - 1 : i \in 1 .. Len(prog.globals)
    BY <1>2
  <2> QED
    BY <1>2, <1>3, <1>4, <2>1 DEF RestInv
<1>6. EnvInv
  BY DEF EnvInv
<1>7. HeapInv
  <2>1. DOMAIN heap = {}
    OBVIOUS
  <2> QED
    BY <2>1 DEF HeapInv
<1> QED
  BY <1>5, <1>6, <1>7

(* The premises of the theorem speak of the analysis only.                 *)
LEMMA SettledSame ==
  ASSUME UNCHANGED vars
  PROVE  (WritesKnown' <=> WritesKnown) /\ (ReadsSettled' <=> ReadsSettled)
<1>1. /\ prog' = prog /\ pointsTo' = pointsTo /\ gepOffset' = gepOffset
      /\ zero' = zero /\ mem' = mem
  BY DEF vars
<1>2. /\ \A o : PointsTo(o)' = PointsTo(o)
      /\ \A S : Memory(S)' = Memory(S)
      /\ \A z : Reached(z)' = Reached(z)
      /\ \A m, ptr : LoadsNull(m, ptr)' <=> LoadsNull(m, ptr)
      /\ \A x, ptr : Shifted(x, ptr)' = Shifted(x, ptr)
  BY <1>1 DEF PointsTo, Memory, Reached, LoadsNull, Shifted, SizeOf
<1>3. /\ \A m, src, dst, len : Copied(m, src, dst, len)' = Copied(m, src, dst, len)
      /\ \A src, dst, len : CopiedNull(src, dst, len)' <=> CopiedNull(src, dst, len)
      /\ \A x : Copies(x)' = Copies(x)
  BY <1>1, <1>2 DEF Copied, Moved, SizeOf, CopiedNull, Copies
<1>4. \A x, m : ProcessLoad(x, m)' = ProcessLoad(x, m)
  BY <1>1, <1>2 DEF ProcessLoad
<1>5. \A x, m : PointsToAfter(x, m)' = PointsToAfter(x, m)
  BY <1>1, <1>2, <1>4 DEF PointsToAfter
<1>6. \A x, m : MemoryAfter(x, m)' = MemoryAfter(x, m)
  <2> TAKE x, m
  <2>1. CASE prog.type[x] = "STORE"
    BY <1>1, <1>2, <2>1 DEF MemoryAfter
  <2>2. CASE prog.type[x] = "MEMCPY"
    <3> DEFINE A == {<<c[2][1], UNKNOWN, NullPointer>> :
                       c \in {d \in Copies(x) : CopiedNull(d[1], d[2], prog.off[x])}}
               B == UNION {Copied(m, c[1], c[2], prog.off[x]) : c \in Copies(x)}
    <3>1. MemoryAfter(x, m) = AddEachCell(m, A) \cup B
      BY <2>2 DEF MemoryAfter
    <3>2. MemoryAfter(x, m)' = (AddEachCell(m, A) \cup B)'
      BY <1>1, <2>2 DEF MemoryAfter
    <3>3. A' = A /\ B' = B
      BY <1>1, <1>3
    <3> HIDE DEF A, B
    <3>4. AddEachCell(m, A)' = AddEachCell(m, A)
      BY <3>3 DEF AddEachCell
    <3> QED
      BY <3>1, <3>2, <3>3, <3>4
  <2>3. CASE prog.type[x] \notin {"STORE", "MEMCPY"}
    BY <1>1, <2>3 DEF MemoryAfter
  <2> QED
    BY <2>1, <2>2, <2>3
<1>7. \A x : Settled(x)' <=> Settled(x)
  BY <1>1, <1>5, <1>6 DEF Settled
<1>8. \A x : Written(x)' = Written(x) /\ ReadsBehind(x)' = ReadsBehind(x)
  BY <1>1 DEF Written, ReadsBehind, Memory, PointsTo, Reached
<1>9. ReadsSettled' <=> ReadsSettled
  BY <1>1, <1>2, <1>7, <1>8 DEF ReadsSettled
<1>10. WritesKnown' <=> WritesKnown
  BY <1>1, <1>2 DEF WritesKnown
<1> QED
  BY <1>9, <1>10

(* The invariant of the execution depends on these variables only.         *)
LEMMA PartsSame ==
  ASSUME prog' = prog, pointsTo' = pointsTo, mem' = mem, rest' = rest, env' = env,
         heap' = heap
  PROVE  (RestInv' <=> RestInv) /\ (EnvInv' <=> EnvInv) /\ (HeapInv' <=> HeapInv)
<1>1. \A z : Reached(z)' = Reached(z)
  BY DEF Reached
<1>2. \A w : Written(w)' = Written(w) /\ (Ahead(w)' <=> Ahead(w))
  BY DEF Written, Memory, PointsTo, Ahead, Precedes, Reached
<1>3. RestInv' <=> RestInv
  BY <1>1 DEF RestInv
<1>4. EnvInv' <=> EnvInv
  BY <1>2 DEF EnvInv, Covered
<1>5. Region' = Region
  BY <1>1 DEF Region
<1>6. HeapInv' <=> HeapInv
  BY <1>2, <1>5 DEF HeapInv, For
<1> QED
  BY <1>3, <1>4, <1>6

(* Stuttering steps keep the invariant of the execution, ...               *)
LEMMA ExecutionSame ==
  ASSUME UNCHANGED allVars, ExecutionInv
  PROVE  ExecutionInv'
<1>1. /\ UNCHANGED vars
      /\ prog' = prog /\ pointsTo' = pointsTo /\ mem' = mem /\ pc' = pc
      /\ flow' = flow /\ result' = result
      /\ rest' = rest /\ env' = env /\ heap' = heap
  BY DEF allVars, vars, svars
<1>2. (WritesKnown' <=> WritesKnown) /\ (ReadsSettled' <=> ReadsSettled)
  BY <1>1, SettledSame
<1>3. (RestInv' <=> RestInv) /\ (EnvInv' <=> EnvInv) /\ (HeapInv' <=> HeapInv)
  BY <1>1, PartsSame
<1>4. CASE pc = "done"
  BY <1>1, <1>2, <1>3, <1>4 DEF ExecutionInv
<1>5. CASE pc # "done"
  BY <1>1, <1>5 DEF ExecutionInv
<1> QED
  BY <1>4, <1>5

(* ... and so do all others.                                               *)
LEMMA ExecutionStep ==
  ASSUME AnalysisInv, AnalysisInv', ExecutionInv, SoundNext
  PROVE  ExecutionInv'
<1>1. CASE Run /\ UNCHANGED svars
  <2>1. pc # "done" /\ prog' = prog
    BY <1>1 DEF Run, Process, EndGlobals, Repeat, GiveUp, Finish, IterationEnds
  <2>2. /\ rest = prog.globals \o <<prog.root>>
        /\ env = [x \in Node |-> UNDEFINED]
        /\ heap = <<>>
    BY <2>1 DEF ExecutionInv
  <2>3. rest' = rest /\ env' = env /\ heap' = heap
    BY <1>1 DEF svars
  <2>4. CASE pc' # "done"
    BY <2>1, <2>2, <2>3, <2>4 DEF ExecutionInv
  <2>5. CASE pc' = "done" /\ (flow # "FI" \/ ~result)'
    BY <2>5 DEF ExecutionInv
  <2>6. CASE pc' = "done" /\ (flow = "FI" /\ result)'
    <3>1. Finish
      BY <1>1, <2>1, <2>6 DEF Run, Process, EndGlobals, Repeat, GiveUp, Finish
    <3>2. TypeInv'
      BY <2>6 DEF AnalysisInv
    <3>3. TypeInv
      BY <3>1, <3>2 DEF Finish, IterationEnds, TypeInv
    <3>4. RestInv /\ EnvInv /\ HeapInv
      BY <2>2, <3>3, ExecutionStart
    <3>5. pointsTo' = pointsTo /\ mem' = mem
      BY <3>1 DEF Finish
    <3>6. RestInv' /\ EnvInv' /\ HeapInv'
      BY <2>1, <2>3, <3>4, <3>5, PartsSame
    <3> QED
      BY <2>6, <3>6 DEF ExecutionInv
  <2> QED
    BY <2>4, <2>5, <2>6
<1>2. CASE \E x \in Node : Execute(x)
  <2>1. PICK x \in Node : Execute(x)
    BY <1>2
  <2>2. pc = "done" /\ UNCHANGED vars /\ pc' = pc /\ flow' = flow /\ result' = result
    BY <2>1 DEF Execute, vars
  <2>3. (WritesKnown' <=> WritesKnown) /\ (ReadsSettled' <=> ReadsSettled)
    BY <2>2, SettledSame
  <2> SUFFICES ASSUME flow = "FI", result, WritesKnown, ReadsSettled
               PROVE  RestInv' /\ EnvInv' /\ HeapInv'
    BY <2>2, <2>3 DEF ExecutionInv
  <2>4. Analysed
    BY <2>2, AnalysedFacts
  <2>5. RestInv /\ EnvInv /\ HeapInv
    BY <2>2 DEF ExecutionInv
  <2> QED
    BY <2>1, <2>4, <2>5, ExecuteStep
<1> QED
  BY <1>1, <1>2 DEF SoundNext

(* The invariant that the theorem rests on.                                *)
LEMMA SoundInvStep ==
  ASSUME SoundInv, [SoundNext]_allVars
  PROVE  SoundInv'
<1>1. ResultInv /\ AnalysisInv /\ ExecutionInv
  BY DEF SoundInv
<1>2. Run \/ UNCHANGED vars
  BY DEF SoundNext, allVars, Execute
<1>3. ResultInv' /\ AnalysisInv'
  BY <1>1, <1>2, AnalysisStep
<1>4. ExecutionInv'
  <2>1. CASE UNCHANGED allVars
    BY <1>1, <2>1, ExecutionSame
  <2>2. CASE SoundNext
    BY <1>1, <1>3, <2>2, ExecutionStep
  <2> QED
    BY <2>1, <2>2
<1> QED
  BY <1>3, <1>4 DEF SoundInv

(* The flow-insensitive analysis queues only what is reachable from nodes  *)
(* that changed something, and nothing when a node stores what is there    *)
(* already.  Whenever it has finished for a program in which it has met no *)
(* unknown pointer to write through, every pointer that an execution       *)
(* computes is one that it has found, if the reads that are behind one     *)
(* such write and not behind the other are settled.                        *)
THEOREM SoundFICorrect == SoundSpec => []SoundFI
<1>1. SoundInit => SoundInv
  <2> SUFFICES ASSUME SoundInit PROVE SoundInv
    OBVIOUS
  <2>1. AnalysisInv /\ ResultInv
    BY AnalysisInit DEF SoundInit, Init, ResultInv
  <2> QED
    BY <2>1, ExecutionInit DEF SoundInv
<1>2. SoundInv /\ [SoundNext]_allVars => SoundInv'
  BY SoundInvStep
<1>3. SoundInv => SoundFI
  <2> SUFFICES ASSUME SoundInv, pc = "done", result, flow = "FI", WritesKnown, ReadsSettled
               PROVE  FoundEverything
    BY DEF SoundFI
  <2>1. EnvInv
    BY DEF SoundInv, ExecutionInv
  <2> QED
    BY <2>1, ValueFacts DEF FoundEverything, EnvInv, Covered
<1> QED
  BY <1>1, <1>2, <1>3, PTL DEF SoundSpec

=============================================================================
