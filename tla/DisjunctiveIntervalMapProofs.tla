-------------------- MODULE DisjunctiveIntervalMapProofs --------------------
(***************************************************************************)
(* The intervals of class DisjunctiveIntervalMap are disjoint at every     *)
(* step of every operation, every operation changes exactly the offsets it *)
(* was called for, and lookups find what is stored, whatever the greatest  *)
(* offset is.  Adding and subtracting stay at that offset, so the proof    *)
(* needs that nothing is added to it or taken from it.                     *)
(***************************************************************************)
EXTENDS DisjunctiveIntervalMap, WellFoundedInduction, TLAPS

(* Entries have a value: mapped offsets are those with values.             *)
NonEmpty == \A j \in mapping : j.vals # {}

(* No entry sticks out of I to the right.                                  *)
InsideRight == \A j \in mapping : I.start <= j.start /\ j.start <= I.end => j.end <= I.end

(* No entry begins before the rest of I and reaches into it.               *)
InsideLeft == \A j \in mapping : j.start < rest => j.end < rest

(* Where the loop of _add is.                                              *)
Walk ==
  /\ pc \in {"right", "left"} => rest = I.start
  /\ pc = "left" => InsideRight
  /\ pc = "fill" => /\ I.start <= rest /\ rest <= I.end
                    /\ InsideRight
                    /\ InsideLeft

(* An entry at the unknown offset alone is the rest of one that was split, *)
(* whose other part ends in front of it: there is never a gap between.     *)
EndsBeforeMAX(m) == \E k \in m : k.start < MAX /\ k.end + 1 = MAX
NoGapBeforeMAX(m) == (\E j \in m : j.start = MAX) => EndsBeforeMAX(m)

Edge ==
  /\ pc # "idle" => I.start < MAX
  /\ NoGapBeforeMAX(mapping)
  /\ pc = "fill" /\ rest = MAX => EndsBeforeMAX(mapping)

IInv == TypeOK /\ Disjoint /\ NonEmpty /\ Walk /\ Edge

(* In front of the unknown offset the code's arithmetic is the usual one.  *)
LEMMA Arithmetic ==
  ASSUME NEW o \in Offset
  PROVE  /\ o < MAX => PlusOne(o) = o + 1 /\ PlusOne(o) \in Offset
         /\ 0 < o /\ o < MAX => MinusOne(o) = o - 1 /\ MinusOne(o) \in Offset
BY OffsetAssumption DEF Offset, PlusOne, MinusOne

-----------------------------------------------------------------------------
(* An entry and its two parts.                                             *)
LEMMA SplitParts ==
  ASSUME NEW j \in Entry, NEW w \in Offset, w + 1 \in Offset
  PROVE  /\ [j EXCEPT !.end = w] \in Entry
         /\ [j EXCEPT !.end = w].start = j.start
         /\ [j EXCEPT !.end = w].end = w
         /\ [j EXCEPT !.end = w].vals = j.vals
         /\ [j EXCEPT !.start = w + 1] \in Entry
         /\ [j EXCEPT !.start = w + 1].start = w + 1
         /\ [j EXCEPT !.start = w + 1].end = j.end
         /\ [j EXCEPT !.start = w + 1].vals = j.vals
BY DEF Entry

(* Splitting an entry keeps intervals disjoint and every offset's values.  *)
LEMMA SplitKeeps ==
  ASSUME NEW m, m \subseteq Entry, AreDisjoint(m), \A k \in m : k.vals # {},
         NEW j \in m, NEW w \in Offset, j.start <= w, w < j.end
  PROVE  /\ Split(m, j, w) \subseteq Entry
         /\ AreDisjoint(Split(m, j, w))
         /\ \A k \in Split(m, j, w) : k.vals # {}
         /\ \A o \in Offset : ValuesAt(Split(m, j, w), o) = ValuesAt(m, o)
         /\ NoGapBeforeMAX(m) => NoGapBeforeMAX(Split(m, j, w))
<1> DEFINE lo == [j EXCEPT !.end = w]
           hi == [j EXCEPT !.start = w + 1]
<1>0. w + 1 \in Offset /\ PlusOne(w) = w + 1
  BY Arithmetic, OffsetAssumption DEF Offset, Entry
<1>1. /\ lo \in Entry /\ lo.start = j.start /\ lo.end = w /\ lo.vals = j.vals
      /\ hi \in Entry /\ hi.start = w + 1 /\ hi.end = j.end /\ hi.vals = j.vals
  BY <1>0, SplitParts
<1>2. Split(m, j, w) = (m \ {j}) \cup {lo, hi}
  BY <1>0 DEF Split
<1> HIDE DEF lo, hi
<1>3. Split(m, j, w) \subseteq Entry
  BY <1>1, <1>2
<1>4. \A k \in Split(m, j, w) : k.vals # {}
  BY <1>1, <1>2
<1>5. AreDisjoint(Split(m, j, w))
  <2>1. \A k \in Split(m, j, w) : k.start <= k.end
    BY <1>1, <1>2, OffsetAssumption DEF AreDisjoint, Entry, Offset
  <2>2. ASSUME NEW k \in Split(m, j, w), NEW l \in Split(m, j, w), k # l
        PROVE  k.end < l.start \/ l.end < k.start
    <3>1. \A x \in m : x.start \in Nat /\ x.end \in Nat
      BY OffsetAssumption DEF Entry, Offset
    <3>2. CASE k \in m \ {j} /\ l \in m \ {j}
      BY <2>2, <3>2 DEF AreDisjoint
    <3>3. CASE k \in m \ {j} /\ l \in {lo, hi}
      BY <3>1, <3>3, <1>1, OffsetAssumption DEF AreDisjoint, Offset
    <3>4. CASE k \in {lo, hi} /\ l \in m \ {j}
      BY <3>1, <3>4, <1>1, OffsetAssumption DEF AreDisjoint, Offset
    <3>5. CASE k \in {lo, hi} /\ l \in {lo, hi}
      BY <2>2, <3>1, <3>5, <1>1, OffsetAssumption DEF Offset
    <3> QED
      BY <1>2, <2>2, <3>2, <3>3, <3>4, <3>5
  <2> QED
    BY <2>1, <2>2 DEF AreDisjoint
<1>6. ASSUME NEW o \in Offset
      PROVE  ValuesAt(Split(m, j, w), o) = ValuesAt(m, o)
  <2>1. (j.start <= o /\ o <= j.end) <=>
          \/ lo.start <= o /\ o <= lo.end
          \/ hi.start <= o /\ o <= hi.end
    BY <1>1, OffsetAssumption DEF Entry, Offset
  <2>2. ASSUME NEW v PROVE v \in ValuesAt(m, o) <=> v \in ValuesAt(Split(m, j, w), o)
    BY <1>1, <1>2, <2>1 DEF ValuesAt
  <2> QED
    BY <2>2
<1>7. ASSUME NoGapBeforeMAX(m), NEW k \in Split(m, j, w), k.start = MAX
      PROVE  EndsBeforeMAX(Split(m, j, w))
  <2>1. j.start < MAX /\ lo.start < MAX /\ j.end \in Nat
    BY <1>1, OffsetAssumption DEF Entry, Offset
  <2>2. CASE k = hi
    <3>1. lo.end + 1 = MAX
      BY <1>1, <1>7, <2>2
    <3> QED
      BY <1>2, <2>1, <3>1 DEF EndsBeforeMAX
  <2>3. CASE k # hi
    <3>1. k \in m
      BY <1>2, <1>7, <2>1, <2>3, OffsetAssumption
    <3>2. PICK l \in m : l.start < MAX /\ l.end + 1 = MAX
      BY <1>7, <3>1 DEF NoGapBeforeMAX, EndsBeforeMAX
    <3>3. CASE l = j
      <4>1. hi.start < MAX /\ hi.end + 1 = MAX
        BY <1>1, <2>1, <3>2, <3>3, OffsetAssumption DEF Offset
      <4> QED
        BY <1>2, <4>1 DEF EndsBeforeMAX
    <3>4. CASE l # j
      BY <1>2, <3>2, <3>4 DEF EndsBeforeMAX
    <3> QED
      BY <3>3, <3>4
  <2> QED
    BY <2>2, <2>3
<1> QED
  BY <1>3, <1>4, <1>5, <1>6, <1>7 DEF NoGapBeforeMAX

LEMMA Numbers ==
  ASSUME IInv
  PROVE  /\ MAX \in Nat
         /\ I.start \in Nat /\ I.end \in Nat /\ I.start <= I.end /\ I.end <= MAX
         /\ rest \in Nat /\ rest <= MAX
         /\ \A j \in mapping : /\ j \in Entry
                               /\ j.start \in Nat /\ j.end \in Nat
                               /\ j.start <= j.end /\ j.end <= MAX
BY OffsetAssumption DEF IInv, TypeOK, Disjoint, AreDisjoint, Entry, Interval, Offset

(* After the entry that begins before I was split, nothing sticks out of I *)
(* on either side.                                                         *)
LEMMA AroundKeeps ==
  ASSUME IInv, InsideRight, pc # "idle",
         NEW j \in mapping, j.start < I.start, I.start <= j.end,
         NEW m, m = SplitAround(mapping, j)
  PROVE  /\ m \subseteq Entry
         /\ AreDisjoint(m)
         /\ \A k \in m : k.vals # {}
         /\ \A o \in Offset : ValuesAt(m, o) = ValuesAt(mapping, o)
         /\ \A k \in m : k.start < I.start => k.end < I.start
         /\ \A k \in m : I.start <= k.start /\ k.start <= I.end => k.end <= I.end
         /\ NoGapBeforeMAX(m)
<1> DEFINE w  == MinusOne(I.start)
           lo == [j EXCEPT !.end = w]
           hi == [j EXCEPT !.start = w + 1]
           m1 == Split(mapping, j, w)
<1>1. /\ w \in Nat /\ w + 1 = I.start /\ w \in Offset /\ w + 1 \in Offset
      /\ j.start <= w /\ w < j.end /\ PlusOne(w) = w + 1
  <2>1. I.start \in Offset /\ 0 < I.start /\ I.start < MAX
    BY Numbers DEF Offset, IInv, Edge
  <2>2. w = I.start - 1
    BY <2>1, Arithmetic
  <2>3. /\ w \in Nat /\ w + 1 = I.start /\ w \in Offset /\ w < MAX
        /\ j.start <= w /\ w < j.end
    BY <2>1, <2>2, Numbers DEF Offset
  <2>4. PlusOne(w) = w + 1
    BY <2>3, Arithmetic
  <2> QED
    BY <2>1, <2>3, <2>4
<1>2. /\ mapping \subseteq Entry /\ AreDisjoint(mapping)
      /\ \A k \in mapping : k.vals # {}
      /\ NoGapBeforeMAX(mapping)
  BY DEF IInv, TypeOK, Disjoint, NonEmpty, Edge
<1>3. /\ m1 \subseteq Entry
      /\ AreDisjoint(m1)
      /\ \A k \in m1 : k.vals # {}
      /\ \A o \in Offset : ValuesAt(m1, o) = ValuesAt(mapping, o)
      /\ NoGapBeforeMAX(m1)
  BY <1>1, <1>2, SplitKeeps
<1>4. /\ lo \in Entry /\ lo.start = j.start /\ lo.end = w
      /\ hi \in Entry /\ hi.start = I.start /\ hi.end = j.end /\ hi.vals = j.vals
  BY <1>1, <1>2, SplitParts
<1>5. m1 = (mapping \ {j}) \cup {lo, hi}
  BY <1>1 DEF Split
<1>6. [j EXCEPT !.start = I.start] = hi
  BY <1>1
<1>7. m = IF j.end > I.end THEN Split(m1, hi, I.end) ELSE m1
  BY <1>6 DEF SplitAround
<1> HIDE DEF lo, hi, m1, w
<1>8. \A k \in mapping \ {j} : k.end < j.start \/ j.end < k.start
  BY <1>2 DEF AreDisjoint
<1>9. CASE j.end <= I.end
  <2>1. m = m1
    BY <1>7, <1>9, Numbers
  <2>2. \A k \in m1 : k.start < I.start => k.end < I.start
    BY <1>1, <1>4, <1>5, <1>8, Numbers
  <2>3. \A k \in m1 : I.start <= k.start /\ k.start <= I.end => k.end <= I.end
    BY <1>1, <1>4, <1>5, <1>9, Numbers DEF InsideRight
  <2> QED
    BY <1>3, <2>1, <2>2, <2>3
<1>10. CASE j.end > I.end
  <2> DEFINE l2 == [hi EXCEPT !.end = I.end]
             h2 == [hi EXCEPT !.start = I.end + 1]
  <2>1. /\ I.end \in Offset /\ I.end + 1 \in Offset /\ hi \in m1
        /\ hi.start <= I.end /\ I.end < hi.end /\ PlusOne(I.end) = I.end + 1
    BY <1>4, <1>5, <1>10, Numbers, Arithmetic DEF Offset
  <2>2. m = Split(m1, hi, I.end)
    BY <1>7, <1>10
  <2>3. /\ m \subseteq Entry
        /\ AreDisjoint(m)
        /\ \A k \in m : k.vals # {}
        /\ \A o \in Offset : ValuesAt(m, o) = ValuesAt(m1, o)
        /\ NoGapBeforeMAX(m)
    BY <1>3, <2>1, <2>2, SplitKeeps
  <2>4. /\ l2.start = I.start /\ l2.end = I.end
        /\ h2.start = I.end + 1
    BY <1>4, <2>1, SplitParts
  <2>5. m = (m1 \ {hi}) \cup {l2, h2}
    BY <2>1, <2>2 DEF Split
  <2> HIDE DEF l2, h2
  <2>6. \A k \in m : k.start < I.start => k.end < I.start
    BY <1>1, <1>4, <1>5, <1>8, <2>4, <2>5, Numbers
  <2>7. \A k \in m : I.start <= k.start /\ k.start <= I.end => k.end <= I.end
    BY <1>1, <1>4, <1>5, <1>8, <1>10, <2>4, <2>5, Numbers
  <2> QED
    BY <1>3, <2>3, <2>6, <2>7
<1> QED
  BY <1>9, <1>10, Numbers

-----------------------------------------------------------------------------
LEMMA InitIInv == Init => IInv
<1> SUFFICES ASSUME Init PROVE IInv
  OBVIOUS
<1>1. I \in Interval /\ rest \in Offset
  BY OffsetAssumption DEF Init, Nowhere, Interval, Offset
<1>2. TypeOK
  BY <1>1 DEF Init, TypeOK
<1> QED
  BY <1>2 DEF Init, IInv, Disjoint, AreDisjoint, NonEmpty, Walk, Edge, NoGapBeforeMAX

LEMMA NewEntryFacts ==
  ASSUME NEW s \in Offset, NEW e \in Offset, NEW v \in Values
  PROVE  /\ NewEntry(s, e, v) \in Entry
         /\ NewEntry(s, e, v).start = s
         /\ NewEntry(s, e, v).end = e
         /\ NewEntry(s, e, v).vals = {v}
BY DEF NewEntry, Entry

LEMMA AddToEmptyIInv ==
  ASSUME IInv, NEW J \in Argument, NEW v \in Values, NEW u \in BOOLEAN,
         AddToEmpty(J, v, u)
  PROVE  IInv'
<1>1. /\ J.start \in Offset /\ J.end \in Offset /\ J.start <= J.end
      /\ J.start # MAX
  BY DEF Argument, Interval
<1>2. mapping' = {NewEntry(J.start, J.end, v)}
  BY DEF AddToEmpty
<1>3. Disjoint' /\ NonEmpty' /\ mapping' \subseteq Entry
  BY <1>1, <1>2, NewEntryFacts DEF Disjoint, AreDisjoint, NonEmpty
<1>4. Edge'
  BY <1>1, <1>2, NewEntryFacts DEF AddToEmpty, Edge, NoGapBeforeMAX
<1> QED
  BY <1>3, <1>4 DEF IInv, TypeOK, Walk, AddToEmpty

LEMMA AddIInv ==
  ASSUME IInv, NEW J \in Argument, NEW v \in Values, NEW u \in BOOLEAN,
         Add(J, v, u)
  PROVE  IInv'
<1>1. J.start < MAX
  BY OffsetAssumption DEF Argument, Interval, Offset
<1>2. Edge'
  BY <1>1 DEF IInv, Edge, NoGapBeforeMAX, EndsBeforeMAX, Add
<1> QED
  BY <1>2 DEF IInv, TypeOK, Walk, Add, Argument, Interval, Disjoint, NonEmpty

(* Entries with one more value.                                            *)
LEMMA WithValue ==
  ASSUME NEW j \in Entry, NEW S \in SUBSET Values
  PROVE  /\ [j EXCEPT !.vals = S] \in Entry
         /\ [j EXCEPT !.vals = S].start = j.start
         /\ [j EXCEPT !.vals = S].end = j.end
         /\ [j EXCEPT !.vals = S].vals = S
BY DEF Entry

LEMMA ExtendedFacts ==
  ASSUME IInv, NEW v \in Values, NEW j \in mapping
  PROVE  /\ Extended(j, v) \in Entry
         /\ Extended(j, v).start = j.start
         /\ Extended(j, v).end = j.end
         /\ Extended(j, v).vals = j.vals \cup {v}
<1>1. j \in Entry /\ j.vals \cup {v} \in SUBSET Values
  BY DEF IInv, TypeOK, Entry
<1> QED
  BY <1>1, WithValue DEF Extended

LEMMA AddAllIInv ==
  ASSUME IInv, NEW v \in Values, AddAll(v)
  PROVE  IInv'
<1>0. mapping' = {Extended(j, v) : j \in mapping}
  BY DEF AddAll
<1>1. mapping' \subseteq Entry /\ NonEmpty'
  BY <1>0, ExtendedFacts DEF NonEmpty
<1>2. Disjoint'
  <2>1. \A k \in mapping' : k.start <= k.end
    BY <1>0, ExtendedFacts DEF IInv, Disjoint, AreDisjoint
  <2>2. ASSUME NEW k \in mapping', NEW l \in mapping', k # l
        PROVE  k.end < l.start \/ l.end < k.start
    BY <1>0, <2>2, ExtendedFacts DEF IInv, Disjoint, AreDisjoint
  <2> QED
    BY <2>1, <2>2 DEF Disjoint, AreDisjoint
<1>3. Edge'
  BY <1>0, ExtendedFacts DEF IInv, Edge, NoGapBeforeMAX, EndsBeforeMAX, AddAll
<1> QED
  BY <1>1, <1>2, <1>3 DEF IInv, TypeOK, Walk, AddAll

-----------------------------------------------------------------------------
(* The steps that split entries change no offset's values.                 *)
SameValues == \A o \in Offset : ValuesAt(mapping', o) = ValuesAt(mapping, o)

LEMMA SplitLastEntryIInv ==
  ASSUME IInv, SplitLastEntry
  PROVE  IInv' /\ SameValues
<1>1. PICK last \in mapping :
        /\ IsLast(last, mapping)
        /\ mapping' = IF last.end >= I.start THEN SplitAround(mapping, last)
                                             ELSE mapping
  BY DEF SplitLastEntry
<1>2. \A k \in mapping : k.start < I.start
  BY Numbers DEF SplitLastEntry, From
<1>3. InsideRight
  BY <1>2, Numbers DEF InsideRight
<1>4. /\ rest = I.start /\ pc' = "fill" /\ UNCHANGED <<I, val, update, rest>>
      /\ pc # "idle" /\ I.start < MAX
  BY DEF SplitLastEntry, IInv, Walk, Edge
<1>5. /\ mapping' \subseteq Entry
      /\ AreDisjoint(mapping')
      /\ \A k \in mapping' : k.vals # {}
      /\ SameValues
      /\ \A k \in mapping' : k.start < I.start => k.end < I.start
      /\ \A k \in mapping' : I.start <= k.start /\ k.start <= I.end => k.end <= I.end
      /\ NoGapBeforeMAX(mapping')
  <2>1. CASE last.end >= I.start
    <3>1. last.start < I.start /\ I.start <= last.end
      BY <1>2, <2>1, Numbers
    <3>2. mapping' = SplitAround(mapping, last)
      BY <1>1, <2>1
    <3> QED
      BY <1>3, <1>4, <3>1, <3>2, AroundKeeps DEF SameValues
  <2>2. CASE ~(last.end >= I.start)
    <3>1. \A k \in mapping : k.end < I.start
      BY <1>1, <2>2, Numbers DEF IsLast, IInv, Disjoint, AreDisjoint
    <3> QED
      BY <1>1, <1>2, <2>2, <3>1, Numbers
      DEF IInv, TypeOK, Disjoint, NonEmpty, Edge, SameValues
  <2> QED
    BY <2>1, <2>2
<1>6. TypeOK'
  BY <1>4, <1>5 DEF IInv, TypeOK
<1>7. Walk'
  BY <1>4, <1>5, Numbers DEF Walk, InsideRight, InsideLeft
<1>8. Edge'
  BY <1>4, <1>5, Numbers DEF Edge
<1> QED
  BY <1>5, <1>6, <1>7, <1>8 DEF IInv, Disjoint, NonEmpty

LEMMA SplitRightIInv ==
  ASSUME IInv, SplitRight
  PROVE  IInv' /\ SameValues
<1>1. /\ rest = I.start /\ pc' = "left" /\ UNCHANGED <<I, val, update, rest>>
      /\ I.start < MAX
  BY DEF SplitRight, IInv, Walk, Edge
<1>2. /\ mapping' \subseteq Entry
      /\ AreDisjoint(mapping')
      /\ \A k \in mapping' : k.vals # {}
      /\ SameValues
      /\ \A k \in mapping' : I.start <= k.start /\ k.start <= I.end => k.end <= I.end
      /\ NoGapBeforeMAX(mapping')
  <2>1. CASE Hanging = {} /\ UNCHANGED mapping
    BY <2>1, Numbers
    DEF Hanging, From, IInv, TypeOK, Disjoint, NonEmpty, Edge, SameValues
  <2>2. ASSUME NEW j \in Hanging, mapping' = Split(mapping, j, I.end)
        PROVE  <1>2!:
    <3> DEFINE lo == [j EXCEPT !.end = I.end]
               hi == [j EXCEPT !.start = I.end + 1]
    <3>1. /\ j \in mapping /\ I.start <= j.start /\ j.start <= I.end /\ I.end < j.end
          /\ I.end \in Offset /\ I.end + 1 \in Offset /\ PlusOne(I.end) = I.end + 1
      BY Numbers, Arithmetic DEF Hanging, From, Offset
    <3>2. /\ mapping' \subseteq Entry
          /\ AreDisjoint(mapping')
          /\ \A k \in mapping' : k.vals # {}
          /\ SameValues
          /\ NoGapBeforeMAX(mapping')
      BY <2>2, <3>1, SplitKeeps
      DEF IInv, TypeOK, Disjoint, NonEmpty, Edge, SameValues
    <3>3. lo.end = I.end /\ hi.start = I.end + 1
      BY <3>1, Numbers, SplitParts
    <3>4. mapping' = (mapping \ {j}) \cup {lo, hi}
      BY <2>2, <3>1 DEF Split
    <3> HIDE DEF lo, hi
    <3>5. \A k \in mapping \ {j} : k.end < j.start \/ j.end < k.start
      BY <3>1 DEF IInv, Disjoint, AreDisjoint
    <3>6. \A k \in mapping' : I.start <= k.start /\ k.start <= I.end => k.end <= I.end
      BY <3>1, <3>3, <3>4, <3>5, Numbers
    <3> QED
      BY <3>2, <3>6
  <2> QED
    BY <2>1, <2>2 DEF SplitRight
<1>3. TypeOK'
  BY <1>1, <1>2 DEF IInv, TypeOK
<1>4. Walk'
  BY <1>1, <1>2 DEF Walk, InsideRight
<1>5. Edge'
  BY <1>1, <1>2 DEF Edge
<1> QED
  BY <1>2, <1>3, <1>4, <1>5 DEF IInv, Disjoint, NonEmpty

LEMMA SplitLeftIInv ==
  ASSUME IInv, SplitLeft
  PROVE  IInv' /\ SameValues
<1>1. /\ rest = I.start /\ pc' = "fill" /\ UNCHANGED <<I, val, update, rest>>
      /\ pc # "idle" /\ I.start < MAX
  BY DEF SplitLeft, IInv, Walk, Edge
<1>2. InsideRight
  BY DEF SplitLeft, IInv, Walk
<1>3. /\ mapping' \subseteq Entry
      /\ AreDisjoint(mapping')
      /\ \A k \in mapping' : k.vals # {}
      /\ SameValues
      /\ \A k \in mapping' : k.start < I.start => k.end < I.start
      /\ \A k \in mapping' : I.start <= k.start /\ k.start <= I.end => k.end <= I.end
      /\ NoGapBeforeMAX(mapping')
  <2>1. CASE Before(I.start) = {} /\ UNCHANGED mapping
    BY <1>2, <2>1, Numbers
    DEF Before, InsideRight, IInv, TypeOK, Disjoint, NonEmpty, Edge, SameValues
  <2>2. ASSUME NEW prev \in mapping, IsLast(prev, Before(I.start)),
               mapping' = IF prev.end >= I.start THEN SplitAround(mapping, prev)
                                                 ELSE mapping
        PROVE  <1>3!:
    <3>1. prev.start < I.start
      BY <2>2 DEF IsLast, Before
    <3>2. CASE prev.end >= I.start
      <4>1. I.start <= prev.end /\ mapping' = SplitAround(mapping, prev)
        BY <2>2, <3>2, Numbers
      <4> QED
        BY <1>1, <1>2, <3>1, <4>1, AroundKeeps DEF SameValues
    <3>3. CASE ~(prev.end >= I.start)
      <4>1. \A k \in mapping : k.start < I.start => k.end < I.start
        BY <2>2, <3>3, Numbers DEF IsLast, Before, IInv, Disjoint, AreDisjoint
      <4> QED
        BY <1>2, <2>2, <3>3, <4>1
        DEF InsideRight, IInv, TypeOK, Disjoint, NonEmpty, Edge, SameValues
    <3> QED
      BY <3>2, <3>3
  <2> QED
    BY <2>1, <2>2 DEF SplitLeft
<1>4. TypeOK'
  BY <1>1, <1>3 DEF IInv, TypeOK
<1>5. Walk'
  BY <1>1, <1>3, Numbers DEF Walk, InsideRight, InsideLeft
<1>6. Edge'
  BY <1>1, <1>3, Numbers DEF Edge
<1> QED
  BY <1>3, <1>4, <1>5, <1>6 DEF IInv, Disjoint, NonEmpty

-----------------------------------------------------------------------------
Covers(j, o) == j.start <= o /\ o <= j.end

(* The values of an offset are those of the entry that covers it.          *)
LEMMA ValuesOfEntry ==
  ASSUME NEW m, m \subseteq Entry, AreDisjoint(m), NEW j \in m, NEW o \in Offset,
         Covers(j, o)
  PROVE  ValuesAt(m, o) = j.vals
<1>1. \A k \in m : k.start \in Nat /\ k.end \in Nat
  BY OffsetAssumption DEF Entry, Offset
<1>2. {k \in m : k.start <= o /\ o <= k.end} = {j}
  BY <1>1, OffsetAssumption DEF AreDisjoint, Covers, Offset
<1> QED
  BY <1>2 DEF ValuesAt

LEMMA ValuesOfGap ==
  ASSUME NEW m, NEW o \in Offset, \A k \in m : ~Covers(k, o)
  PROVE  ValuesAt(m, o) = {}
<1>1. {k \in m : k.start <= o /\ o <= k.end} = {}
  BY DEF Covers
<1> QED
  BY <1>1 DEF ValuesAt

LEMMA ValuesBeside ==
  ASSUME NEW m, NEW o \in Offset, NEW b, ~Covers(b, o)
  PROVE  ValuesAt(m \cup {b}, o) = ValuesAt(m, o)
<1>1. {k \in m \cup {b} : k.start <= o /\ o <= k.end}
        = {k \in m : k.start <= o /\ o <= k.end}
  BY DEF Covers
<1> QED
  BY <1>1 DEF ValuesAt

LEMMA ValuesElsewhere ==
  ASSUME NEW m, NEW o \in Offset, NEW a, NEW b, ~Covers(a, o), ~Covers(b, o)
  PROVE  ValuesAt((m \ {a}) \cup {b}, o) = ValuesAt(m, o)
<1>1. {k \in (m \ {a}) \cup {b} : k.start <= o /\ o <= k.end}
        = {k \in m : k.start <= o /\ o <= k.end}
  BY DEF Covers
<1> QED
  BY <1>1 DEF ValuesAt

LEMMA ContentFacts ==
  /\ Content = [o \in Offset |-> Content[o]]
  /\ \A o \in Offset : ~Pending(o) => Content[o] = At(o)
  /\ \A o \in Offset : Pending(o) /\ update => Content[o] = {val}
  /\ \A o \in Offset : Pending(o) /\ ~update => Content[o] = At(o) \cup {val}
BY DEF Content

LEMMA ContentFactsNext ==
  /\ Content' = [o \in Offset |-> Content'[o]]
  /\ \A o \in Offset : ~Pending(o)' => Content'[o] = At(o)'
  /\ \A o \in Offset : Pending(o)' /\ update' => Content'[o] = {val'}
  /\ \A o \in Offset : Pending(o)' /\ ~update' => Content'[o] = At(o)' \cup {val'}
BY DEF Content

-----------------------------------------------------------------------------
(* What a step of the loop does to the map it did promise already.         *)
LEMMA FillRestIInv ==
  ASSUME IInv, FillRest
  PROVE  IInv' /\ UNCHANGED Content
<1> DEFINE e == NewEntry(rest, I.end, val)
<1>1. /\ I.start <= rest /\ rest <= I.end /\ InsideRight /\ InsideLeft
      /\ pc = "fill"
  BY DEF FillRest, IInv, Walk
<1>2. /\ e \in Entry /\ e.start = rest /\ e.end = I.end /\ e.vals = {val}
  BY NewEntryFacts DEF IInv, TypeOK, Interval
<1>3. mapping' = mapping \cup {e}
  BY DEF FillRest
<1> HIDE DEF e
<1>4. \A k \in mapping : k.end < rest \/ I.end < k.start
  BY <1>1, Numbers DEF FillRest, From, InsideLeft
<1>5. mapping' \subseteq Entry /\ NonEmpty'
  BY <1>2, <1>3 DEF IInv, TypeOK, NonEmpty
<1>6. Disjoint'
  BY <1>1, <1>2, <1>3, <1>4 DEF IInv, Disjoint, AreDisjoint
<1>7. /\ pc' = "idle" /\ I' = Nowhere /\ update' = FALSE /\ rest' = 0 /\ val' = val
  BY DEF FillRest, Return
<1>8. I' \in Interval /\ rest' \in Offset
  BY <1>7, OffsetAssumption DEF Nowhere, Interval, Offset
<1>9. IInv'
  <2>1. TypeOK'
    BY <1>5, <1>7, <1>8 DEF IInv, TypeOK
  <2>2. EndsBeforeMAX(mapping) => EndsBeforeMAX(mapping')
    BY <1>3 DEF EndsBeforeMAX
  <2>3. Edge'
    BY <1>1, <1>2, <1>3, <1>7, <2>2 DEF IInv, Edge, NoGapBeforeMAX
  <2> QED
    BY <1>5, <1>6, <1>7, <2>1, <2>3 DEF IInv, Walk
<1>10. ASSUME NEW o \in Offset PROVE Content'[o] = Content[o]
  <2>1. o \in Nat /\ ~Pending(o)'
    BY <1>7, OffsetAssumption DEF Pending, Offset
  <2>2. Content'[o] = ValuesAt(mapping', o)
    BY <2>1, ContentFactsNext DEF At
  <2>3. CASE Pending(o)
    <3>1. Covers(e, o) /\ \A k \in mapping : ~Covers(k, o)
      BY <1>2, <1>4, <2>1, <2>3, Numbers DEF Pending, Covers
    <3>2. ValuesAt(mapping', o) = {val}
      BY <1>2, <1>3, <1>5, <1>6, <3>1, ValuesOfEntry DEF Disjoint
    <3>3. At(o) = {}
      BY <3>1, ValuesOfGap DEF At
    <3>4. Content[o] = {val}
      BY <2>3, <3>3, ContentFacts
    <3> QED
      BY <2>2, <3>2, <3>4
  <2>4. CASE ~Pending(o)
    <3>1. ~Covers(e, o)
      BY <1>1, <1>2, <2>1, <2>4, Numbers DEF Pending, Covers
    <3>2. ValuesAt(mapping', o) = ValuesAt(mapping, o)
      BY <1>3, <3>1, ValuesBeside
    <3> QED
      BY <2>2, <2>4, <3>2, ContentFacts DEF At
  <2> QED
    BY <2>3, <2>4
<1> QED
  BY <1>9, <1>10, ContentFacts, ContentFactsNext

LEMMA FillGapIInv ==
  ASSUME IInv, FillGap
  PROVE  IInv' /\ UNCHANGED Content
<1>1. /\ I.start <= rest /\ rest <= I.end /\ InsideRight /\ InsideLeft
      /\ pc = "fill" /\ UNCHANGED <<pc, I, val, update>>
  BY DEF FillGap, IInv, Walk
<1>2. PICK it \in mapping :
        /\ IsFirst(it, From(rest))
        /\ it.start <= I.end /\ rest < it.start
        /\ mapping' = mapping \cup {NewEntry(rest, MinusOne(it.start), val)}
        /\ rest' = it.start
  BY DEF FillGap
<1> DEFINE e == NewEntry(rest, MinusOne(it.start), val)
<1>3. /\ it.start \in Offset /\ 0 < it.start /\ it.start < MAX
      /\ MinusOne(it.start) = it.start - 1 /\ MinusOne(it.start) \in Offset
  <2>1. it.start \in Offset /\ 0 < it.start
    BY <1>2, Numbers DEF Offset
  <2>2. it.start # MAX
    <3>1. SUFFICES ASSUME it.start = MAX PROVE FALSE
      OBVIOUS
    <3>2. PICK k \in mapping : k.start < MAX /\ k.end + 1 = MAX
      BY <3>1 DEF IInv, Edge, NoGapBeforeMAX, EndsBeforeMAX
    <3>3. CASE k.start < rest
      BY <1>1, <1>2, <3>1, <3>2, <3>3, Numbers DEF InsideLeft
    <3>4. CASE k.start >= rest
      BY <1>2, <3>1, <3>2, <3>4, Numbers DEF IsFirst, From
    <3> QED
      BY <3>2, <3>3, <3>4, Numbers
  <2>3. it.start < MAX
    BY <2>1, <2>2, OffsetAssumption DEF Offset
  <2> QED
    BY <2>1, <2>3, Arithmetic
<1>4. /\ e \in Entry /\ e.start = rest /\ e.end = it.start - 1 /\ e.vals = {val}
  BY <1>3, NewEntryFacts DEF IInv, TypeOK
<1>5. mapping' = mapping \cup {e}
  BY <1>2
<1> HIDE DEF e
<1>6. \A k \in mapping : k.end < rest \/ it.start <= k.start
  BY <1>1, <1>2, Numbers DEF IsFirst, From, InsideLeft
<1>7. mapping' \subseteq Entry /\ NonEmpty'
  BY <1>4, <1>5 DEF IInv, TypeOK, NonEmpty
<1>8. Disjoint'
  BY <1>1, <1>2, <1>4, <1>5, <1>6, Numbers DEF IInv, Disjoint, AreDisjoint
<1>9. InsideRight' /\ InsideLeft'
  BY <1>1, <1>2, <1>4, <1>5, <1>6, Numbers DEF InsideRight, InsideLeft
<1>10. IInv'
  <2>1. TypeOK'
    BY <1>1, <1>2, <1>3, <1>7 DEF IInv, TypeOK
  <2>2. Walk'
    BY <1>1, <1>2, <1>9, Numbers DEF Walk
  <2>3. EndsBeforeMAX(mapping) => EndsBeforeMAX(mapping')
    BY <1>5 DEF EndsBeforeMAX
  <2>4. e.start # MAX /\ rest' # MAX
    BY <1>2, <1>3, <1>4, Numbers
  <2>5. Edge'
    BY <1>1, <1>5, <2>3, <2>4 DEF IInv, Edge, NoGapBeforeMAX
  <2> QED
    BY <1>7, <1>8, <2>1, <2>2, <2>5 DEF IInv
<1>11. ASSUME NEW o \in Offset PROVE Content'[o] = Content[o]
  <2>1. o \in Nat
    BY OffsetAssumption DEF Offset
  <2>2. CASE Covers(e, o)
    <3>1. Pending(o) /\ ~Pending(o)' /\ \A k \in mapping : ~Covers(k, o)
      BY <1>1, <1>2, <1>4, <1>6, <2>1, <2>2, Numbers DEF Pending, Covers
    <3>2. At(o)' = {val}
      BY <1>4, <1>5, <1>7, <1>8, <2>2, ValuesOfEntry DEF Disjoint, At
    <3>3. At(o) = {}
      BY <3>1, ValuesOfGap DEF At
    <3>4. Content[o] = {val}
      BY <3>1, <3>3, ContentFacts
    <3> QED
      BY <3>1, <3>2, <3>4, ContentFactsNext
  <2>3. CASE ~Covers(e, o)
    <3>3. At(o)' = At(o)
      BY <1>5, <2>3, ValuesBeside DEF At
    <3>4. Pending(o)' <=> Pending(o)
      BY <1>1, <1>2, <1>4, <2>1, <2>3, Numbers DEF Pending, Covers
    <3> QED
      BY <1>1, <3>3, <3>4, ContentFacts, ContentFactsNext
  <2> QED
    BY <2>2, <2>3
<1> QED
  BY <1>10, <1>11, ContentFacts, ContentFactsNext

LEMMA AddValueIInv ==
  ASSUME IInv, AddValue
  PROVE  IInv' /\ UNCHANGED Content
<1>1. /\ I.start <= rest /\ rest <= I.end /\ InsideRight /\ InsideLeft
      /\ pc = "fill"
  BY DEF AddValue, IInv, Walk
<1>2. PICK it \in mapping :
        /\ IsFirst(it, From(rest))
        /\ it.start <= I.end /\ rest = it.start
        /\ mapping' = (mapping \ {it}) \cup
             {IF update THEN [it EXCEPT !.vals = {val}] ELSE Extended(it, val)}
        /\ \/ it.end = I.end /\ Return
           \/ it.end # I.end /\ rest' = PlusOne(it.end) /\ UNCHANGED <<pc, I, val, update>>
  BY DEF AddValue
<1> DEFINE e == IF update THEN [it EXCEPT !.vals = {val}] ELSE Extended(it, val)
<1>3. it \in Entry /\ val \in Values /\ {val} \in SUBSET Values
  BY DEF IInv, TypeOK
<1>4. /\ e \in Entry /\ e.start = it.start /\ e.end = it.end
      /\ e.vals = IF update THEN {val} ELSE it.vals \cup {val}
  BY <1>3, WithValue, ExtendedFacts
<1>5. mapping' = (mapping \ {it}) \cup {e}
  BY <1>2
<1> HIDE DEF e
<1>6. it.end <= I.end
  BY <1>1, <1>2, Numbers DEF InsideRight
<1>7. mapping' \subseteq Entry /\ NonEmpty'
  BY <1>4, <1>5 DEF IInv, TypeOK, NonEmpty
<1>8. Disjoint'
  BY <1>4, <1>5 DEF IInv, Disjoint, AreDisjoint
<1>9. \A k \in mapping \ {it} : k.end < it.start \/ it.end < k.start
  BY DEF IInv, Disjoint, AreDisjoint
<1>10. val' = val
  BY <1>2 DEF Return
<1>11. EndsBeforeMAX(mapping) => EndsBeforeMAX(mapping')
  BY <1>4, <1>5 DEF EndsBeforeMAX
<1>12. NoGapBeforeMAX(mapping')
  BY <1>4, <1>5, <1>11 DEF IInv, Edge, NoGapBeforeMAX
<1>13. it.end # I.end => PlusOne(it.end) = it.end + 1
  BY <1>6, Numbers, Arithmetic DEF Offset
<1>14. IInv'
  <2>1. CASE it.end = I.end
    <3>1. pc' = "idle" /\ I' = Nowhere /\ update' = FALSE /\ rest' = 0
      BY <1>2, <2>1 DEF Return
    <3>2. I' \in Interval /\ rest' \in Offset
      BY <3>1, OffsetAssumption DEF Nowhere, Interval, Offset
    <3>3. TypeOK'
      BY <1>3, <1>7, <1>10, <3>1, <3>2 DEF TypeOK
    <3>4. Edge'
      BY <1>12, <3>1 DEF Edge
    <3> QED
      BY <1>7, <1>8, <3>1, <3>3, <3>4 DEF IInv, Walk
  <2>2. CASE it.end # I.end
    <3>1. rest' = it.end + 1 /\ UNCHANGED <<pc, I, val, update>>
      BY <1>2, <1>13, <2>2
    <3>2. rest' \in Offset /\ I.start <= rest' /\ rest' <= I.end
      BY <1>1, <1>2, <1>6, <2>2, <3>1, Numbers DEF Offset
    <3>3. TypeOK'
      BY <1>7, <3>1, <3>2 DEF IInv, TypeOK
    <3>4. InsideRight'
      BY <1>1, <1>4, <1>5, <1>6, <3>1, Numbers DEF InsideRight
    <3>5. InsideLeft'
      BY <1>1, <1>4, <1>5, <1>9, <3>1, Numbers DEF InsideLeft
    <3>6. Walk'
      BY <1>1, <3>1, <3>2, <3>4, <3>5 DEF Walk
    <3>7. rest' = MAX => EndsBeforeMAX(mapping')
      <4>1. rest' = MAX => e.start < MAX /\ e.end + 1 = MAX
        BY <1>2, <1>4, <3>1, Numbers
      <4> QED
        BY <1>5, <4>1 DEF EndsBeforeMAX
    <3>8. Edge'
      BY <1>1, <1>12, <3>1, <3>7 DEF IInv, Edge
    <3> QED
      BY <1>7, <1>8, <3>3, <3>6, <3>8 DEF IInv
  <2> QED
    BY <2>1, <2>2
<1>15. ASSUME NEW o \in Offset PROVE Content'[o] = Content[o]
  <2>1. o \in Nat
    BY OffsetAssumption DEF Offset
  <2>2. CASE Covers(e, o)
    <3>1. Pending(o)
      BY <1>1, <1>2, <1>4, <1>6, <2>1, <2>2, Numbers DEF Pending, Covers
    <3>2. ~Pending(o)'
      BY <1>2, <1>4, <1>13, <2>1, <2>2, Numbers DEF Pending, Covers, Return
    <3>3. At(o)' = e.vals
      BY <1>5, <1>7, <1>8, <2>2, ValuesOfEntry DEF Disjoint, At
    <3>4. At(o) = it.vals
      BY <1>4, <2>2, ValuesOfEntry DEF Disjoint, At, IInv, TypeOK, Covers
    <3>5. Content[o] = e.vals
      BY <1>4, <3>1, <3>4, ContentFacts
    <3> QED
      BY <3>2, <3>3, <3>5, ContentFactsNext
  <2>3. CASE ~Covers(e, o)
    <3>1. ~Covers(it, o)
      BY <1>4, <2>3 DEF Covers
    <3>2. At(o)' = At(o)
      BY <1>5, <2>3, <3>1, ValuesElsewhere DEF At
    <3>3. CASE it.end = I.end
      <4>1. ~Pending(o) /\ ~Pending(o)'
        BY <1>2, <2>1, <3>1, <3>3, Numbers DEF Pending, Covers, Return
      <4> QED
        BY <3>2, <4>1, ContentFacts, ContentFactsNext
    <3>4. CASE it.end # I.end
      <4>1. rest' = it.end + 1 /\ UNCHANGED <<pc, I, val, update>>
        BY <1>2, <1>13, <3>4
      <4>2. Pending(o)' <=> Pending(o)
        BY <1>2, <2>1, <3>1, <4>1, Numbers DEF Pending, Covers
      <4> QED
        BY <3>2, <4>1, <4>2, ContentFacts, ContentFactsNext
    <3> QED
      BY <3>3, <3>4
  <2> QED
    BY <2>2, <2>3
<1> QED
  BY <1>14, <1>15, ContentFacts, ContentFactsNext

-----------------------------------------------------------------------------
LEMMA SplitsKeepContent ==
  ASSUME IInv, SplitLastEntry \/ SplitRight \/ SplitLeft
  PROVE  IInv' /\ UNCHANGED Content
<1>1. IInv' /\ SameValues
  BY SplitLastEntryIInv, SplitRightIInv, SplitLeftIInv
<1>2. /\ UNCHANGED <<I, val, update, rest>> /\ pc # "idle" /\ pc' # "idle"
  BY DEF SplitLastEntry, SplitRight, SplitLeft
<1>3. \A o \in Offset : At(o)' = At(o)
  BY <1>1 DEF SameValues, At
<1>4. \A o \in Offset : Pending(o)' <=> Pending(o)
  BY <1>2 DEF Pending
<1>5. \A o \in Offset : Content'[o] = Content[o]
  BY <1>2, <1>3, <1>4, ContentFacts, ContentFactsNext
<1> QED
  BY <1>1, <1>5, ContentFacts, ContentFactsNext

LEMMA StepKeepsContent == ASSUME IInv, Step PROVE IInv' /\ UNCHANGED Content
BY SplitsKeepContent, FillRestIInv, FillGapIInv, AddValueIInv DEF Step

LEMMA NextIInv == IInv /\ [Next]_vars => IInv'
<1> SUFFICES ASSUME IInv, [Next]_vars PROVE IInv'
  OBVIOUS
<1>1. CASE Step
  BY <1>1, StepKeepsContent
<1>2. ASSUME NEW v \in Values, AddAll(v) PROVE IInv'
  BY <1>2, AddAllIInv
<1>3. ASSUME NEW J \in Argument, NEW v \in Values, NEW u \in BOOLEAN,
             AddToEmpty(J, v, u) \/ Add(J, v, u)
      PROVE  IInv'
  BY <1>3, AddToEmptyIInv, AddIInv
<1>4. CASE UNCHANGED vars
  BY <1>4 DEF vars, IInv, TypeOK, Disjoint, NonEmpty, Walk, InsideRight, InsideLeft,
              Edge, NoGapBeforeMAX, EndsBeforeMAX
<1> QED
  BY <1>1, <1>2, <1>3, <1>4 DEF Next

LEMMA Invariance == Spec => []IInv
<1>1. Init => IInv
  BY InitIInv
<1> QED
  BY <1>1, NextIInv, PTL DEF Spec

(* The intervals of the map are disjoint, as _check asserts, at every step *)
(* of every sequence of operations on intervals that begin at a known      *)
(* offset (Argument).                                                      *)
THEOREM DisjointCorrect == Spec => []Disjoint
<1>1. IInv => Disjoint
  BY DEF IInv
<1> QED
  BY <1>1, Invariance, PTL

-----------------------------------------------------------------------------
LEMMA InitRefines == Init => Promise!Init
<1> SUFFICES ASSUME Init PROVE Promise!Init
  OBVIOUS
<1>1. \A o \in Offset : ~Pending(o) /\ At(o) = {}
  BY ValuesOfGap DEF Init, Pending, At
<1>2. Content = [o \in Offset |-> {}]
  BY <1>1, ContentFacts
<1> QED
  BY <1>2 DEF Promise!Init, Promise!Offset, Offset

LEMMA AddToEmptyRefines ==
  ASSUME IInv, NEW J \in Argument, NEW v \in Values, NEW u \in BOOLEAN,
         AddToEmpty(J, v, u)
  PROVE  Promise!Add(J, v)
<1> DEFINE e == NewEntry(J.start, J.end, v)
<1>1. pc = "idle" /\ pc' = "idle" /\ mapping = {} /\ mapping' = {e}
  BY DEF AddToEmpty
<1>2. e.start = J.start /\ e.end = J.end /\ e.vals = {v}
  BY NewEntryFacts DEF Argument, Interval
<1> HIDE DEF e
<1>3. IInv'
  BY AddToEmptyIInv
<1>4. ASSUME NEW o \in Offset
      PROVE  Content'[o] = IF Promise!In(o, J) THEN Content[o] \cup {v} ELSE Content[o]
  <2>1. ~Pending(o) /\ ~Pending(o)'
    BY <1>1 DEF Pending
  <2>2. Content[o] = {}
    BY <1>1, <2>1, ContentFacts, ValuesOfGap DEF At
  <2>3. Content'[o] = ValuesAt(mapping', o)
    BY <2>1, ContentFactsNext DEF At
  <2>4. CASE Promise!In(o, J)
    <3>1. Covers(e, o)
      BY <1>2, <2>4 DEF Promise!In, Covers
    <3>2. ValuesAt(mapping', o) = {v}
      BY <1>1, <1>2, <1>3, <3>1, ValuesOfEntry DEF IInv, TypeOK, Disjoint
    <3> QED
      BY <2>2, <2>3, <2>4, <3>2
  <2>5. CASE ~Promise!In(o, J)
    <3>1. \A k \in mapping' : ~Covers(k, o)
      BY <1>1, <1>2, <2>5 DEF Promise!In, Covers
    <3> QED
      BY <2>2, <2>3, <2>5, <3>1, ValuesOfGap
  <2> QED
    BY <2>4, <2>5
<1> QED
  BY <1>4, ContentFactsNext DEF Promise!Add, Promise!Offset, Offset

LEMMA AddRefines ==
  ASSUME IInv, NEW J \in Argument, NEW v \in Values, NEW u \in BOOLEAN,
         Add(J, v, u)
  PROVE  Promise!Add(J, v) \/ Promise!Update(J, v)
<1>1. /\ pc = "idle" /\ pc' = "right" /\ mapping' = mapping
      /\ I' = J /\ val' = v /\ update' = u /\ rest' = J.start
  BY DEF Add
<1>2. ASSUME NEW o \in Offset
      PROVE  /\ Content[o] = At(o) /\ At(o)' = At(o)
             /\ Pending(o)' <=> Promise!In(o, J)
  <2>1. ~Pending(o)
    BY <1>1 DEF Pending
  <2> QED
    BY <1>1, <2>1, ContentFacts DEF Pending, At, Promise!In
<1>3. CASE u
  <2>1. \A o \in Offset :
          Content'[o] = IF Promise!In(o, J) THEN {v} ELSE Content[o]
    BY <1>1, <1>2, <1>3, ContentFactsNext
  <2> QED
    BY <2>1, ContentFactsNext DEF Promise!Update, Promise!Offset, Offset
<1>4. CASE ~u
  <2>1. \A o \in Offset :
          Content'[o] = IF Promise!In(o, J) THEN Content[o] \cup {v} ELSE Content[o]
    BY <1>1, <1>2, <1>4, ContentFactsNext
  <2> QED
    BY <2>1, ContentFactsNext DEF Promise!Add, Promise!Offset, Offset
<1> QED
  BY <1>3, <1>4

LEMMA AddAllRefines ==
  ASSUME IInv, NEW v \in Values, AddAll(v)
  PROVE  Promise!AddAll(v)
<1>1. pc = "idle" /\ pc' = "idle" /\ mapping' = {Extended(j, v) : j \in mapping}
  BY DEF AddAll
<1>2. IInv'
  BY AddAllIInv
<1>3. ASSUME NEW o \in Offset
      PROVE  Content'[o] = IF Content[o] = {} THEN {} ELSE Content[o] \cup {v}
  <2>1. ~Pending(o) /\ ~Pending(o)'
    BY <1>1 DEF Pending
  <2>2. Content[o] = ValuesAt(mapping, o) /\ Content'[o] = ValuesAt(mapping', o)
    BY <2>1, ContentFacts, ContentFactsNext DEF At
  <2>3. ASSUME NEW j \in mapping, Covers(j, o)
        PROVE  Content'[o] = IF Content[o] = {} THEN {} ELSE Content[o] \cup {v}
    <3>1. ValuesAt(mapping, o) = j.vals /\ j.vals # {}
      BY <2>3, ValuesOfEntry DEF IInv, TypeOK, Disjoint, NonEmpty
    <3>2. /\ Extended(j, v) \in mapping' /\ Covers(Extended(j, v), o)
          /\ Extended(j, v).vals = j.vals \cup {v}
      BY <1>1, <2>3, ExtendedFacts DEF Covers
    <3>3. ValuesAt(mapping', o) = j.vals \cup {v}
      BY <1>2, <3>2, ValuesOfEntry DEF IInv, TypeOK, Disjoint
    <3> QED
      BY <2>2, <3>1, <3>3
  <2>4. CASE \A j \in mapping : ~Covers(j, o)
    <3>1. \A k \in mapping' : ~Covers(k, o)
      BY <1>1, <2>4, ExtendedFacts DEF Covers
    <3>2. ValuesAt(mapping, o) = {} /\ ValuesAt(mapping', o) = {}
      BY <2>4, <3>1, ValuesOfGap
    <3> QED
      BY <2>2, <3>2
  <2> QED
    BY <2>3, <2>4
<1> QED
  BY <1>3, ContentFactsNext DEF Promise!AddAll, Promise!Offset, Offset

(* Every operation of the map is the operation on offsets that OffsetMap   *)
(* promises: for all intervals that begin at a known offset and all        *)
(* values, with any greatest offset.                                       *)
THEOREM Refinement == Spec => Refines
<1>1. Init => Promise!Init
  BY InitRefines
<1>2. IInv /\ [Next]_vars => [Promise!Next]_Content
  <2> SUFFICES ASSUME IInv, [Next]_vars PROVE Promise!Next \/ UNCHANGED Content
    OBVIOUS
  <2>1. CASE Step
    BY <2>1, StepKeepsContent
  <2>2. ASSUME NEW v \in Values, AddAll(v) PROVE Promise!Next
    BY <2>2, AddAllRefines DEF Promise!Next
  <2>3. ASSUME NEW J \in Argument, NEW v \in Values, NEW u \in BOOLEAN,
               AddToEmpty(J, v, u) \/ Add(J, v, u)
        PROVE  Promise!Next
    <3>1. J \in Promise!Interval
      BY DEF Argument, Interval, Promise!Interval, Offset, Promise!Offset
    <3>2. Promise!Add(J, v) \/ Promise!Update(J, v)
      BY <2>3, AddToEmptyRefines, AddRefines
    <3> QED
      BY <3>1, <3>2 DEF Promise!Next
  <2>4. CASE UNCHANGED vars
    BY <2>4 DEF vars, Content, Pending, At
  <2> QED
    BY <2>1, <2>2, <2>3, <2>4 DEF Next
<1> QED
  BY <1>1, <1>2, Invariance, PTL DEF Spec, Refines, Promise!Spec

-----------------------------------------------------------------------------
(* Lookups.                                                                *)
(***************************************************************************)
LEMMA LeastExists ==
  ASSUME NEW S, S \subseteq Nat, S # {}
  PROVE  \E x \in S : \A y \in S : x <= y
<1>1. PICK x \in S : \A y \in S : ~(<<y, x>> \in OpToRel(<, Nat))
  BY NatLessThanWellFounded, WFMin, Zenon
<1>2. \A y \in S : ~(y < x)
  BY <1>1, Zenon DEF OpToRel
<1> QED
  BY <1>2

LEMMA GreatestExists ==
  ASSUME NEW M \in Nat, NEW S, S \subseteq 0 .. M, S # {}
  PROVE  \E x \in S : \A y \in S : y <= x
<1> DEFINE T == {M - x : x \in S}
<1>1. T \subseteq Nat /\ T # {}
  <2>1. \A x \in S : x \in 0 .. M
    OBVIOUS
  <2>2. \A x \in S : M - x \in Nat
    BY <2>1
  <2> QED
    BY <2>2
<1>2. PICK t \in T : \A u \in T : t <= u
  BY <1>1, LeastExists
<1>3. PICK x \in S : t = M - x
  OBVIOUS
<1>4. \A y \in S : M - x <= M - y
  BY <1>2, <1>3
<1>5. \A y \in S : y \in 0 .. M
  OBVIOUS
<1> QED
  BY <1>4, <1>5

LEMMA FirstExists ==
  ASSUME NEW S, S \subseteq Entry, S # {}
  PROVE  \E j \in S : IsFirst(j, S)
<1> DEFINE T == {j.start : j \in S}
<1>1. T \subseteq Nat /\ T # {}
  BY OffsetAssumption DEF Entry, Offset
<1>2. PICK t \in T : \A u \in T : t <= u
  BY <1>1, LeastExists
<1> QED
  BY <1>2 DEF IsFirst

LEMMA LastExists ==
  ASSUME NEW S, S \subseteq Entry, S # {}
  PROVE  \E j \in S : IsLast(j, S)
<1> DEFINE T == {j.start : j \in S}
<1>1. T \subseteq 0 .. MAX /\ T # {}
  BY OffsetAssumption DEF Entry, Offset
<1>2. PICK t \in T : \A u \in T : u <= t
  BY <1>1, GreatestExists, OffsetAssumption
<1> QED
  BY <1>2 DEF IsLast

(* A gap begins behind everything before it, and in the interval.          *)
LEMMA GapFacts ==
  ASSUME IInv, NEW s \in Nat, NEW J \in Interval
  PROVE  /\ GapBefore(s, J) \in {PlusOne(j.end) : j \in Before(s)} \cup {J.start}
         /\ GapBefore(s, J) \in Nat
         /\ J.start <= GapBefore(s, J)
         /\ \A j \in Before(s) : j.end < MAX => j.end < GapBefore(s, J)
<1> DEFINE ends == {PlusOne(j.end) : j \in Before(s)} \cup {J.start}
<1>1. \A j \in Before(s) : /\ j.end \in Nat /\ j.end <= MAX
                           /\ PlusOne(j.end) \in 0 .. MAX
                           /\ j.end < MAX => PlusOne(j.end) = j.end + 1
  BY Numbers, OffsetAssumption DEF Before, PlusOne
<1>2. J.start \in Nat /\ J.start <= MAX
  BY OffsetAssumption DEF Interval, Offset
<1>3. ends \subseteq 0 .. MAX /\ ends # {} /\ MAX \in Nat
  BY <1>1, <1>2, OffsetAssumption
<1>4. \E e \in ends : \A f \in ends : f <= e
  BY <1>3, GreatestExists
<1>5. GapBefore(s, J) = CHOOSE e \in ends : \A f \in ends : f <= e
  BY DEF GapBefore
<1>6. GapBefore(s, J) \in ends /\ \A f \in ends : f <= GapBefore(s, J)
  BY <1>4, <1>5
<1>7. \A j \in Before(s) : PlusOne(j.end) \in ends
  OBVIOUS
<1>8. \A j \in Before(s) : j.end < MAX => j.end + 1 <= GapBefore(s, J)
  BY <1>1, <1>6, <1>7
<1>9. GapBefore(s, J) \in Nat
  BY <1>3, <1>6
<1> QED
  BY <1>1, <1>6, <1>8, <1>9

Overlaps(j, J) == j.start <= J.end /\ J.start <= j.end

(* le finds the leftmost entry that overlaps an interval, if there is one. *)
LEMMA LeFacts ==
  ASSUME IInv, NEW J \in Interval
  PROVE  /\ \A j \in mapping : IsLe(j, J) =>
              Overlaps(j, J) /\ \A k \in mapping : Overlaps(k, J) => j.start <= k.start
         /\ \A k \in mapping : Overlaps(k, J) => \E j \in mapping : IsLe(j, J)
<1>1. /\ mapping \subseteq Entry
      /\ \A j \in mapping : j.start \in Nat /\ j.end \in Nat /\ j.start <= j.end
      /\ \A j, k \in mapping : j # k => j.end < k.start \/ k.end < j.start
  BY Numbers DEF IInv, TypeOK, Disjoint, AreDisjoint
<1>2. J.start \in Nat /\ J.end \in Nat /\ J.start <= J.end
  BY OffsetAssumption DEF Interval, Offset
<1>3. ASSUME NEW j \in mapping, IsLe(j, J)
      PROVE  Overlaps(j, J) /\ \A k \in mapping : Overlaps(k, J) => j.start <= k.start
  <2>1. CASE IsLast(j, Before(J.start)) /\ j.end >= J.start
    <3>1. j.start < J.start /\ Overlaps(j, J)
      BY <1>1, <1>2, <2>1 DEF IsLast, Before, Overlaps
    <3>2. ASSUME NEW k \in mapping, Overlaps(k, J) PROVE j.start <= k.start
      <4>1. CASE k = j
        BY <1>1, <4>1
      <4>2. CASE k # j
        <5>1. k.start < j.start => k.end < j.start
          BY <1>1, <4>2
        <5> QED
          BY <1>1, <1>2, <3>1, <3>2, <5>1 DEF Overlaps
      <4> QED
        BY <4>1, <4>2
    <3> QED
      BY <3>1, <3>2
  <2>2. CASE /\ \A k \in Before(J.start) : k.end < J.start
             /\ IsFirst(j, From(J.start)) /\ j.start <= J.end
    <3>1. j.start >= J.start /\ \A k \in mapping : k.start >= J.start => j.start <= k.start
      BY <2>2 DEF IsFirst, From
    <3>2. \A k \in mapping : Overlaps(k, J) => k.start >= J.start
      BY <1>1, <1>2, <2>2 DEF Before, Overlaps
    <3> QED
      BY <1>1, <1>2, <2>2, <3>1, <3>2 DEF Overlaps
  <2> QED
    BY <1>3, <2>1, <2>2 DEF IsLe
<1>4. ASSUME NEW k \in mapping, Overlaps(k, J) PROVE \E j \in mapping : IsLe(j, J)
  <2>1. CASE \E j \in Before(J.start) : j.end >= J.start
    <3>1. Before(J.start) \subseteq Entry /\ Before(J.start) \subseteq mapping
      BY <1>1 DEF Before
    <3>2. PICK l \in Before(J.start) : IsLast(l, Before(J.start))
      BY <2>1, <3>1, LastExists
    <3>3. PICK j \in Before(J.start) : j.end >= J.start
      BY <2>1
    <3>4. j.start <= l.start
      BY <3>2, <3>3 DEF IsLast
    <3>5. l.end >= J.start
      BY <1>1, <1>2, <3>1, <3>3, <3>4
    <3> QED
      BY <3>1, <3>2, <3>5 DEF IsLe
  <2>2. CASE ~\E j \in Before(J.start) : j.end >= J.start
    <3>1. \A j \in Before(J.start) : j.end < J.start
      BY <1>1, <1>2, <2>2 DEF Before
    <3>2. k \in From(J.start) /\ k.start <= J.end
      BY <1>1, <1>2, <1>4, <3>1 DEF From, Before, Overlaps
    <3>3. From(J.start) \subseteq Entry /\ From(J.start) \subseteq mapping
      BY <1>1 DEF From
    <3>4. PICK j \in From(J.start) : IsFirst(j, From(J.start))
      BY <3>2, <3>3, FirstExists
    <3>5. j.start <= J.end
      BY <1>1, <1>2, <3>2, <3>3, <3>4 DEF IsFirst
    <3> QED
      BY <3>1, <3>3, <3>4, <3>5 DEF IsLe
  <2> QED
    BY <2>1, <2>2
<1> QED
  BY <1>3, <1>4

LEMMA MappedOffsets ==
  ASSUME IInv, NEW o \in Offset
  PROVE  At(o) = {} <=> \A j \in mapping : ~Covers(j, o)
<1>1. \A j \in mapping : Covers(j, o) => At(o) = j.vals /\ j.vals # {}
  BY ValuesOfEntry DEF IInv, TypeOK, Disjoint, NonEmpty, At
<1> QED
  BY <1>1, ValuesOfGap DEF At

(* gather: from the leftmost entry that overlaps J to the end of J.        *)
LEMMA GatherExact ==
  ASSUME IInv, NEW J \in Interval
  PROVE  gather(J) = UNION {At(o) : o \in J.start .. J.end}
<1>1. /\ mapping \subseteq Entry /\ AreDisjoint(mapping)
      /\ \A j \in mapping : j.start \in Nat /\ j.end \in Nat /\ j.start <= j.end
      /\ \A j, k \in mapping : j # k => j.end < k.start \/ k.end < j.start
  BY Numbers DEF IInv, TypeOK, Disjoint, AreDisjoint
<1>2. J.start \in Nat /\ J.end \in Nat /\ J.start <= J.end /\ J.end <= MAX
  BY OffsetAssumption DEF Interval, Offset
<1>3. J.start .. J.end \subseteq Offset
  BY <1>2, OffsetAssumption DEF Offset
<1> DEFINE G == {k \in mapping : k.start <= J.end /\
                   \E j \in mapping : IsLe(j, J) /\ j.start <= k.start}
<1>4. ASSUME NEW k \in mapping PROVE k \in G <=> Overlaps(k, J)
  <2>1. ASSUME k \in G PROVE Overlaps(k, J)
    <3>1. PICK j \in mapping : IsLe(j, J) /\ j.start <= k.start
      BY <2>1
    <3>2. Overlaps(j, J)
      BY <3>1, LeFacts
    <3>3. k.start <= J.end
      BY <2>1
    <3>4. CASE k = j
      BY <3>2, <3>4
    <3>5. CASE k # j
      <4>1. j.end < k.start
        BY <1>1, <3>1, <3>5
      <4> QED
        BY <1>1, <1>2, <3>2, <3>3, <4>1 DEF Overlaps
    <3> QED
      BY <3>4, <3>5
  <2>2. ASSUME Overlaps(k, J) PROVE k \in G
    BY <2>2, LeFacts DEF Overlaps
  <2> QED
    BY <2>1, <2>2
<1>5. gather(J) = UNION {k.vals : k \in G}
  BY DEF gather
<1> HIDE DEF G
<1>6. G \subseteq mapping
  BY DEF G
<1>7. ASSUME NEW v, NEW k \in G, v \in k.vals
      PROVE  \E o \in J.start .. J.end : v \in At(o)
  <2>1. Overlaps(k, J) /\ k \in mapping
    BY <1>4, <1>6
  <2>2. \E o \in J.start .. J.end : Covers(k, o)
    <3>1. CASE k.start <= J.start
      BY <1>1, <1>2, <2>1, <3>1 DEF Overlaps, Covers
    <3>2. CASE k.start > J.start
      BY <1>1, <1>2, <2>1, <3>2 DEF Overlaps, Covers
    <3> QED
      BY <1>1, <1>2, <2>1, <3>1, <3>2
  <2>3. PICK o \in J.start .. J.end : Covers(k, o)
    BY <2>2
  <2>4. At(o) = k.vals
    BY <1>1, <1>3, <2>1, <2>3, ValuesOfEntry DEF At
  <2> QED
    BY <1>7, <2>4
<1>8. ASSUME NEW o \in J.start .. J.end, NEW v \in At(o)
      PROVE  \E k \in G : v \in k.vals
  <2>1. PICK k \in mapping : Covers(k, o) /\ v \in k.vals
    BY DEF At, ValuesAt, Covers
  <2>2. Overlaps(k, J)
    BY <1>1, <1>2, <2>1 DEF Covers, Overlaps
  <2> QED
    BY <1>4, <2>1, <2>2
<1> QED
  BY <1>5, <1>7, <1>8

(* uncovered: what it returns lies in front of an entry that the walk      *)
(* meets, or behind them all, and no entry reaches into it; a gap of J is  *)
(* in front of the next entry behind it, or behind them all.               *)
LEMMA UncoveredExact ==
  ASSUME IInv, NEW J \in Interval, NEW o \in Offset
  PROVE  LET returned == \E U \in uncovered(J) : U.start <= o /\ o <= U.end IN
           /\ returned => At(o) = {}
           /\ J.start <= o /\ o <= J.end /\ At(o) = {} => returned
<1>1. /\ mapping \subseteq Entry
      /\ \A j \in mapping : /\ j.start \in Nat /\ j.end \in Nat
                            /\ j.start <= j.end /\ j.end <= MAX
      /\ \A j, k \in mapping : j # k => j.end < k.start \/ k.end < j.start
  BY Numbers DEF IInv, TypeOK, Disjoint, AreDisjoint
<1>2. J.start \in Nat /\ J.end \in Nat /\ J.start <= J.end /\ J.end <= MAX
  BY OffsetAssumption DEF Interval, Offset
<1>3. o \in Nat /\ o <= MAX /\ MAX \in Nat
  BY OffsetAssumption DEF Offset
<1>4. At(o) = {} <=> \A j \in mapping : ~(j.start <= o /\ o <= j.end)
  BY MappedOffsets DEF Covers
<1> DEFINE Met(k) == /\ \E j \in mapping : IsLe(j, J) /\ j.start <= k.start
                     /\ \A j \in Before(k.start) : j.end < J.end
           walked == {k \in mapping : Met(k)}
           gap(k) == [start |-> GapBefore(k.start, J), end |-> MinusOne(k.start)]
           gaps == {gap(k) : k \in {w \in walked : w.start > GapBefore(w.start, J)}}
           last == [start |-> GapBefore(MAX + 1, J), end |-> J.end]
<1>5. CASE ~\E j \in mapping : IsLe(j, J)
  <2>1. uncovered(J) = {J}
    BY <1>5 DEF uncovered
  <2>2. \A k \in mapping : ~Overlaps(k, J)
    BY <1>5, LeFacts
  <2>3. J.start <= o /\ o <= J.end => At(o) = {}
    BY <1>1, <1>2, <1>3, <1>4, <2>2 DEF Overlaps
  <2> QED
    BY <2>1, <2>3
<1>6. CASE \E j \in mapping : IsLe(j, J)
  <2>1. uncovered(J) = IF \E k \in walked : k.end >= J.end THEN gaps ELSE gaps \cup {last}
    BY <1>6, Zenon DEF uncovered
  <2>2. ASSUME NEW k \in mapping
        PROVE  GapBefore(k.start, J) \in Nat
    <3>1. k.start \in Nat
      BY <1>1
    <3> QED
      BY <3>1, GapFacts
  <2>3. GapBefore(MAX + 1, J) \in Nat
    <3>1. MAX + 1 \in Nat
      BY <1>3
    <3> QED
      BY <3>1, GapFacts
  <2>4. ASSUME NEW k \in mapping, k.start > GapBefore(k.start, J)
        PROVE  MinusOne(k.start) = k.start - 1
    <3>1. k.start \in Offset /\ 0 < k.start
      BY <1>1, <2>2, <2>4 DEF Entry
    <3>2. k.start # MAX
      <4>1. SUFFICES ASSUME k.start = MAX PROVE FALSE
        OBVIOUS
      <4>2. PICK l \in mapping : l.start < MAX /\ l.end + 1 = MAX
        BY <4>1 DEF IInv, Edge, NoGapBeforeMAX, EndsBeforeMAX
      <4>3. l \in Before(k.start) /\ l.end < MAX
        BY <1>1, <1>3, <4>1, <4>2 DEF Before
      <4>4. l.end < GapBefore(k.start, J)
        BY <1>1, <4>3, GapFacts
      <4> QED
        BY <1>1, <1>3, <2>2, <2>4, <4>1, <4>2, <4>4
    <3> QED
      BY <1>3, <3>1, <3>2, Arithmetic DEF Offset
  <2>5. ASSUME NEW k \in mapping, GapBefore(k.start, J) <= o, o <= k.start - 1
        PROVE  At(o) = {}
    <3>1. \A j \in Before(k.start) : j.end < GapBefore(k.start, J)
      <4>1. \A j \in Before(k.start) : j.end < MAX
        BY <1>1, <1>3 DEF Before
      <4> QED
        BY <1>1, <4>1, GapFacts
    <3>2. ASSUME NEW j \in mapping, j.start <= o, o <= j.end PROVE FALSE
      <4>1. j.start < k.start
        BY <1>1, <1>3, <2>5, <3>2
      <4>2. j.end < GapBefore(k.start, J)
        BY <3>1, <4>1 DEF Before
      <4> QED
        BY <1>1, <1>3, <2>2, <2>5, <3>2, <4>2
    <3> QED
      BY <1>4, <3>2
  <2>6. ASSUME ~\E k \in walked : k.end >= J.end, GapBefore(MAX + 1, J) <= o
        PROVE  At(o) = {}
    <3>1. \A j \in mapping : j.end < J.end
      <4>1. SUFFICES ASSUME NEW j \in mapping, j.end >= J.end PROVE FALSE
        BY <1>1, <1>2
      <4>2. PICK k \in {m \in mapping : m.end >= J.end} :
              IsFirst(k, {m \in mapping : m.end >= J.end})
        <5>1. {m \in mapping : m.end >= J.end} \subseteq Entry
          BY <1>1
        <5> QED
          BY <4>1, <5>1, FirstExists
      <4>3. k \in mapping /\ k.end >= J.end
        OBVIOUS
      <4>4. \A m \in Before(k.start) : m.end < J.end
        BY <1>1, <1>2, <4>2, <4>3 DEF IsFirst, Before
      <4>5. PICK l \in mapping : IsLe(l, J)
        BY <1>6
      <4>6. l.start <= k.start
        BY <1>1, <1>2, <4>3, <4>5, LeFacts DEF Overlaps
      <4>7. k \in walked
        BY <4>3, <4>4, <4>5, <4>6
      <4> QED
        BY <2>6, <4>3, <4>7
    <3>2. \A j \in mapping : j \in Before(MAX + 1) /\ j.end < MAX
      BY <1>1, <1>2, <1>3, <3>1 DEF Before
    <3>3. \A j \in mapping : j.end < GapBefore(MAX + 1, J)
      BY <1>3, <3>2, GapFacts
    <3> QED
      BY <1>1, <1>3, <1>4, <2>3, <2>6, <3>3
  <2>7. ASSUME NEW U \in uncovered(J), U.start <= o, o <= U.end PROVE At(o) = {}
    <3>1. CASE U \in gaps
      <4>1. PICK k \in {w \in walked : w.start > GapBefore(w.start, J)} : U = gap(k)
        BY <3>1
      <4>2. /\ k \in mapping /\ U.start = GapBefore(k.start, J)
            /\ U.end = MinusOne(k.start) /\ k.start > GapBefore(k.start, J)
        BY <4>1
      <4>3. U.end = k.start - 1
        BY <2>4, <4>2
      <4> QED
        BY <2>5, <2>7, <4>2, <4>3
    <3>2. CASE U = last /\ ~\E k \in walked : k.end >= J.end
      BY <2>6, <2>7, <3>2
    <3> QED
      BY <2>1, <2>7, <3>1, <3>2
  <2>8. ASSUME J.start <= o, o <= J.end, At(o) = {}
        PROVE  \E U \in uncovered(J) : U.start <= o /\ o <= U.end
    <3>1. PICK l \in mapping : IsLe(l, J)
      BY <1>6
    <3>2. Overlaps(l, J) /\ \A k \in mapping : Overlaps(k, J) => l.start <= k.start
      BY <3>1, LeFacts
    <3>3. \A j \in mapping : j.start <= o => j.end < o
      BY <1>1, <1>3, <1>4, <2>8
    <3>4. CASE From(o + 1) # {}
      <4>1. From(o + 1) \subseteq mapping /\ From(o + 1) \subseteq Entry
        BY <1>1 DEF From
      <4>2. PICK k \in From(o + 1) : IsFirst(k, From(o + 1))
        BY <3>4, <4>1, FirstExists
      <4>3. k \in mapping /\ k.start >= o + 1
        BY <4>1 DEF From
      <4>4. \A j \in Before(k.start) : j \in mapping /\ j.start <= o
        <5>1. \A j \in mapping : j.start >= o + 1 => k.start <= j.start
          BY <4>2 DEF IsFirst, From
        <5> QED
          BY <1>1, <1>3, <4>3, <5>1 DEF Before
      <4>5. \A j \in Before(k.start) : j.end < o
        BY <3>3, <4>4
      <4>6. \A j \in Before(k.start) : j.end < J.end
        BY <1>1, <1>2, <1>3, <2>8, <4>4, <4>5
      <4>7. l.start <= k.start
        <5>1. CASE l.start <= o
          BY <1>1, <1>3, <4>3, <5>1
        <5>2. CASE l.start > o
          <6>1. l \in From(o + 1)
            BY <1>1, <1>3, <5>2 DEF From
          <6>2. k.start <= l.start
            BY <4>2, <6>1 DEF IsFirst
          <6>3. Overlaps(k, J)
            BY <1>1, <1>2, <1>3, <2>8, <3>2, <4>3, <6>2 DEF Overlaps
          <6> QED
            BY <3>2, <4>3, <6>3
        <5> QED
          BY <1>1, <1>3, <5>1, <5>2
      <4>8. k \in walked
        BY <3>1, <4>3, <4>6, <4>7
      <4>9. GapBefore(k.start, J) <= o
        <5>1. GapBefore(k.start, J) \in {PlusOne(j.end) : j \in Before(k.start)} \cup {J.start}
          BY <1>1, <4>3, GapFacts
        <5>2. \A j \in Before(k.start) : j.end < o => PlusOne(j.end) = j.end + 1
          BY <1>1, <1>3, <4>4 DEF PlusOne
        <5> QED
          BY <1>1, <1>2, <1>3, <2>8, <4>4, <4>5, <5>1, <5>2
      <4>10. k.start > GapBefore(k.start, J)
        BY <1>1, <1>3, <2>2, <4>3, <4>9
      <4>11. gap(k) \in gaps
        BY <4>8, <4>10
      <4>12. gap(k) \in uncovered(J)
        BY <2>1, <4>11
      <4>13. gap(k).start <= o /\ o <= gap(k).end
        BY <1>1, <1>3, <2>4, <4>3, <4>9, <4>10
      <4> QED
        BY <4>12, <4>13
    <3>5. CASE From(o + 1) = {}
      <4>1. \A j \in mapping : j.start <= o
        BY <1>1, <1>3, <3>5 DEF From
      <4>2. \A j \in mapping : j.end < o
        BY <3>3, <4>1
      <4>3. ~\E k \in walked : k.end >= J.end
        BY <1>1, <1>2, <1>3, <2>8, <4>2
      <4>4. last \in uncovered(J)
        BY <2>1, <4>3
      <4>5. GapBefore(MAX + 1, J) <= o
        <5>1. GapBefore(MAX + 1, J) \in {PlusOne(j.end) : j \in Before(MAX + 1)} \cup {J.start}
          BY <1>3, GapFacts
        <5>2. \A j \in Before(MAX + 1) : j \in mapping
          BY DEF Before
        <5>3. \A j \in mapping : PlusOne(j.end) = j.end + 1
          BY <1>1, <1>3, <4>2 DEF PlusOne
        <5> QED
          BY <1>1, <1>2, <1>3, <2>8, <4>2, <5>1, <5>2, <5>3
      <4> QED
        BY <2>8, <4>4, <4>5
    <3> QED
      BY <3>4, <3>5
  <2> QED
    BY <2>7, <2>8
<1> QED
  BY <1>5, <1>6

(* Lookups between operations are right about every offset: gather returns *)
(* the values of the interval, uncovered all of its gaps and nothing that  *)
(* is mapped.                                                              *)
THEOREM LookupsCorrect == Spec => []LookupsExact
<1>1. ASSUME IInv PROVE LookupsExact
  BY <1>1, GatherExact, UncoveredExact DEF LookupsExact
<1> QED
  BY <1>1, Invariance, PTL
=============================================================================
