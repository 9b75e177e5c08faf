----------------------------- MODULE OffsetMap ------------------------------
(***************************************************************************)
(* What a map of disjunctive intervals promises to its users: every offset *)
(* has a set of values, which is empty for offsets that are not mapped,    *)
(* and an operation on an interval is one on each of its offsets.          *)
(***************************************************************************)
EXTENDS Naturals

CONSTANTS
  MAX,      \* the greatest offset, Offset::UNKNOWN
  Values    \* the values

Offset == 0 .. MAX
Interval == {I \in [start : Offset, end : Offset] : I.start <= I.end}

In(o, I) == I.start <= o /\ o <= I.end

VARIABLE content

Init == content = [o \in Offset |-> {}]

Add(I, v) ==
  content' = [o \in Offset |-> IF In(o, I) THEN content[o] \cup {v} ELSE content[o]]

Update(I, v) ==
  content' = [o \in Offset |-> IF In(o, I) THEN {v} ELSE content[o]]

AddAll(v) ==
  content' = [o \in Offset |-> IF content[o] = {} THEN {} ELSE content[o] \cup {v}]

Next == \E v \in Values : \/ AddAll(v)
                          \/ \E I \in Interval : Add(I, v) \/ Update(I, v)

Spec == Init /\ [][Next]_content
=============================================================================
