----------------------- MODULE DisjunctiveIntervalMap -----------------------
(***************************************************************************)
(* class DisjunctiveIntervalMap (include/dg/ADT): which nodes defined      *)
(* which bytes of an object, kept as disjoint intervals.  _add first       *)
(* splits the intervals that stick out of the new one and then walks over  *)
(* it from left to right, filling gaps and adding the value to what is     *)
(* there already.                                                          *)
(*                                                                         *)
(* _mapping, a std::map ordered by the start of the intervals, is a set of *)
(* entries; an iterator is the entry it points to.                         *)
(***************************************************************************)
EXTENDS Naturals, FiniteSets

CONSTANTS
  MAX,      \* the greatest offset, Offset::UNKNOWN
  Values    \* the values

ASSUME OffsetAssumption == MAX \in Nat

Offset == 0 .. MAX
Interval == {J \in [start : Offset, end : Offset] : J.start <= J.end}
Entry == [start : Offset, end : Offset, vals : SUBSET Values]

(* operator+ and operator- of Offset, which stay at the unknown offset.    *)
PlusOne(o)  == IF o >= MAX - 1 THEN MAX ELSE o + 1
MinusOne(o) == IF o = MAX \/ o = 0 THEN MAX ELSE o - 1

(* What add and update are called with: an interval begins at a known      *)
(* offset (DefinitionsMap::getInterval makes it [0, UNKNOWN] otherwise).   *)
Argument == {J \in Interval : J.start # MAX}

VARIABLES
  mapping,   \* _mapping
  pc,        \* where _add is: "idle", "right", "left" or "fill"
  I,         \* its arguments: the interval,
  val,       \* the value,
  update,    \* and whether the value replaces the old ones
  rest       \* rest.start

vars == <<mapping, pc, I, val, update, rest>>

Nowhere == [start |-> 0, end |-> 0]

Init ==
  /\ mapping = {}
  /\ pc = "idle"
  /\ I = Nowhere
  /\ val \in Values
  /\ update = FALSE
  /\ rest = 0

-----------------------------------------------------------------------------
Extended(j, v) == [j EXCEPT !.vals = @ \cup {v}]
NewEntry(s, e, v) == [start |-> s, end |-> e, vals |-> {v}]

(* Searches in the ordered map.                                            *)
IsFirst(j, S) == j \in S /\ \A k \in S : j.start <= k.start
IsLast(j, S)  == j \in S /\ \A k \in S : k.start <= j.start

From(s)   == {j \in mapping : j.start >= s}     \* from lower_bound to the end
Before(s) == {j \in mapping : j.start < s}

(* splitIntervalHint                                                       *)
SplitShared(m, j, where) ==
  (m \ {j}) \cup {[j EXCEPT !.end = where], [j EXCEPT !.start = where]}

Split(m, j, where) ==
  (m \ {j}) \cup {[j EXCEPT !.end = where], [j EXCEPT !.start = PlusOne(where)]}

(* The entry without what lies outside of I.                               *)
SplitAround(m, j) ==
  LET upper == [j EXCEPT !.start = I.start] IN
  IF j.end > I.end THEN Split(Split(m, j, MinusOne(I.start)), upper, I.end)
                   ELSE Split(m, j, MinusOne(I.start))

-----------------------------------------------------------------------------
(* add (u = FALSE) and update (u = TRUE) of an interval.                   *)
AddToEmpty(J, v, u) ==
  /\ pc = "idle"
  /\ mapping = {}
  /\ mapping' = {NewEntry(J.start, J.end, v)}
  /\ UNCHANGED <<pc, I, val, update, rest>>

Add(J, v, u) ==
  /\ pc = "idle"
  /\ mapping # {}
  /\ I' = J /\ val' = v /\ update' = u
  /\ rest' = J.start
  /\ pc' = "right"
  /\ UNCHANGED mapping

AddAll(v) ==
  /\ pc = "idle"
  /\ mapping' = {Extended(j, v) : j \in mapping}
  /\ UNCHANGED <<pc, I, val, update, rest>>

(* splitExtBorders when no entry starts at I.start or later.               *)
SplitLastEntry ==
  /\ pc = "right"
  /\ From(I.start) = {}
  /\ \E last \in mapping :
       /\ IsLast(last, mapping)
       /\ mapping' = IF last.end >= I.start THEN SplitAround(mapping, last)
                                            ELSE mapping
  /\ pc' = "fill"
  /\ UNCHANGED <<I, val, update, rest>>

(* splitExtBorders otherwise: the entry that begins inside of I and ends   *)
(* outside, ...                                                            *)
Hanging == {j \in From(I.start) : j.start <= I.end /\ j.end > I.end}

SplitRight ==
  /\ pc = "right"
  /\ From(I.start) # {}
  /\ \/ Hanging = {} /\ UNCHANGED mapping
     \/ \E j \in Hanging : /\ IsFirst(j, Hanging)
                           /\ mapping' = Split(mapping, j, I.end)
  /\ pc' = "left"
  /\ UNCHANGED <<I, val, update, rest>>

(* ... then the previous one, which may cover I entirely.                  *)
SplitLeft ==
  /\ pc = "left"
  /\ \/ Before(I.start) = {} /\ UNCHANGED mapping
     \/ \E prev \in mapping :
          /\ IsLast(prev, Before(I.start))
          /\ mapping' = IF prev.end >= I.start THEN SplitAround(mapping, prev)
                                               ELSE mapping
  /\ pc' = "fill"
  /\ UNCHANGED <<I, val, update, rest>>

(* The arguments are forgotten.                                            *)
Return ==
  /\ pc' = "idle"
  /\ I' = Nowhere /\ update' = FALSE /\ rest' = 0
  /\ UNCHANGED val

(* The loop of _add: nothing is left to walk over, ...                     *)
FillRest ==
  /\ pc = "fill"
  /\ \A j \in From(rest) : j.start > I.end
  /\ mapping' = mapping \cup {NewEntry(rest, I.end, val)}
  /\ Return

(* ... there is a gap before the next entry, ...                           *)
FillGapSkipped ==
  /\ pc = "fill"
  /\ \E it \in mapping :
       /\ IsFirst(it, From(rest))
       /\ it.start <= I.end
       /\ rest < it.start
       /\ rest' = it.start
  /\ UNCHANGED <<mapping, pc, I, val, update>>

FillGap ==
  /\ pc = "fill"
  /\ \E it \in mapping :
       /\ IsFirst(it, From(rest))
       /\ it.start <= I.end
       /\ rest < it.start
       /\ mapping' = mapping \cup {NewEntry(rest, MinusOne(it.start), val)}
       /\ rest' = it.start
  /\ UNCHANGED <<pc, I, val, update>>

(* ... or the next entry begins here and gets the value (_addValue).       *)
AddValue ==
  /\ pc = "fill"
  /\ \E it \in mapping :
       /\ IsFirst(it, From(rest))
       /\ it.start <= I.end
       /\ rest = it.start
       /\ mapping' = (mapping \ {it}) \cup
            {IF update THEN [it EXCEPT !.vals = {val}] ELSE Extended(it, val)}
       /\ \/ it.end = I.end /\ Return
          \/ it.end # I.end /\ rest' = PlusOne(it.end) /\ UNCHANGED <<pc, I, val, update>>

Step == \/ SplitLastEntry \/ SplitRight \/ SplitLeft
        \/ FillRest \/ FillGap \/ AddValue

Next ==
  \/ \E v \in Values : AddAll(v)
  \/ \E J \in Argument, v \in Values, u \in BOOLEAN : AddToEmpty(J, v, u) \/ Add(J, v, u)
  \/ Step

Spec == Init /\ [][Next]_vars

-----------------------------------------------------------------------------
TypeOK ==
  /\ mapping \subseteq Entry
  /\ pc \in {"idle", "right", "left", "fill"}
  /\ I \in Interval
  /\ val \in Values
  /\ update \in BOOLEAN
  /\ rest \in Offset

AreDisjoint(m) ==
  /\ \A j \in m : j.start <= j.end
  /\ \A j, k \in m : j # k => j.end < k.start \/ k.end < j.start

(* The assertions of _check: entries are intervals and do not overlap,     *)
(* at any point of an operation.                                           *)
Disjoint == AreDisjoint(mapping)

(* The values of an offset.                                                *)
ValuesAt(m, o) == UNION {j.vals : j \in {k \in m : k.start <= o /\ o <= k.end}}

At(o) == ValuesAt(mapping, o)

(* The promise.  An operation takes effect when it begins: offsets that    *)
(* the loop has not reached count as if it had.                            *)
Pending(o) == pc # "idle" /\ rest <= o /\ o <= I.end

Content == [o \in Offset |-> IF ~Pending(o) THEN At(o)
                             ELSE IF update THEN {val}
                             ELSE At(o) \cup {val}]

Promise == INSTANCE OffsetMap WITH content <- Content

(* Every operation changes exactly the offsets of its interval: splitting  *)
(* entries and filling gaps loses and adds nothing else.                   *)
Refines == Promise!Spec

-----------------------------------------------------------------------------
(* le: the first entry that overlaps J.                                    *)
IsLeFrom(j, J) == IsFirst(j, From(J.start)) /\ j.start <= J.end

IsLe(j, J) ==
  \/ IsLast(j, Before(J.start)) /\ j.end >= J.start
  \/ /\ \A k \in Before(J.start) : k.end < J.start
     /\ IsFirst(j, From(J.start)) /\ j.start <= J.end

gather(J) ==
  UNION {k.vals : k \in {k \in mapping : k.start <= J.end /\
                           \E j \in mapping : IsLe(j, J) /\ j.start <= k.start}}

(* uncovered: gaps in front of the entries that it walks over, which end   *)
(* with the first that reaches the end of J, and the rest behind the last. *)
GapBefore(s, J) ==
  LET ends == {PlusOne(j.end) : j \in Before(s)} \cup {J.start} IN
  CHOOSE e \in ends : \A f \in ends : f <= e

uncovered(J) ==
  IF ~\E j \in mapping : IsLe(j, J) THEN {J}
  ELSE LET walked == {k \in mapping :
                        /\ \E j \in mapping : IsLe(j, J) /\ j.start <= k.start
                        /\ \A j \in Before(k.start) : j.end < J.end}
           gaps == {[start |-> GapBefore(k.start, J), end |-> MinusOne(k.start)] :
                      k \in {w \in walked : w.start > GapBefore(w.start, J)}}
       IN  IF \E k \in walked : k.end >= J.end THEN gaps
           ELSE gaps \cup {[start |-> GapBefore(MAX + 1, J), end |-> J.end]}

(* Lookups are right about every interval that is asked for, and           *)
(* uncovered(), which may return intervals that end behind the one asked   *)
(* for, never returns an offset that is mapped (the assertion of           *)
(* createPhi, "Basic block already kills this memory").                    *)
LookupsExact ==
  pc = "idle" /\ mapping # {} =>
    \A J \in Interval :
      /\ gather(J) = UNION {At(o) : o \in J.start .. J.end}
      /\ \A o \in Offset :
           LET returned == \E U \in uncovered(J) : U.start <= o /\ o <= U.end IN
           /\ returned => At(o) = {}
           /\ J.start <= o /\ o <= J.end /\ At(o) = {} => returned
=============================================================================
