CONSTANTS MAX = 4
          Values = {a, b}
SPECIFICATION Spec
INVARIANTS Disjoint LookupsExact
PROPERTY Refines
