CONSTANT Inputs <- SmallInputs
SPECIFICATION Spec
INVARIANTS SliceClosed StandardCDExact SamePoints ModuleValid
PROPERTY SameProgress
