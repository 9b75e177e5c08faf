CONSTANTS N = 3
          Inputs <- Graph
SPECIFICATION FairSpec
INVARIANTS ColoringExact ComputesNTSCD
           ComputesNTSCDUnlessReturns
           RanganathComputesNTSCD
           ClosesLeast
PROPERTY Termination
