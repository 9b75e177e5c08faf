CONSTANTS N = 7
          Inputs <- Branching
          DODInputs <- DODGraphs
          RanganathInputs <- OneSwitch
SPECIFICATION FairSpec
INVARIANTS ComputesDODWhereExact
           RanganathComputesDOD AnswerExact
PROPERTY Termination
