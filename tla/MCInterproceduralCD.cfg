CONSTANTS F = 3
          B = 4
          MaxNodes = 18
          Programs <- AllPrograms
          Options <- AllOptions
SPECIFICATION FairSpec
INVARIANTS NoretExact DependenciesExact
PROPERTIES Answered
