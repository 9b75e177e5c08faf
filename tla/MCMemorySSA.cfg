CONSTANTS UNKNOWN_MEMORY = UNKNOWN_MEMORY
          NoProc = NoProc
          G = G
          P = P
          MaxDepth = 3
          Programs <- SmallPrograms
SPECIFICATION SoundSpec
INVARIANTS ReadsFound AnswersIndependent ReachingExact
CHECK_DEADLOCK FALSE
