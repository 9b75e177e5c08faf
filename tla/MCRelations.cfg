CONSTANTS
  Width = 2
  MaxPass = 5
  MaxFacts = 3
  Programs <- MCPrograms
  Vocabularies <- MCVocabularies
SPECIFICATION Spec
INVARIANTS AnswersSound ChainsFound RelationsHold AssertionsHold
CHECK_DEADLOCK FALSE
