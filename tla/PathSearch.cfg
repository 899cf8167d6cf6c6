\* Requests of all kinds over the diamond, with every combination of tags,
\* with regions, and with links that are thin, used, of one way or parallel.
SPECIFICATION Spec
CONSTANTS
  None = None
  Node <- MCNode
  Cases <- MCCases
  K = 4
INVARIANTS
  PathsSound TagIsFree AnswerIsCheapest AlternativesDiffer
PROPERTY Answered
CHECK_DEADLOCK FALSE
