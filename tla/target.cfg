\* Targets of three pieces, and a file that comes or goes meanwhile.
CONSTANTS
  MaxPieces = 3
  MaxChanges = 1
SPECIFICATION Spec
INVARIANTS CodingInverts SplitIsMaximalRuns ParamsRecovered AnswerIsTimely
