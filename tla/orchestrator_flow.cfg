SPECIFICATION Spec
CONSTANTS
  p1 = p1
  p2 = p2
  NoOne = NoOne
  Ghost = Ghost
  labelled = labelled
  listed = listed
  NoIssue = NoIssue
  Proc <- Processes
  Issue <- Issues
  Leased <- Admitted
  FailureLimit = 2
  MaxAttempts = 3
  MaxTurns = 2
  MaxFaults = 1
SYMMETRY Symmetry
INVARIANTS
  TypeOK
  OneHolder
  OneOrigin
  WorkIsClaimed
  CompletedRan
  LeasedPostedOnce
  RunsPublished
PROPERTIES
  KeepsLedger
  NoTurnOverlap
