SPECIFICATION Spec
CONSTANTS
  p1 = p1
  p2 = p2
  NoOne = NoOne
  Ghost = Ghost
  labelled = labelled
  listed = listed
  NoIssue = NoIssue
  Proc <- Processes
  Issue <- Issues
  Leased <- Admitted
  FailureLimit = 2
  MaxAttempts = 2
  MaxTurns = 1
  MaxFaults = 1
SYMMETRY Symmetry
INVARIANT ResultPostedOnce
