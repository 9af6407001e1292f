SPECIFICATION WantedSpec
CONSTANTS
  w1 = w1
  w2 = w2
  w3 = w3
  w4 = w4
  None = None
  Wants = {w1, w2, w4}
  KindOf <- KindsOfWants
  PageSize = 1
  Syncers = {"loop"}
  Quiet = FALSE
  MaxStamp = 2
SYMMETRY EpisodesAlike
INVARIANTS
  WithdrawnIsGone
CHECK_DEADLOCK FALSE
