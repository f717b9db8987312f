SPECIFICATION PickSpec
CONSTANTS
  Tasks = {t1, t2}
  N = 3
  Algorithms = {"round_robin", "least_request", "maglev"}
  Weight <- Weights
  CursorRange = 4
SYMMETRY Symmetry
INVARIANTS
  NoSpuriousNone
  RetryMovesOn
  LoadExact
