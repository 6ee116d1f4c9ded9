\* Two runs and two recordings that come and go.
SPECIFICATION Spec
CONSTANTS
  run1 = run1 run2 = run2
  Keys = {1, 2}
  Runs = {run1, run2}
SYMMETRY Symmetry
INVARIANTS SnapshotIsOfOneTime HeartbeatMeansRestorable
CHECK_DEADLOCK FALSE
