\* Two tasks, two executors, two controls and one lost delivery.
SPECIFICATION FairSpec
CONSTANTS
  d1 = d1
  d2 = d2
  Directives <- MCDirectives
  High <- MCHigh
  Workers = {w1, w2}
  NoTask = NoTask
  MaxControls = 2
  MaxLosses = 1
INVARIANTS
  TaskRecordsAgree
  EngineRunsOnce
PROPERTIES
  ControlIsApplied
  DirectiveStarts
