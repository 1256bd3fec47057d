CONSTANTS
  MinTarget = 88
  MaxTarget = 92
  MaxPodsValues <- MCMaxPodsValues
  SeriesLengths <- MCSeriesLengths
  NTransformers = 2
  WindowSecs = 600
  StepSecs = 60
  Threshold = 60

SPECIFICATION Spec


INVARIANT ConfigWellFormed

\* A call returns: done and error are final.
CHECK_DEADLOCK FALSE
