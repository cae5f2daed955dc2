SPECIFICATION Spec
CONSTANTS
  Handlers = {h1, h2}
  MaxFix = 1
  MaxIterations = 2
  MaxMishaps = 1
INVARIANTS RecordsAgree CancelledStays
PROPERTY PipelineEnds
CHECK_DEADLOCK FALSE
