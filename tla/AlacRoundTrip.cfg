\* Frames of five samples: silence, small and large values, either channel.
CONSTANTS
  Positive = {0, 9}
  Negative = {300}
  NumSamples = 5
  ShortFrame = 3
  Predictors = {0, 2, 31}
SPECIFICATION Spec
INVARIANTS Lossless AllBitsRead RunsFit
CHECK_DEADLOCK FALSE
