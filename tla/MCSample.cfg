\* What one message can be made of, over any number of callbacks.
CONSTANTS
  MaxNow <- MCMaxNow
  MaxZeros <- MCMaxZeros
  TimeSize <- MCTimeSize
  CourseEnd <- MCCourseEnd
  DataEnd <- MCDataEnd
  TimeLens <- MCTimeLens
SPECIFICATION Spec
INVARIANTS
  InOrder
  TailRewritten
  TimeExact
