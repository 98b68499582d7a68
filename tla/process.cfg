SPECIFICATION Spec
CONSTANTS
  Ticks = {t1, t2}
  Requests = {r1}
  Callers = {t2, r1}
  MaxEvents = 2
INVARIANTS
  TicksDoNotOverlap
  TicksDrain
  AcceptedIsStarted
  NilMeansInOrder
PROPERTIES
  SendersEnd
  PassesEnd
  CancelEnds
  ListenerFailureEnds
  FollowsSchedule
