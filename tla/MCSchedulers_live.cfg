SPECIFICATION SchedulersFairSpec
CONSTANTS
  Tasks = {t1, t2, t3}
  Capacity = 2
  MaxDepth = 1
  MaxRounds = 1
  DueCapacity = 3
  DueDepth = 1
  MaxTick = 2
  MaxDispatches = 2
  PastDeadlines = FALSE
PROPERTIES EveryTaskPolled DueServed WakeupNotLost
