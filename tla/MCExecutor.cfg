CONSTANTS
  Tasks = {t1, t2, t3}
  NoTask = NoTask
SPECIFICATION FairSpec
INVARIANT TypeOK
INVARIANT SleepsOnlyWhenIdle
PROPERTY ImplementsWakeService
PROPERTY WokenIsPolled
PROPERTY RaisedIsTaken
