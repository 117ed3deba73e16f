CONSTANT MaxJobs = 1
SPECIFICATION FairSpec
PROPERTIES
  StopTakesEffect
  FadeEndsInSilence
  PlayingIsAudible
  DestructorReturns
