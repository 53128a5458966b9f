SPECIFICATION FairSpec
CONSTANTS
  Threads = {t1, t2}
  Depth = 2
  Uses = {"none", "await", "spawn"}
  Setups <- MixedSetups
  Nobody = Nobody
CHECK_DEADLOCK FALSE
INVARIANTS TypeOK OneHandlerAtATime NoAnswerToAwaitedCallback
PROPERTIES LoopsReadOn OnlyStarvationHangs SpawnedRuns
