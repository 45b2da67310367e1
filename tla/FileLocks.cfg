\* Three tasks, two keys, two calls each: with cancellations and deadlines, and without.
SPECIFICATION Spec
CONSTANTS
  Tasks = {t1, t2, t3}
  Keys = {1, 2}
  Nobody = Nobody
  MaxCalls = 2
INVARIANTS
  LocksAreTrue
  NoCircularWait
PROPERTIES
  SectionsSpec
  
  EveryCallServed
CHECK_DEADLOCK FALSE
