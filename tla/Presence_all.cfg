SPECIFICATION MCSpec
CONSTANTS
  MaxEvents = 3
  n1 = n1
  n2 = n2
  n3 = n3
  FirstGeneration <- MCFirst
  SecondGeneration = {n3}
  MaxHappenings = 3
INVARIANTS
  ShownIsTrue
PROPERTIES
  ListSettles
  MirrorSettles
CHECK_DEADLOCK FALSE
