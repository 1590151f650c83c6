SPECIFICATION MCSpec
CONSTANTS
  MaxEvents = 3
  n1 = n1
  n2 = n2
  n3 = n3
  FirstGeneration <- MCFirst
  SecondGeneration = {n3}
  MaxHappenings = 3
PROPERTIES
  HandledIsSeen
CHECK_DEADLOCK FALSE
