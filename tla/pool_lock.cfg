\* Three workers whose clocks differ; they may die, stay too long, or come together.
CONSTANTS
  w1 = w1
  w2 = w2
  w3 = w3
  Workers = {w1, w2, w3}
  Term = 4
  MaxSkew = 2
  Overtime = TRUE
SPECIFICATION FairSpec
INVARIANTS TypeOK KeepsItsKey
PROPERTIES ImplementsMutex KeyGoes
