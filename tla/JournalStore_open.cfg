CONSTANTS
  Openers = {p1, p2}
  Worlds <- MCWorlds
SPECIFICATION Spec
INVARIANTS
  HealthyNeverCondemned
  DamageIsReported
  AnswersAreTrue
  HistoryIsHonest
CHECK_DEADLOCK FALSE
