CONSTANTS
  Threads = {t1, t2}
  MaxConsecutiveLosses = 2
  Cooldown = 1
  MaxTime = 2
  MaxCounter = 3
  Serialized = TRUE
SPECIFICATION Spec
INVARIANT StreakTrips
PROPERTY CooldownHonoured
