SPECIFICATION FairSpec
CONSTANTS
  m1 = m1
  m2 = m2
  Manager = {m1, m2}
  BackoffLimit = 2
  MaxAttempts = 3
  Setups <- SomeSetups
  MaxFaults = 1
CHECK_DEADLOCK FALSE
INVARIANTS TypeOK OneTaskPerActID ReadyIsPublished NoLostWakeup
PROPERTY Settles
