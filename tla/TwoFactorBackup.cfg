SPECIFICATION Spec
CONSTANTS
  Requests = {"q1", "q2"}
  MaxSecrets = 2
  MaxAttempts = 1
PROPERTIES BackupCodesServe
CHECK_DEADLOCK FALSE
