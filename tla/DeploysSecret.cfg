CONSTANTS
  None = None
  MaxChanges = 1
  MaxMishaps = 0
SPECIFICATION Spec
PROPERTIES SecretsArrive
CHECK_DEADLOCK FALSE
