SPECIFICATION ModeSpec
CONSTANTS
  Networks = {n1, n2}
  Absent = {a1}
  NoNetwork = none
  LIMIT = 3
PROPERTIES ModeIsJustified ModeSettles
