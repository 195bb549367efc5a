SPECIFICATION RampSpec
CONSTANTS
  W = 8
  MaxCount = 3
  Stamps <- MCStamps
  Eras = {0, 1}
  Rates <- MCRates
  MaxSamples = 4
INVARIANTS RampTypeOK NoDrift AlarmIsDue
CHECK_DEADLOCK FALSE
