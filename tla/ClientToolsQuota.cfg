\* Expected violation: a tool run that was parked for quota asks for its next call.
SPECIFICATION Spec
CONSTANTS
  MAX_CALLS = 2
  ArgRetries = 1
  Reminders = 1
  MaxWaits = 1
  MaxId = 3
INVARIANTS QuotaWaitGoesOn
