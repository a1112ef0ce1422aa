SPECIFICATION Spec
CONSTANTS
  s1 = s1
  s2 = s2
  Slots <- MCSlots
  Window = 1
  Rpm = 2
  Tpm = 4
  Daily = 4
  Tokens <- MCTokens
  MaxNow = 3
  MaxDay = 1
  MaxLog = 4
INVARIANTS RpmHonoured
