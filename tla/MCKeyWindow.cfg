SPECIFICATION Spec
CONSTANTS
  s1 = s1
  s2 = s2
  Slots <- MCSlots
  Window = 1
  Rpm = 3
  Tpm = 4
  Daily = 3
  Tokens <- MCTokens
  MaxNow = 3
  MaxDay = 1
  MaxLog = 5
INVARIANTS TypeOK RpmOvershoot
PROPERTIES VerdictsFromHistory
