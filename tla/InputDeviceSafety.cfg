SPECIFICATION Spec
CONSTANTS
  Descriptors <- MCDescriptors
  Fallback <- MCFallback
  Values <- MCValues
  MaxDescriptor = 15
INVARIANTS
  StripsDigitizers
  KeysRelease
CHECK_DEADLOCK FALSE
