SPECIFICATION BodySpec
CONSTANTS
  Absent = Absent
  Null = Null
  Limits <- MCLimits
  Nulls = {Absent}
  Spelled <- SpelledLimits
  MaxOutputs = {0, 1}
  GuestLimit = 2
  Prompts <- OnePrompt
  ImageTokens = 3
  PromptOverhead = 1
INVARIANT CapIsEnforced
CHECK_DEADLOCK FALSE
