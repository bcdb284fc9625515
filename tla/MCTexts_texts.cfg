\* Configurations of two lines in a buffer that holds anything, and command
\* lines of up to six words.
SPECIFICATION Spec
CONSTANTS
  NULL = NULL
  Transformations <- Names
  Files <- FileNames
  Atoi <- AtoiOf
  Itoa <- ItoaOf
  Configs <- SmallConfigs
  Intents <- SmallIntents
  Inputs <- AllInputs
INVARIANTS ConfigUnderstood RequestComplete RequestUnderstood
CHECK_DEADLOCK FALSE
