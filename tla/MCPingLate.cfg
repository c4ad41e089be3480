SPECIFICATION Spec
CONSTANTS
  Count = 3
  SequenceModulus = 4
  MaxDuplicates = 1
INVARIANT
  PromptRepliesCount
