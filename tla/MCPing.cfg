SPECIFICATION FairSpec
CONSTANTS
  Count = 3
  SequenceModulus = 4
  MaxDuplicates = 1
INVARIANTS
  TypeOK
  MeasuresOwnReply
  ExactUntilStray
PROPERTIES
  Ends
