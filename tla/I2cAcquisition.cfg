SPECIFICATION FairSpec
CONSTANTS
  MaxSample = 3
  MaxNacks = 2
PROPERTIES
  ImplementsAcquire
  AcquisitionEnds
