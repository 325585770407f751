INIT SessionInit
NEXT SessionNext
CONSTANTS
  Jobs <- MCJobs
  Answer <- MCAnswer
  Addresses <- MCAddresses
  Pieces = {1, 2, 3, 60}
INVARIANT BerResumes OerResumes PerRoundTrip
  ConfigReadWhole
CHECK_DEADLOCK FALSE
