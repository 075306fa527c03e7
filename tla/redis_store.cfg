SPECIFICATION FairSpec
CONSTANTS
  Absent = Absent
  Calls = {c1, c2}
  Requests <- MCRequests
  Retries <- MCRetries
  Exhausted = 2
  MaxLate = 2
  Faults <- MCFaults
INVARIANTS
  TypeOK
  ReadsItsOwn
  NilMeansStored
  
PROPERTY CallsEnd
CHECK_DEADLOCK FALSE
