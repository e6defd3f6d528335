CONSTANTS
  Threads = {"loop1", "loop2"}
  Names = {"a.com", "A.com", "b.com"}
  Key <- MCKey
  MaxCalls = 3
  Days = {0, 1, 12, 13}
SPECIFICATION CertSpec
INVARIANT ServedIsValid
CHECK_DEADLOCK FALSE
