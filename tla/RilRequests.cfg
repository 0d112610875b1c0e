CONSTANTS
  s1 = s1
  s2 = s2
  s3 = s3
  a1 = a1
  a2 = a2
  v1 = v1
  v2 = v2
  Serials = {s1, s2, s3}
  Addresses = {a1, a2}
  Vendor = {v1, v2}
  Version13 = TRUE
  StaleRepeats = FALSE
SPECIFICATION Spec
INVARIANT AnswerIsForItsRequest
PROPERTY RequestService
CHECK_DEADLOCK FALSE
