SPECIFICATION Spec
CONSTANTS
  a = a
  b = b
  d = d
  l1 = l1
  Approvers = {a, b, d}
  FirstLine <- MCFirstLine
  Lines = {l1}
  MaxVersion = 3
  LineSteps <- MCLineSteps
  LongestLine = 2
  Calls = {c1, c2}
  None = None
SYMMETRY CallSymmetry
INVARIANTS RequiredFollowupIsMade ClickDecidesItsStep PreviewedLineIsConnected QuietRequestIsReported
PROPERTIES IsARequest
