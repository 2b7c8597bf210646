SPECIFICATION HelperSpec
CONSTANTS
  w1 = w1
  w2 = w2
  w3 = w3
  w4 = w4
  p1 = p1
  p2 = p2
  Writer <- FourWriters
  Pid = {p1, p2}
  PidOf <- TwoEach
  Threaded = {}
  Prior = Prior
  None = None
  Member = {child, assistant, daemon}
  Leader = child
  MaxInterrupts = 2
INVARIANTS
  OutcomeIsTrue
PROPERTIES
  ImplementsRegister
  CancelledCallEnds
CHECK_DEADLOCK FALSE
