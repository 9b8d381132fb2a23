SPECIFICATION FairSpec
CONSTANTS
  b1 = b1
  s1 = s1
  Buttons <- OneButton
  ENCODER_WRAP = 4
  Starts = {0, 2}
  Positions <- OnePosition
  Knob = {0, 1}
  Pads <- TwoPads
  Pressures <- FourPressures
  PadReports <- ShortReports
  pad_off_threshold = 0
  pad_on_threshold = 2
  pad_pressure_step = 2
  RawCap = 1
  EventCap = 1
  MaxReports = 2
CHECK_DEADLOCK FALSE
INVARIANT
  EveryReleaseReported
