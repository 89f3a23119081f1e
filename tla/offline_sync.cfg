SPECIFICATION FairSpec
CONSTANTS
  Captures = 2
  Devices = {phone}
  Days = {monday}
  Texts = {blinding}
  Pushes = {p1, p2}
  Drains = {d1, d2}
  phone = phone
  monday = monday
  blinding = blinding
  NoDiary = NoDiary
  Clean = Clean
  NoCrew = NoCrew
  NoDrain = NoDrain
  Author <- MCAuthor
  OpType <- MCOpType
  DayOf <- MCDayOf
  Says <- MCSays
  PhoneOf <- MCPhoneOf
  Valid <- MCValid
INVARIANTS
  NothingLost
  NothingWrittenTwice
  RefusalIsTrue
  NeverWedged
PROPERTIES
  ImplementsLedger
  EveryCaptureSettles
CHECK_DEADLOCK FALSE
