SPECIFICATION ServerSpec
CONSTANTS
  Captures = 4
  Devices = {phoneA, phoneB}
  Days = {monday}
  Texts = {blinding, rebar, formwork, rain, wind}
  Pushes = {p1, p2}
  phoneA = phoneA
  phoneB = phoneB
  monday = monday
  blinding = blinding
  rebar = rebar
  formwork = formwork
  rain = rain
  wind = wind
  NoDiary = NoDiary
  Clean = Clean
  NoCrew = NoCrew
  Author <- MCAuthor
  OpType <- MCOpType
  DayOf <- MCDayOf
  Says <- MCSays
  Valid <- MCValid
INVARIANTS
  CrewHasDiary
PROPERTIES
  OutcomeIsFinal
  WorkDoneStands
  ReadingsSurviveInTurn
CHECK_DEADLOCK FALSE
