CONSTANTS
  phone1 = phone1
  phone2 = phone2
  phone3 = phone3
  Phones = {phone1, phone2}
  Others = {phone3}
  CallIds = {c1, c2}
  StrayIds = {c2}
  Dials <- Forth
  BesideStray = {}
  NoCall = NoCall
  MaxTroubles = 1
  MaxNews = 1
  MaxCopies = 0
  MaxBreaks = 1
SPECIFICATION SettleSpec
INVARIANTS
  OneTransport
  MediaAfterAnswer
PROPERTIES
  SettingUpEnds
  InviteSettles
  AnswerConnects
CHECK_DEADLOCK FALSE
