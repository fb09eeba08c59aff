CONSTANTS
  phone1 = phone1
  phone2 = phone2
  phone3 = phone3
  screen = screen
  again = again
  MaxOpenings = 2
  Users = {screen, task, again}
  MaxWorks = 1
  Phones = {phone1, phone2}
  Others = {phone3}
  CallIds = {c1, c2}
  StrayIds = {c2}
  Dials <- Forth
  BesideStray <- Beside
  NoCall = NoCall
  MaxTroubles = 1
  Members = {1, 2, 3}
  Host = 2
  InOrder = FALSE
  MaxLost = 0
SPECIFICATION GroupOnlySpec
INVARIANTS
  ReadyTogether
CHECK_DEADLOCK FALSE
