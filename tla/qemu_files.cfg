SPECIFICATION GuestSpec
CONSTANTS
  a = a
  b = b
  c = c
  unnamed = unnamed
  Vm = {a, b, c}
  Name = {a, unnamed}
  guest <- Guests
  Shares = {50}
  Powers = {2}
  cleaner_step = 15
  MaxRefreshes = 6
  MaxRestarts = 1
  reader = a
  MaxReadings = 2
SYMMETRY Unnamed
INVARIANTS
  TypeOK
  NoOverCount
  PanicsOnlyIfInterrupted
  GuestNotOvercharged
PROPERTIES
  MetersSpec
CHECK_DEADLOCK FALSE
