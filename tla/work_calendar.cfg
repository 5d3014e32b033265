SPECIFICATION CalendarSpec
CONSTANTS
  Bookings = {b1, b2}
  Clerks = {c1, c2}
  LastDay = 2
  NoBooking = NoBooking
SYMMETRY Symmetry
CHECK_DEADLOCK FALSE
INVARIANTS
  CalendarInv
PROPERTIES
  CalendarSteps
