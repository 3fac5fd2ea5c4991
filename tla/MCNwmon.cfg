SPECIFICATION NwmonSpec
CONSTANTS
  OrdersPS = 3
  OrdersPD = 5
  DaysPerMonth = 2
  MaxSecond = 4
  MaxLost = 2
CHECK_DEADLOCK FALSE
INVARIANTS NwmonTypeOK SecondLimitKept DayLimitKept WrongRefusalIsMonthOld
