\* main(): one productor, one customer.
SPECIFICATION FairSpec
CONSTANTS
  Productors = {p1}
  Customers = {c1}
  Capacity = 2
  MsgCount = 3
PROPERTIES
  CustomersFinish
CHECK_DEADLOCK FALSE
