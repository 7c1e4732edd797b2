CONSTANTS
  MaxNumbered = 4
  MaxIndex = 4
  Base = 1
SPECIFICATION OrderSpec
 
PROPERTIES  OthersStayInOrder
