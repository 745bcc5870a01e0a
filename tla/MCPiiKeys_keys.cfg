SPECIFICATION PiiSpec
CONSTANTS
  Cell = {"draft", "name"}
  Text = {"text1", "text2"}
  Worker = {"worker1", "worker2"}
  Later = 5
  Down = 1
INVARIANT RowsStayReadable
CHECK_DEADLOCK FALSE
