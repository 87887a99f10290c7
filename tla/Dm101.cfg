SPECIFICATION DFairSpec
CONSTANTS
  FifoSize = 5
  PayloadLen = 1
PROPERTIES PutReturns ReportsData Resyncs SilentDropped
