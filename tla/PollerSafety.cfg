SPECIFICATION Spec
CONSTANTS
  chan0 = chan0
  chan1 = chan1
  chan2 = chan2
  chan2b = chan2b
  Channels = {chan0, chan1, chan2, chan2b}
  FdOf <- MCFdOf
  Reports <- MCReports
INVARIANTS IndexCoherent PolledAsAsked DispatchValid
PROPERTY ActsAsMap
