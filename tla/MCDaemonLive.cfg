\* One device at a time: a start waits for the goroutine of the last one.
SPECIFICATION FairSpec
CONSTANTS
  Devs = {d1}
  None = None
INVARIANT NeverStuck
PROPERTIES
  StaleDevicesGo
  ExitsOnSignal
  YieldsToKey
  ComesBack
