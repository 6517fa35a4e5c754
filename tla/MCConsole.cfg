CONSTANTS
  EventId = {1, 2, 3, 4, 5, 6, 7, 8, 9, 10, 11}
  Event <- MCEvent
  Source = {"tracker", "weather", "decider"}
  Key = {"track1", "track2", "env", "avoid", "hold"}
  MaxEntities = 2
  MaxCritical = 1
  Feed = {1, 2, 3, 4, 5, 6, 7}
  Recorded <- MCRecorded
  Snapshots <- MCSnapshots
  Cursors = {0}
  MaxDelivered = 4
  MaxSent = 1
SPECIFICATION ConsoleSpec
INVARIANTS
  ShowsNewest
  SeekMatchesStepping
PROPERTY
  CommandsSeeWholeView
CHECK_DEADLOCK FALSE
