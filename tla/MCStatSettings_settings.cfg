CONSTANTS
  HandIds = {1, 2, 3}
  VersionsOf <- MCVersionsOf
  Known = {"sng", "ring"}
  Tables = {"hu", "3p", "full"}
  Layers <- MCLayers
  Latest = 2
  Unknown = Unknown
  NotStored = NotStored
  Absent = Absent
  All = All
  BattlesOf <- MCBattlesOf
  Stats <- MCStats
  Forced = {"vpip"}
  Positions = {"SB", "BB", Unknown}
  Offered = {1, All}
  OldOptions <- MCOldOptions
  MaxChanges = 2
  MaxStarts = 2
  MaxOpens = 1
SPECIFICATION MCSpec
VIEW MCView
INVARIANT HudCountsTheChosenHands
CHECK_DEADLOCK FALSE
