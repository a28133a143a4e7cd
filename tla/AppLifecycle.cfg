\* Two intervals; by hand, one of zero and one whose milliseconds exceed an int (of
\* 17 bits here); a process that is activated up to three times.
CONSTANTS
  Seconds = {3, 60}
  HandWritten = {0, 100}
  Half = 65536
  Default = 3000
  NoFile = nofile
  MaxActivations = 3
SPECIFICATION Spec
INVARIANTS
  TypeOK
  TimerFollowsSettings
  NoStrayTimer
  SettingsAreStored
  SaneUnlessEdited
  CpuFigureIsRecent
PROPERTIES
  DashCatchesUp
