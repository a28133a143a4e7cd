\* Two containers; two creations leave two timers of each kind.
CONSTANTS
  Names = {c1, c2}
  NoName = noname
  MaxTimers = 2
SPECIFICATION Spec
INVARIANTS
  TypeOK
  CountersAgree
  ClickIsLegal
  RowIsPending
PROPERTIES
  CreatedAppears
