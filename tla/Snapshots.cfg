\* A short snapshot name and a long one that is cut to it; snapshots with
\* memory, of the disk of an active machine and of an inactive machine.
CONSTANTS
  short = short
  long = long
  SnapNames <- MCSnapNames
  Cut <- MCCut
  NoSnap = nosnap
  Kinds = {"disk", "running", "shutoff"}
SPECIFICATION Spec
INVARIANTS
  TypeOK
  ListFresh
PROPERTIES
  KeepsSnapshots
  RowIsSafe
  HandlersReturn
