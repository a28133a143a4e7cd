\* One container and two operations at a time: an operation that outlived its
\* call meets the next one on the same container.
CONSTANTS
  Names = {c1}
  NoName = noname
  MaxOps = 2
SPECIFICATION Spec
INVARIANTS
  TypeOK
  SuccessIsSettled
  Contract
PROPERTIES
  CallsReturn
  ServesMachines
