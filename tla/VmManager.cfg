\* One name; two identities, so that a domain can be deleted and its name
\* defined again, by another client, while a call holds the old handle.
CONSTANTS
  Names = {vm1}
  ValidNames = {vm1}
  NoName = noname
  MaxId = 2
SPECIFICATION Spec
INVARIANTS
  TypeOK
  DefinedVmHasDisk
  DeleteContract
  CreateContract
PROPERTIES
  CallsReturn
  ServesMachines
