\* VmManager's constants (see VmManager.cfg), one statement.
CONSTANTS
  Names = {vm1}
  ValidNames = {vm1}
  NoName = noname
  MaxId = 2
SPECIFICATION Spec
PROPERTY CreateKeepsDisks
