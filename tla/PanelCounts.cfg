\* VmPanel's constants (see VmPanel.cfg), one statement.
CONSTANTS
  Names = {vm1, vm2}
  ValidNames = {vm1}
  NoName = noname
  Faults = TRUE
  Filters = {"all", "stopped"}
  Patterns = {{vm1, vm2}, {vm1}}
  Active = {"running", "paused"}
SPECIFICATION Spec
INVARIANT CountsFresh
