\* VmPanel's constants (see VmPanel.cfg), one statement.
CONSTANTS
  Names = {vm1, vm2}
  ValidNames = {vm1}
  NoName = noname
  Faults = FALSE
  Filters = {"all", "stopped"}
  Patterns = {{vm1, vm2}, {vm1}}
  Active = {"running", "paused"}
SPECIFICATION Spec
PROPERTY DashShowsReal
