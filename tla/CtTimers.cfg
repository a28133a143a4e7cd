\* The timers that creating a container starts are not one-shot.
CONSTANTS
  Names = {c1}
  NoName = noname
  MaxTimers = 1
SPECIFICATION Spec
PROPERTY
  OneShot
