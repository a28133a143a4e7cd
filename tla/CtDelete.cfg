\* CtManager's constants (see CtManager.cfg), one statement.
CONSTANTS
  Names = {c1}
  NoName = noname
  MaxOps = 2
SPECIFICATION Spec
INVARIANT DeletedMeansGone
