\* Two compilers, one module beside the entry file, room for one entry.
SPECIFICATION Spec
CONSTANTS
  Procs = {p1, p2}
  EntryFile = main
  Mods = {mod}
  Contents = {c1, c2, c3}
  None = None
  Torn = Torn
  MaxEntries = 1
  MaxEdits = 2
  MaxCrashes = 1
INVARIANTS WholeEntries QuietHit PruneBounds
SYMMETRY Symmetry
