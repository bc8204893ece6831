SPECIFICATION Spec
CONSTANTS
  Clients = {c1, c2}
  Seeder = seeder
  Names = {n1}
  u1 = u1
  u2 = u2
  n1 = n1
  Urls = {u1, u2}
  Seeds <- TwoSeeds
  NoRow = NoRow
  MaxIds = 3
  MaxCalls = 3
  MaxSeeds = 2
  MaxFaults = 1
SYMMETRY ClientSymmetry
INVARIANTS TypeOK OneSourcePerUrl SeedIsIdempotent
PROPERTIES OnlyOverlapsUndo
CHECK_DEADLOCK FALSE
