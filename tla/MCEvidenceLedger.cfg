CONSTANTS
  h1 = h1
  h2 = h2
  p1 = p1
  p2 = p2
  Genesis = Genesis
  Headers = {h1}
  Payloads = {p1, p2}
  MaxRecords = 3
  MaxDamages = 2
SPECIFICATION Spec
INVARIANTS
  TypeOK
  VerifyIsExact
  RestoredIsOriginal
  SoundExportsRestore
