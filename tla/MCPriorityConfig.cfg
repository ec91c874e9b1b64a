\* Every configuration of up to three rules.
SPECIFICATION Spec
CONSTANTS
  MinPrio <- MCMinPrio
  MaxPrio <- MCMaxPrio
  MaxRules = 3
INVARIANTS TypeOK ResolvesAsDocumented
CHECK_DEADLOCK FALSE
