CONSTANTS
  c1 = c1
  c2 = c2
  Clusters = {c1, c2}
  Preference <- Balanced
  TemplateReplicas = 1
  Room <- TightRoom
  Announces = TRUE
  Budgets <- Changes
SPECIFICATION FairSpec
INVARIANT TypeOK
INVARIANT PairedAtRest
INVARIANT AgreesAtRest
PROPERTY Settles
CHECK_DEADLOCK FALSE
