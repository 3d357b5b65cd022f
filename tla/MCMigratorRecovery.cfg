SPECIFICATION Spec
CONSTANTS
  Runners = {r1}
  Ids <- MCIds
  Calls <- FewCalls
  Legacies <- NoLegacy
  MayCrash = FALSE
  None = None
PROPERTIES DocumentedRecoveryIsSound
