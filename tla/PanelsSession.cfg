SPECIFICATION Spec
CHECK_DEADLOCK FALSE
CONSTANTS
  Texts <- MCTexts
  Subdirs <- MCSubdirs
  Listings <- MixedListings
  VisLines = 2
  PageStep = 2
  MaxSel = 1
  Env = {"tab", "select", "chdir", "view", "blind", "batch"}
INVARIANTS
  TypeOK
  ViewInside
PROPERTIES
  ScreenCurrent
  FirstKeyActs
