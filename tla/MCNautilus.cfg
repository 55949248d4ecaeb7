CONSTANTS
  none = none
  None <- none
  Scheme <- MCScheme
  PANBOX_FOLDER <- MCPanboxFolder
  MountPoints <- MCMountPoints
  Entries <- MCEntries
  Selections <- MCSelections
  Types <- MCTypes
  BackendLocales = {"system_default", "en"}
  DefaultLocales = {"de"}
  Translated = {"de", "en"}
SPECIFICATION Spec
INVARIANTS
  TypeOK
  BackgroundMenuMatchesFolder
PROPERTY RequestsComplete
