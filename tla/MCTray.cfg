CONSTANTS
  mp = mp
  nopath = nopath
  m1 = m1
  m2 = m2
  Msgs = {m1, m2}
  MountPoint <- mp
  NoPath <- nopath
  Opts <- MCOpts
  GtkOpt <- MCGtkOpt
  AppindicatorOpt <- MCAppindicatorOpt
  Indicators = {TRUE, FALSE}
  DefaultLocales <- MCDefaultLocales
  BackendLocales <- MCBackendLocales
  Translated <- MCTranslated
SPECIFICATION Spec
INVARIANT TypeOK
PROPERTIES
  CallbacksReturn
  NotificationsShown
