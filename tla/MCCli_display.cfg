CONSTANTS
  NaN = NaN
  Flag = Flag
  c1 = c1
  c2 = c2
  c3 = c3
  v1 = v1
  Other = Other
  s1 = s1
  s2 = s2
  csp = csp
  d1 = d1
  p0 = p0
  f1 = f1
  RestoreArgTails <- MCRestoreArgTails
  Passwords <- MCPasswords
  ProcTables <- MCProcTables
  Dirs = {d1}
  RemoveArgTails <- MCRemoveArgTails
  AddArgTails <- MCAddArgTails
  ShareLists <- MCShareLists
  ShareAnswers <- MCShareAnswers
  NoCode = NoCode
  Vcards = {v1}
  ContactLists <- MCContactLists
  VcardLists <- MCVcardListsFrom1
  Inputs <- MCInputs
  Codes <- MCCodes
  Messages <- MCMessages
  ArgTails <- MCArgTails
  Answers <- MCAnswers
SPECIFICATION Spec
\* The CLI process ends: final states have no successor.
CHECK_DEADLOCK FALSE
INVARIANT SelectionMatchesDisplay
