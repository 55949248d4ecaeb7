CONSTANTS
  Codes <- MCCodes
  Messages <- MCMessages
SPECIFICATION Spec
INVARIANTS
  TypeOK
  SuccessIffOkCode
  DiagnosticNamesFields
