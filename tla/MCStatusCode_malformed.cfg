CONSTANTS
  Codes <- MCMalformedCodes
  Messages <- MCMessages
SPECIFICATION Spec
INVARIANT NoSilentSuccessOnMalformedCode
