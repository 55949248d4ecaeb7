---------------------------- MODULE MCStatusCode ----------------------------
(* Model-checking instance of StatusCode.                                  *)
EXTENDS StatusCode

\* Codes the backend returns: every two-field code, and the -1 the clients
\* use as "no result" sentinel.
MCCodes == {-1} \cup 0..255

\* Codes that are not two 4-bit fields: negative multiples of 16 and
\* integers above 255 whose low byte is a success code.
MCMalformedCodes == {-32, -16, -1} \cup 0..31 \cup 256..272

MCMessages == {"", "msg"}
=============================================================================
