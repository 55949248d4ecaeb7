----------------------------- MODULE StatusCode -----------------------------
(***************************************************************************)
(* The status-code protocol of the Panbox command-line client              *)
(* (cli/panboxcli.py): every mutating remote call returns an integer that  *)
(* packs a 4-bit component field and a 4-bit outcome field, and the CLI    *)
(* decodes it and reports it with one of two policies.                     *)
(*                                                                         *)
(* A state is the report printed for the last code the CLI received:       *)
(* code is that integer, out the lines printed for it.  Each step is one   *)
(* CLI command reaching its reporting call.  Wording and colour escape     *)
(* sequences are abstracted to a colour and the two decoded labels.        *)
(***************************************************************************)
EXTENDS Integers, Sequences, Bitwise

CONSTANTS
  Codes,       \* integers a remote call may return
  Messages     \* caller-supplied success/failure messages, "" included

ASSUME Codes \subseteq Int /\ "" \in Messages

VARIABLES
  code,        \* the last integer handed to a reporting function
  out          \* the lines printed for it

vars == <<code, out>>

\* Component code constants (panboxcli.py 50-61); 0b1011 and 0b1101..0b1111
\* have no name.
Components == [GENERAL |-> 0, SHAREMANAGER |-> 1, IDENTITYMANAGER |-> 2,
               DBUS |-> 3, VFS |-> 4, CRYPTO |-> 5, GUI |-> 6,
               DEVICEMANAGER |-> 7, KEYMANAGER |-> 8, PAIRING |-> 9,
               CLI |-> 10, ADDRESSBOOKMANAGER |-> 12]

\* Outcome ("status") code constants (panboxcli.py 64-76).
Statuses == [OK |-> 0, ILLEGALARGUMENT |-> 1, UNKNOWN |-> 2,
             DEVICEEXISTS |-> 3, SQLERROR |-> 4, SHAREEXISTS |-> 5,
             UNRECOVERABLEKEY |-> 6, SEQUENCENUMBER |-> 7,
             SHAREMETADATA |-> 8, SHARENOTEXISTS |-> 9, CONTACTEXISTS |-> 10,
             IOERROR |-> 11, PINVERIFICATIONFAILED |-> 12]

\* Faulty variant of buildcode: the component shifted by a byte.
buildcode_shift8(component_id, c) == component_id * 256 + c

\* buildcode: component_id << 4, plus code (no masking of either argument).
buildcode(component_id, c) == component_id * 16 + c

\* The name whose constant equals v, or "" when none does (the chains of
\* ifs in component_name and status_name).
NameOf(table, v) ==
  IF \E n \in DOMAIN table : table[n] = v
  THEN CHOOSE n \in DOMAIN table : table[n] = v
  ELSE ""

component_name(component_code_) == NameOf(Components, component_code_)

status_name(status_code_) == NameOf(Statuses, status_code_)

\* Faulty variant of component_code: the shift forgotten.
component_code_unshifted(c) == c % 16

\* Python's >> is floor division by a power of two and & 0b1111 keeps the
\* residue modulo 16, also for negative integers.
component_code(c) == (c \div 16) % 16

status_code(c) == c % 16

\* Faulty variant of is_error: the whole code compared with OK, the slip
\* line 199 makes.
is_error_unmasked(c) == c # Statuses.OK

is_error(c) == status_code(c) # Statuses.OK

\* Printed lines: a colour, whether it is the bracketed diagnostic, the two
\* labels of a diagnostic, and the caller message of a plain line.
Line(colour, diag, stat, comp, msg) ==
  [colour |-> colour, diag |-> diag, stat |-> stat, comp |-> comp, msg |-> msg]

print_message(m) == <<Line("green", FALSE, "", "", m)>>

print_error_message(m) == <<Line("red", FALSE, "", "", m)>>

\* print_error: the guard "status_code != OK" of line 199 compares the
\* function object status_code with 0 and is therefore always true; the
\* diagnostic is printed for every code it is given.
print_error(c, m) ==
  <<Line("red", TRUE, status_name(status_code(c)),
         component_name(component_code(c)), "")>>
  \o (IF m # "" THEN print_error_message(m) ELSE <<>>)

\* The detailed reporting policy.
print_status_code(c, ms, mf) ==
  /\ code' = c
  /\ out' = IF is_error(c) THEN print_error(c, mf) ELSE print_message(ms)

\* The plain reporting policy.
print_status(c, ms, mf) ==
  /\ code' = c
  /\ out' = IF is_error(c) THEN print_error_message(mf) ELSE print_message(ms)

\* add_share with a share path that is not a directory: the CLI builds its
\* own error code and reports it through print_error.
AddShareBadPath(m) ==
  /\ code' = buildcode(Components.CLI, Statuses.SHARENOTEXISTS)
  /\ out' = print_error(code', m)

Init ==
  /\ code = 0
  /\ out = <<>>

Next ==
  \/ \E c \in Codes, ms, mf \in Messages : print_status_code(c, ms, mf)
  \/ \E c \in Codes, ms, mf \in Messages : print_status(c, ms, mf)
  \/ \E m \in Messages \ {""} : AddShareBadPath(m)

Spec == Init /\ [][Next]_vars

-----------------------------------------------------------------------------
(* Properties                                                               *)

LineType == [colour : {"red", "green"}, diag : BOOLEAN,
             stat : DOMAIN Statuses \cup {""},
             comp : DOMAIN Components \cup {""}, msg : Messages]

\* Every code the CLI handles is two 4-bit fields or the -1 sentinel.
TypeOK ==
  /\ code \in {-1} \cup 0..255
  /\ out \in Seq(LineType)

\* The codes of a well-formed successful result: any component, outcome OK.
OkCodes == {buildcode(c, Statuses.OK) : c \in 0..15}

\* A report printed in green (success) is given only for a code whose outcome
\* field is OK, and a code whose outcome is OK is never reported in red; this
\* is about is_error's decoding in both print_status_code and print_status,
\* and, since print_error's own guard is vacuous (line 199), about every
\* caller of print_error passing it error codes only.
SuccessIffOkCode ==
  out # <<>> =>
    ((out[1].colour = "green") <=> code \in OkCodes)

\* Reference decoding of the two 4-bit fields with the bit operators of the
\* Bitwise module, on the 16-bit two's complement of the code.
TwosComplement(c) == IF c >= 0 THEN c ELSE c + 2^16
RefComponent(c) == shiftR(TwosComplement(c), 4) & 15
RefStatus(c) == TwosComplement(c) & 15

\* The bracketed diagnostic of print_error names exactly the component and
\* outcome fields of the code it reports (component_code / status_code
\* against the bit-level reference), with "" only for unnamed values.
DiagnosticNamesFields ==
  \A k \in DOMAIN out :
    out[k].diag =>
      /\ out[k].comp = component_name(RefComponent(code))
      /\ out[k].stat = status_name(RefStatus(code))

\* What the spec (section 7) says of the codec: it never silently succeeds on
\* malformed input, i.e. a code that is not two 4-bit fields is not
\* reported as a success.
NoSilentSuccessOnMalformedCode ==
  (out # <<>> /\ out[1].colour = "green") => code \in 0..255
=============================================================================
