-------------------------------- MODULE MCCli --------------------------------
(* Model-checking instance of Cli.                                *)
EXTENDS Cli

CONSTANTS c1, c2, c3, v1, Other, s1, s2, csp, d1, p0, f1

\* getContacts(): up to three contacts with distinct identifiers.
MCContactLists == {<<>>, <<c1>>, <<c1, c2>>, <<c1, c2, c3>>}

\* getContacts(vcard) when the backend numbers the vCard's entries from 0,
\* and when it numbers them from 1.
MCVcardListsFrom0 == {<<>>, <<0>>, <<0, 1>>}
MCVcardListsFrom1 == {<<1>>, <<1, 2>>}

\* Token parts: indices 0..3 and text int() rejects; inputs of up to two
\* tokens (see MCRangeSelector).
MCParts == 0..3 \cup {NaN}
MCTokens ==
  {<<p>> : p \in MCParts}
  \cup {<<p, q>> : p, q \in MCParts}
  \cup {<<p, q, r>> : p, q, r \in {0, NaN}}
MCInputs == SeqOf(MCTokens, 2) \ {<<>>}

\* A success, a failed PIN verification
\* (buildcode(IDENTITYMANAGER, PINVERIFICATIONFAILED) = 2 * 16 + 12) and an
\* existing contact (buildcode(ADDRESSBOOKMANAGER, CONTACTEXISTS) = 12 * 16 + 10).
MCCodes == {0, 2 * 16 + 12, 12 * 16 + 10}

MCMessages == {"", "success", "failure"}

\* -ii alone, with a vCard, with the flag on either side, and with an
\* option the code does not know (Other, e.g. "--noverify").
MCArgTails == {<<>>, <<v1>>, <<v1, Flag>>, <<Flag, v1>>, <<v1, Other>>}

MCAnswers == {"Y", "N", "n", ""}

\* -rs alone and with a share name; -as with name, csp and an existing
\* directory d1 or a missing path p0, and with an argument short.
MCRemoveArgTails == {<<>>, <<s1>>}
MCAddArgTails == {<<s1, csp, d1>>, <<s1, csp, p0>>, <<s1, csp>>}

\* getShares(): none, the share itself, another one.
MCShareLists == {<<>>, <<s1>>, <<s2>>}

\* A refusal, a confirmation, the empty answer and one the loops reject.
MCShareAnswers == {"n", "Y", "", "x"}

\* --restore alone, with a backup file, and with one argument too many.
MCRestoreArgTails == {<<>>, <<f1>>, <<f1, f1>>}

\* Two passwords, so that rounds match and mismatch.
MCPasswords == {"pa", "pb"}

\* Up to two other processes: none of the checked ones, or one of them.
MCProcLines == {{}} \cup {{n} : n \in PC!Checked}
MCProcTables == SeqOf(MCProcLines, 2)
=============================================================================
