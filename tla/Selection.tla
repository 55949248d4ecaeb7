------------------------------ MODULE Selection ------------------------------
(***************************************************************************)
(* What the ID-range selection of the Panbox CLI promises, in one step:    *)
(* given the listed items and the tokens of the user's input, it either    *)
(* returns the identifiers the tokens denote, or ends the process (exit()  *)
(* on an interval bound out of range, a ValueError on text that is not an  *)
(* integer).  The token loop of get_ids (RangeSelector) implements it.     *)
(*                                                                         *)
(* A token is the list of parts that s.split("-") gives: one part when the *)
(* token has no "-", each part an index or NaN for text int() rejects.     *)
(***************************************************************************)
EXTENDS Integers, Sequences, SequencesExt

CONSTANTS
  NaN,         \* a part that is not an integer ("", "x", ...)
  ItemLists,   \* the lists (of identifiers) a listing call may return
  Inputs       \* the token sequences the user's input may split into

VARIABLES
  items,       \* identifiers in display order; position k-1 is index k
  tokens,      \* the input, split on "," and then on "-"
  result,      \* the identifiers returned
  outcome      \* "pending", "done", "exit" or "raise"

avars == <<items, tokens, result, outcome>>

Ints(tok) == \A k \in DOMAIN tok : tok[k] # NaN
Lo(tok) == IF tok[1] <= tok[2] THEN tok[1] ELSE tok[2]
Hi(tok) == IF tok[1] <= tok[2] THEN tok[2] ELSE tok[1]

\* How one token ends the selection, or "ok" when it does not.
TokenFailure(tok, n) ==
  CASE ~Ints(tok) /\ Len(tok) <= 2 -> "raise"
    [] Len(tok) = 2 /\ Ints(tok) /\ Hi(tok) >= n -> "exit"
    [] OTHER                                     -> "ok"

\* The indices one accepted token denotes: a single index when it is in
\* bounds, every index of an interval in ascending order, nothing for a
\* token with several "-".
TokenIndices(tok, n) ==
  CASE Len(tok) = 1 -> IF tok[1] < n THEN <<tok[1]>> ELSE <<>>
    [] Len(tok) = 2 -> [k \in 1..(Hi(tok) - Lo(tok) + 1) |-> Lo(tok) + k - 1]
    [] OTHER        -> <<>>

\* The first failing token decides the outcome.
SelectOutcome(toks, its) ==
  LET bad == {k \in DOMAIN toks : TokenFailure(toks[k], Len(its)) # "ok"}
  IN  IF bad = {} THEN "done"
      ELSE TokenFailure(toks[CHOOSE k \in bad : \A j \in bad : k <= j], Len(its))

SelectIds(toks, its) ==
  FlattenSeq([k \in DOMAIN toks |->
                LET idx == TokenIndices(toks[k], Len(its))
                IN  [j \in DOMAIN idx |-> its[idx[j] + 1]]])

Init ==
  /\ items \in ItemLists
  /\ tokens \in Inputs
  /\ result = <<>>
  /\ outcome = "pending"

Select ==
  /\ outcome = "pending"
  /\ outcome' = SelectOutcome(tokens, items)
  /\ result' = IF outcome' = "done" THEN SelectIds(tokens, items) ELSE <<>>
  /\ UNCHANGED <<items, tokens>>

Spec == Init /\ [][Select]_avars
=============================================================================
