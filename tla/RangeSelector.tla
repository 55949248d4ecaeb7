---------------------------- MODULE RangeSelector ----------------------------
(***************************************************************************)
(* get_ids of the Panbox CLI (cli/panboxcli.py 365-399), step by step:     *)
(* the loop over the comma-separated tokens of the user's input, and the   *)
(* inner while loop that appends every identifier of an interval.         *)
(* delete_contact (558-595) carries a copy of the same loop.               *)
(*                                                                         *)
(* The state starts after input.replace(" ", "").split(","): tokens holds  *)
(* each token split on "-" (see Selection for the encoding).  pc is the    *)
(* point of the function: "token" at the head of the for loop, "range"     *)
(* at the head of the while loop, "done" after return ret, "exit" after    *)
(* exit() (SystemExit) and "raise" after int() raised ValueError.          *)
(***************************************************************************)
EXTENDS Integers, SequencesExt

CONSTANTS
  NaN,
  ItemLists,
  Inputs

VARIABLES
  items,       \* data_mul_array, reduced to its identifiers
  tokens,      \* elems, each split on "-"
  i,           \* index of the current token s in elems
  a, b,        \* the interval bounds of the while loop
  ret,         \* identifiers appended so far
  pc

vars == <<items, tokens, i, a, b, ret, pc>>

Terminal == {"done", "exit", "raise"}

Tok == tokens[i]

\* The selection's starting state for a listed list and a typed input.
Start(list, input) ==
  /\ items = list
  /\ tokens = input
  /\ i = 1
  /\ a = 0
  /\ b = 0
  /\ ret = <<>>
  /\ pc = "token"

Init == \E list \in ItemLists, input \in Inputs : Start(list, input)

\* A caller entering get_ids: ret = [], then the input is read and split.
Begin(list, input) ==
  /\ items' = list
  /\ tokens' = input
  /\ i' = 1
  /\ a' = 0
  /\ b' = 0
  /\ ret' = <<>>
  /\ pc' = "token"

\* int(s) or int(interval[k]) on text that is not an integer: ValueError
\* leaves get_ids.  A token with more than two parts is never converted.
BadInt ==
  /\ pc = "token"
  /\ i <= Len(tokens)
  /\ Len(Tok) <= 2
  /\ \E k \in DOMAIN Tok : Tok[k] = NaN
  /\ pc' = "raise"
  /\ UNCHANGED <<items, tokens, i, a, b, ret>>

\* A token without "-": appended when it is below len(data_mul_array),
\* skipped silently otherwise.
SingleIndex ==
  /\ pc = "token"
  /\ i <= Len(tokens)
  /\ Len(Tok) = 1
  /\ Tok[1] # NaN
  /\ ret' = IF Tok[1] < Len(items) THEN Append(ret, items[Tok[1] + 1]) ELSE ret
  /\ i' = i + 1
  /\ UNCHANGED <<items, tokens, a, b, pc>>

\* Faulty variants of Interval: the bounds not swapped, and the bounds not
\* checked before the while loop.
IntervalNoSwap ==
  /\ pc = "token"
  /\ i <= Len(tokens)
  /\ Len(Tok) = 2
  /\ Tok[1] # NaN /\ Tok[2] # NaN
  /\ a' = Tok[1]
  /\ b' = Tok[2]
  /\ pc' = IF a' >= Len(items) \/ b' >= Len(items) THEN "exit" ELSE "range"
  /\ UNCHANGED <<items, tokens, i, ret>>

IntervalNoBoundsCheck ==
  /\ pc = "token"
  /\ i <= Len(tokens)
  /\ Len(Tok) = 2
  /\ Tok[1] # NaN /\ Tok[2] # NaN
  /\ a' = IF Tok[1] > Tok[2] THEN Tok[2] ELSE Tok[1]
  /\ b' = IF Tok[1] > Tok[2] THEN Tok[1] ELSE Tok[2]
  /\ pc' = "range"
  /\ UNCHANGED <<items, tokens, i, ret>>

\* A token "x-y": the bounds are swapped into ascending order, and either
\* bound out of range ends the process with exit(); otherwise the while
\* loop starts.
Interval ==
  /\ pc = "token"
  /\ i <= Len(tokens)
  /\ Len(Tok) = 2
  /\ Tok[1] # NaN /\ Tok[2] # NaN
  /\ a' = IF Tok[1] > Tok[2] THEN Tok[2] ELSE Tok[1]
  /\ b' = IF Tok[1] > Tok[2] THEN Tok[1] ELSE Tok[2]
  /\ pc' = IF a' >= Len(items) \/ b' >= Len(items) THEN "exit" ELSE "range"
  /\ UNCHANGED <<items, tokens, i, ret>>

\* A token with more than one "-": len(interval) != 2, nothing happens.
ManyDashes ==
  /\ pc = "token"
  /\ i <= Len(tokens)
  /\ Len(Tok) > 2
  /\ i' = i + 1
  /\ UNCHANGED <<items, tokens, a, b, ret, pc>>

\* Faulty variant of RangeStep: the loop condition tests the list length
\* instead of the upper bound.
RangeStepWhileInList ==
  /\ pc = "range"
  /\ a < Len(items)
  /\ ret' = Append(ret, items[a + 1])
  /\ a' = a + 1
  /\ UNCHANGED <<items, tokens, i, b, pc>>

\* One iteration of "while a <= b": a is only advanced inside the
\* "if a < len(...)" branch, so the loop leaves only through that branch.
RangeStep ==
  /\ pc = "range"
  /\ a <= b
  /\ IF a < Len(items)
     THEN /\ ret' = Append(ret, items[a + 1])
          /\ a' = a + 1
     ELSE UNCHANGED <<ret, a>>
  /\ UNCHANGED <<items, tokens, i, b, pc>>

RangeEnd ==
  /\ pc = "range"
  /\ a > b
  /\ i' = i + 1
  /\ pc' = "token"
  /\ UNCHANGED <<items, tokens, a, b, ret>>

\* The for loop is exhausted: return ret.
Return ==
  /\ pc = "token"
  /\ i > Len(tokens)
  /\ pc' = "done"
  /\ UNCHANGED <<items, tokens, i, a, b, ret>>

Next ==
  \/ BadInt
  \/ SingleIndex
  \/ Interval
  \/ ManyDashes
  \/ RangeStep
  \/ RangeEnd
  \/ Return

\* get_ids is sequential code of a single process: once started it keeps
\* running until it returns or the process ends.
Spec == Init /\ [][Next]_vars /\ WF_vars(Next)

-----------------------------------------------------------------------------
(* Properties                                                               *)

TypeOK ==
  /\ items \in ItemLists
  /\ tokens \in Inputs
  /\ i \in 1..(Len(tokens) + 1)
  /\ a \in Nat /\ b \in Nat
  /\ pc = "range" => a <= b + 1
  /\ ret \in Seq(UNION {ToSet(l) : l \in ItemLists})
  /\ pc \in {"token", "range"} \cup Terminal

\* The loop computes the declarative selection: it returns exactly the
\* identifiers the tokens denote, in token order and ascending within an
\* interval, or ends the process exactly when the first failing token says
\* so, whatever it had accumulated before.
Abstract == INSTANCE Selection WITH
  result <- IF pc = "done" THEN ret ELSE <<>>,
  outcome <- IF pc \in Terminal THEN pc ELSE "pending"

SelectionRefined == Abstract!Spec

\* Every selection ends: the inner while loop, which advances a only while
\* a < len(data_mul_array), terminates because the bounds were checked
\* before it started.
Termination == <>(pc \in Terminal)

\* What the spec (section 4.2) says of malformed tokens: a token with more
\* than one "-" is a RangeError, so no selection containing one returns.
MalformedTokenRejected ==
  pc = "done" => \A k \in DOMAIN tokens : Len(tokens[k]) <= 2
=============================================================================
