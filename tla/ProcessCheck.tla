----------------------------- MODULE ProcessCheck -----------------------------
(***************************************************************************)
(* check_process and get_status of the CLI (cli/panboxcli.py 333-357).     *)
(*                                                                         *)
(* check_process(name) runs "ps -ef | grep name | grep -v grep" in a shell *)
(* and counts the lines of the output.  A line of "ps -ef" is abstracted   *)
(* to the set of search patterns its command line contains: grep only     *)
(* asks whether a pattern occurs in a line.  While ps runs, the process   *)
(* table also holds the pipeline itself.                                   *)
(***************************************************************************)
EXTENDS Naturals, Sequences

\* The pattern of "grep -v grep".
Grep == "grep"

\* The names get_status checks (347-350).
Checked == {"dbus-daemon", "panbox_backend", "panbox_tray_icon.py"}

\* The processes of the pipeline, listed by ps as well:
\* /bin/sh -c "ps -ef | grep <n> | grep -v grep", ps -ef, grep <n> and
\* grep -v grep.
Pipeline(n) == << {n, Grep}, {}, {n, Grep}, {Grep} >>

\* "grep n" keeps the lines containing n, "grep -v n" the others.
GrepFor(n, lines) == SelectSeq(lines, LAMBDA l : n \in l)
GrepOut(n, lines) == SelectSeq(lines, LAMBDA l : n \notin l)

\* len(output.split("\n")): each output line ends with a newline, so the
\* split has one element more than there are lines ("" splits into [""]).
SplitCount(lines) == Len(lines) + 1

\* Faulty variant of check_process: the pipeline without "| grep -v grep".
check_process_unfiltered(n, procs) ==
  LET output == GrepFor(n, procs \o Pipeline(n))
  IN  IF SplitCount(output) <= 1 THEN 0 ELSE 1

\* Lines 333-344: 1 (running) when the filtered output has a line.
check_process(n, procs) ==
  LET output == GrepOut(Grep, GrepFor(n, procs \o Pipeline(n)))
  IN  IF SplitCount(output) <= 1 THEN 0 ELSE 1

\* Lines 347-357: the three checks; what is printed is "running..." for 1.
get_status(procs) == [n \in Checked |-> check_process(n, procs)]
================================================================================
