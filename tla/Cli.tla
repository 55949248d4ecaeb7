--------------------------------- MODULE Cli ---------------------------------
(***************************************************************************)
(* One process of the Panbox CLI (cli/panboxcli.py) running one command.  *)
(*                                                                         *)
(* The contact-selection commands delete_contact (-dc), export_identities  *)
(* (-ei --multiple) and import_identity (-ii) list items through the      *)
(* backend, show them with a number each, let the user select some with    *)
(* get_ids (RangeSelector), make one mutating remote call with the        *)
(* selected identifiers and report the returned status code (StatusCode). *)
(* import_identity first verifies the vCard with a PIN and asks whether   *)
(* to go on when that fails.                                               *)
(*                                                                         *)
(* The share and lifecycle commands remove_share (-rs), add_share (-as)   *)
(* and shutdown (--close) check their arguments, ask the user or the      *)
(* backend, and make one call.  The identity, listing and mount commands  *)
(* make one call each; reset and init first loop until the password is    *)
(* typed twice alike, reset and restore first ask whether to back up.     *)
(*                                                                         *)
(* The backend is the environment: a remote call returns any listing or    *)
(* code of the given sets, or fails with a D-Bus exception.               *)
(***************************************************************************)
EXTENDS Integers, SequencesExt

CONSTANTS
  NaN, Inputs, Codes, Messages,
  ContactLists,   \* what getContacts() may return (identifiers)
  VcardLists,     \* what getContacts(vcard) may return (identifiers)
  Vcards,         \* vCard file names a user may pass
  Flag,           \* "--noverification" in any letter case
  ArgTails,       \* sys.argv[2:] of an -ii invocation
  Answers,        \* answers to "Continue import despite of ..."
  NoCode,         \* no verification code was received
  RemoveArgTails, \* sys.argv[2:] of an -rs invocation
  AddArgTails,    \* sys.argv[2:] of an -as invocation
  ShareLists,     \* what getShares() may return (share names)
  Dirs,           \* the paths that are existing directories
  ShareAnswers,   \* answers to the [Y/N] prompts of remove_share
  RestoreArgTails,\* sys.argv[2:] of a --restore invocation
  Passwords,      \* what the user may type at getpass()
  ProcTables      \* the other processes ps -ef may list, as sequences

VARIABLES
  cmd,            \* the command main() dispatched to
  args,           \* sys.argv[2:]
  stage,          \* where the command is
  vcard, noverification, import_contact, authVerified,
  verifyCode,     \* what verifyContacts returned, or NoCode
  answer,         \* the answer to the continue prompt, or NoAnswer
  shown,          \* the number printed in front of each listed item
  items, tokens, i, a, b, ret, pc,   \* get_ids (RangeSelector)
  code, out,                          \* the last report (StatusCode)
  mutation,       \* the mutating remote call made, or NoCall
  exitcode,       \* the process exit status, -1 while it runs
  prompts,        \* the valid answers given to remove_share's prompts
  rmDir,          \* remove_share: remove the data source directory too
  remote,         \* shutdown: what isRemote() returned, 1 by default
  listed,         \* add_share: what getShares() returned
  remoteCall,     \* the share, identity or lifecycle call made, or NoRemoteCall
  password1, password2, \* reset() and init(): the two getpass() answers
  backup,         \* reset() and restore(): back up the old identity
  procs,          \* get_status: the processes running besides the check
  status          \* get_status: what check_process said of each name

vars == <<cmd, args, stage, vcard, noverification, import_contact,
          authVerified, verifyCode, answer, shown, items, tokens, i, a, b,
          ret, pc, code, out, mutation, exitcode, prompts, rmDir, remote,
          listed, remoteCall, password1, password2, backup,
          procs, status>>

idVars == <<password1, password2, backup, procs, status>>

shareVars == <<prompts, rmDir, remote, listed, remoteCall>>

selVars == <<items, tokens, i, a, b, ret, pc>>

Sel == INSTANCE RangeSelector WITH ItemLists <- ContactLists \cup VcardLists
SC == INSTANCE StatusCode
PC == INSTANCE ProcessCheck

\* The declarative selection, for its operators only.
Ids == INSTANCE Selection WITH ItemLists <- ContactLists \cup VcardLists,
                               result <- ret, outcome <- pc

Commands == {"deletecontact", "exportidentities", "importidentity"}

\* -rs, -as and --close (main 616-629).
ShareCommands == {"removeshare", "addshare", "close"}
\* The remote method each remaining command calls once (main 604-626,
\* 653-654, 658-680); reset, restore and init ask the user first.
CallOp == [version |-> "getVersion", listshares |-> "getShares",
           listcsps |-> "getCSPs", unmount |-> "unmount", mount |-> "mount",
           exportown |-> "exportOwnIdentity", backupid |-> "backupIdentity",
           delete |-> "deleteIdentity", getid |-> "getOwnIdentity",
           addcontact |-> "addContact", getcontacts |-> "getContacts",
           reset |-> "resetIdentity",
           restore |-> "restoreIdentity", init |-> "createIdentity"]
IdentityCommands == DOMAIN CallOp
\* --status (main 631-632) asks the shell, not the backend.
LocalCommands == {"status"}
\* The calls whose result goes through print_status_code.
Reported == {"exportown", "backupid", "delete", "addcontact",
             "reset", "restore", "init"}
NoAnswer == "none"
NoCall == [op |-> "none", ids |-> <<>>, vcard |-> "", auth |-> FALSE]
NoRemoteCall == [op |-> "none", arg |-> "", flag |-> FALSE]

\* The remote operation each command ends with.
MutatingOp == [deletecontact |-> "deleteContact",
               exportidentities |-> "exportContacts",
               importidentity |-> "importContact"]

Init ==
  /\ cmd \in Commands \cup ShareCommands \cup IdentityCommands \cup LocalCommands
  /\ args \in CASE cmd = "importidentity" -> ArgTails
               [] cmd = "restore"        -> RestoreArgTails
               [] cmd = "removeshare"    -> RemoveArgTails
               [] cmd = "addshare"       -> AddArgTails
               [] OTHER                  -> {<<>>}
  /\ stage = CASE cmd \in {"importidentity", "removeshare", "addshare",
                          "restore"} -> "args"
              [] cmd = "close" -> "isremote"
              [] cmd = "reset" -> "askbackup"
              [] cmd = "init"  -> "password"
              [] cmd = "status" -> "status"
              [] cmd \in IdentityCommands -> "call"
              [] OTHER         -> "list"
  /\ vcard = ""
  /\ noverification = FALSE
  /\ import_contact = FALSE
  /\ authVerified = FALSE
  /\ verifyCode = NoCode
  /\ answer = IF cmd = "removeshare" THEN "123" ELSE NoAnswer
  /\ shown = <<>>
  /\ items = <<>> /\ tokens = <<>> /\ i = 1 /\ a = 0 /\ b = 0 /\ ret = <<>>
  /\ pc = "idle"
  /\ code = 0 /\ out = <<>>
  /\ mutation = NoCall
  /\ exitcode = -1
  /\ prompts = <<>>
  /\ rmDir = FALSE
  /\ remote = 1
  /\ listed = <<>>
  /\ remoteCall = NoRemoteCall
  /\ password1 = "passwd1" /\ password2 = "passwd2"
  /\ backup = FALSE
  /\ procs = <<>>
  /\ status = [n \in PC!Checked |-> 0]

\* The process ends.  exit() raises SystemExit(None), and an exception
\* caught by main() makes it return 2, which the module-level call main()
\* discards: the status is 0 on every path.
Finish ==
  /\ stage' = "end"
  /\ exitcode' = 0

-----------------------------------------------------------------------------
(* import_identity (426-467)                                                *)

\* With two arguments, the one that is not the flag is the vCard; when
\* neither is the flag, vcard keeps its initial "".
ImportArgs ==
  /\ cmd = "importidentity"
  /\ stage = "args"
  /\ args # <<>>
  /\ LET two == Len(args) = 2
         nov == two /\ (args[1] = Flag \/ args[2] = Flag)
     IN  /\ noverification' = nov
         /\ vcard' = CASE two /\ args[1] = Flag -> args[2]
                       [] two /\ args[2] = Flag -> args[1]
                       [] two                   -> ""
                       [] OTHER                 -> args[1]
         /\ stage' = IF nov THEN "list" ELSE "verify"
  /\ UNCHANGED <<idVars, cmd, args, import_contact, authVerified, verifyCode, answer,
                 shown, selVars, code, out, mutation, exitcode, shareVars>>

\* "-ii" alone: sys.argv[2] raises IndexError, caught by main().
ImportArgsMissing ==
  /\ cmd = "importidentity"
  /\ stage = "args"
  /\ args = <<>>
  /\ Finish
  /\ UNCHANGED <<idVars, cmd, args, vcard, noverification, import_contact,
                 authVerified, verifyCode, answer, shown, selVars, code, out,
                 mutation, shareVars>>

\* Faulty variant of Verify: authVerified set from is_error(code).
VerifyAuthInverted ==
  /\ stage = "verify"
  /\ \E c \in Codes :
       /\ verifyCode' = c
       /\ SC!print_status(c, "success", "failure")
       /\ import_contact' = TRUE
       /\ authVerified' = SC!is_error(c)
       /\ stage' = IF SC!is_error(c) THEN "confirm" ELSE "list"
  /\ UNCHANGED <<idVars, cmd, args, vcard, noverification, answer, shown, selVars,
                 mutation, exitcode, shareVars>>

\* verifyContacts(vcard, pin), reported with the plain policy.
Verify ==
  /\ stage = "verify"
  /\ \E c \in Codes :
       /\ verifyCode' = c
       /\ SC!print_status(c, "success", "failure")
       /\ import_contact' = TRUE
       /\ authVerified' = ~SC!is_error(c)
       /\ stage' = IF SC!is_error(c) THEN "confirm" ELSE "list"
  /\ UNCHANGED <<idVars, cmd, args, vcard, noverification, answer, shown, selVars,
                 mutation, exitcode, shareVars>>

\* "Continue import despite of verification fail?": only N or n stops.
Confirm ==
  /\ stage = "confirm"
  /\ \E ans \in Answers :
       /\ answer' = ans
       /\ import_contact' = (ans \notin {"N", "n"})
       /\ IF import_contact'
          THEN stage' = "list" /\ exitcode' = exitcode
          ELSE Finish
  /\ UNCHANGED <<idVars, cmd, args, vcard, noverification, authVerified, verifyCode,
                 shown, selVars, code, out, mutation, shareVars>>

-----------------------------------------------------------------------------
(* Listing, selection and the mutating call                                 *)

\* Faulty variants of Shown: the identifier printed for contacts too, and
\* the contacts numbered from 1.
ShownIds(list) == list

ShownFrom1(list) ==
  IF cmd = "importidentity"
  THEN list
  ELSE [k \in DOMAIN list |-> k]

\* get_contacts() prints "[k]" before the k-th contact; import_identity
\* prints "[s[0]]", the item's identifier, before each vCard entry.
Shown(list) ==
  IF cmd = "importidentity"
  THEN list
  ELSE [k \in DOMAIN list |-> k - 1]

\* The listing call, its display, and raw_input in get_ids.
List ==
  /\ stage = "list"
  /\ \E list \in (IF cmd = "importidentity" THEN VcardLists ELSE ContactLists),
        input \in Inputs :
       /\ shown' = Shown(list)
       /\ Sel!Begin(list, input)
  /\ stage' = "select"
  /\ UNCHANGED <<idVars, cmd, args, vcard, noverification, import_contact,
                 authVerified, verifyCode, answer, code, out, mutation,
                 exitcode, shareVars>>

Select ==
  /\ stage = "select"
  /\ Sel!Next
  /\ UNCHANGED <<idVars, cmd, args, stage, vcard, noverification, import_contact,
                 authVerified, verifyCode, answer, shown, code, out, mutation,
                 exitcode, shareVars>>

\* exit() in get_ids, or the ValueError of int(), ends the command before
\* any mutating call.
SelectAborted ==
  /\ stage = "select"
  /\ pc \in {"exit", "raise"}
  /\ Finish
  /\ UNCHANGED <<idVars, cmd, args, vcard, noverification, import_contact,
                 authVerified, verifyCode, answer, shown, selVars, code, out,
                 mutation, shareVars>>

\* deleteContact(ret), exportContacts(ret, path) or
\* importContact(ids, vcard, authVerified), reported with the detailed
\* policy.
Mutate ==
  /\ stage = "select"
  /\ pc = "done"
  /\ mutation' = [op |-> MutatingOp[cmd], ids |-> ret, vcard |-> vcard,
                  auth |-> authVerified]
  /\ \E c \in Codes : SC!print_status_code(c, "success", "failure")
  /\ Finish
  /\ UNCHANGED <<idVars, cmd, args, vcard, noverification, import_contact,
                 authVerified, verifyCode, answer, shown, selVars, shareVars>>

-----------------------------------------------------------------------------
(* remove_share (234-267), add_share (270-292) and shutdown (317-330)      *)

\* The answers the two "[Y/N]" loops of remove_share accept.
ValidAnswers == {"", "n", "N", "y", "Y"}

\* "-rs" alone: "Need share-name as parameter!" and exit().
RemoveShareArgs ==
  /\ cmd = "removeshare"
  /\ stage = "args"
  /\ IF args = <<>> THEN Finish ELSE stage' = "ask1" /\ UNCHANGED exitcode
  /\ UNCHANGED <<idVars, cmd, args, vcard, noverification, import_contact,
                 authVerified, verifyCode, answer, shown, selVars, code, out,
                 mutation, shareVars>>

\* One raw_input of the loops at 248-250 and 255-257: asked while the
\* answer is not one of "", n, N, y, Y.
AskShare ==
  /\ stage \in {"ask1", "ask2"}
  /\ answer \notin ValidAnswers
  /\ \E ans \in ShareAnswers :
       /\ answer' = ans
       /\ prompts' = IF ans \in ValidAnswers
                     THEN Append(prompts, [q |-> stage, a |-> ans])
                     ELSE prompts
  /\ UNCHANGED <<idVars, cmd, args, stage, vcard, noverification, import_contact,
                 authVerified, verifyCode, shown, selVars, code, out, mutation,
                 exitcode, rmDir, remote, listed, remoteCall>>

\* Faulty variant of RemoveConfirmed: the answer not reset to "123", so
\* the second loop takes the first answer without asking.
RemoveConfirmedNoReset ==
  /\ stage = "ask1"
  /\ answer \in ValidAnswers
  /\ IF answer \in {"n", "N"}
     THEN Finish
     ELSE stage' = "ask2" /\ UNCHANGED exitcode
  /\ UNCHANGED <<idVars, cmd, args, vcard, noverification, import_contact,
                 authVerified, verifyCode, answer, shown, selVars, code, out,
                 mutation, shareVars>>

\* Lines 252-254: n or N ends the command; any other valid answer, ""
\* included, goes on to the second question, asked afresh.
RemoveConfirmed ==
  /\ stage = "ask1"
  /\ answer \in ValidAnswers
  /\ IF answer \in {"n", "N"}
     THEN Finish /\ UNCHANGED answer
     ELSE stage' = "ask2" /\ answer' = "123" /\ UNCHANGED exitcode
  /\ UNCHANGED <<idVars, cmd, args, vcard, noverification, import_contact,
                 authVerified, verifyCode, shown, selVars, code, out,
                 mutation, shareVars>>

\* Lines 259-267: the data source goes too only on y or Y ("" keeps it);
\* removeShare(name, rmDir), reported with the detailed policy.
RemoveShare ==
  /\ stage = "ask2"
  /\ answer \in ValidAnswers
  /\ rmDir' = (answer \in {"y", "Y"})
  /\ remoteCall' = [op |-> "removeShare", arg |-> args[1], flag |-> rmDir']
  /\ \E c \in Codes : SC!print_status_code(c, "success", "failure")
  /\ Finish
  /\ UNCHANGED <<idVars, cmd, args, vcard, noverification, import_contact,
                 authVerified, verifyCode, answer, shown, selVars, mutation,
                 prompts, remote, listed>>

\* Lines 271-273: anything but name, csp and path is "Parameter error!".
AddShareArgs ==
  /\ cmd = "addshare"
  /\ stage = "args"
  /\ IF Len(args) # 3 THEN Finish
     ELSE stage' = "listshares" /\ UNCHANGED exitcode
  /\ UNCHANGED <<idVars, cmd, args, vcard, noverification, import_contact,
                 authVerified, verifyCode, answer, shown, selVars, code, out,
                 mutation, shareVars>>

\* Lines 278-284, 290-292: getShares(); an existing name ends the command,
\* a path that is no directory is reported as SHARENOTEXISTS.
AddShareCheck ==
  /\ stage = "listshares"
  /\ \E l \in ShareLists :
       /\ listed' = l
       /\ CASE args[1] \in ToSet(l) -> Finish /\ UNCHANGED <<code, out>>
            [] args[3] \in Dirs     -> stage' = "addshare"
                                       /\ UNCHANGED <<code, out, exitcode>>
            [] OTHER                -> SC!AddShareBadPath("bad path") /\ Finish
  /\ UNCHANGED <<idVars, cmd, args, vcard, noverification, import_contact,
                 authVerified, verifyCode, answer, shown, selVars, mutation,
                 prompts, rmDir, remote, remoteCall>>

\* Lines 285-288: the password, addShare(name, csp, path, password).
AddShare ==
  /\ stage = "addshare"
  /\ remoteCall' = [op |-> "addShare", arg |-> args[1], flag |-> FALSE]
  /\ \E c \in Codes : SC!print_status_code(c, "success", "failure")
  /\ Finish
  /\ UNCHANGED <<idVars, cmd, args, vcard, noverification, import_contact,
                 authVerified, verifyCode, answer, shown, selVars, mutation,
                 prompts, rmDir, remote, listed>>

\* Lines 318-323: isRemote(); a DBusException of the call is printed and
\* remote keeps its default 1.
IsRemote ==
  /\ stage = "isremote"
  /\ \/ \E r \in {0, 1} : remote' = r
     \/ UNCHANGED remote  \* the call raised
  /\ stage' = "shutdown"
  /\ UNCHANGED <<idVars, cmd, args, vcard, noverification, import_contact,
                 authVerified, verifyCode, answer, shown, selVars, code, out,
                 mutation, exitcode, prompts, rmDir, listed, remoteCall>>

\* Lines 325-330: shutdown() only for a local backend; its NoReply, the
\* backend exiting before it answers, is not reported.
Shutdown ==
  /\ stage = "shutdown"
  /\ remoteCall' = IF remote = 0
                  THEN [op |-> "shutdown", arg |-> "", flag |-> FALSE]
                  ELSE remoteCall
  /\ Finish
  /\ UNCHANGED <<idVars, cmd, args, vcard, noverification, import_contact,
                 authVerified, verifyCode, answer, shown, selVars, code, out,
                 mutation, prompts, rmDir, remote, listed>>

-----------------------------------------------------------------------------
(* The identity, listing and mount commands (303-314, 360-362, 470-555)     *)

\* Lines 503-505: --restore takes exactly one file name.
RestoreArgs ==
  /\ cmd = "restore"
  /\ stage = "args"
  /\ IF Len(args) # 1 THEN Finish
     ELSE stage' = "askbackup" /\ UNCHANGED exitcode
  /\ UNCHANGED <<idVars, cmd, args, vcard, noverification, import_contact,
                 authVerified, verifyCode, answer, shown, selVars, code, out,
                 mutation, shareVars>>

\* Lines 471-475 (and 507-511): the old identity is backed up only on Y or
\* y; any other answer, "" and typing errors included, means no backup.
\* reset() then asks for the details and the password, restore() calls.
AskBackup ==
  /\ stage = "askbackup"
  /\ \E ans \in ShareAnswers : backup' = (ans \in {"Y", "y"})
  /\ stage' = IF cmd = "reset" THEN "password" ELSE "call"
  /\ UNCHANGED <<password1, password2, procs, status, cmd, args, vcard,
                 noverification, import_contact, authVerified, verifyCode,
                 answer, shown, selVars, code, out, mutation, exitcode,
                 shareVars>>

\* Lines 482-491 (and 523-531): one round of the loop; the initial
\* "passwd1" and "passwd2" differ, so the user is asked at least once.
EnterPasswords ==
  /\ stage = "password"
  /\ password1 # password2
  /\ \E x, y \in Passwords :
       /\ password1' = x
       /\ password2' = y
       /\ stage' = IF x = y THEN "call" ELSE "password"
  /\ UNCHANGED <<backup, procs, status, cmd, args, vcard, noverification, import_contact,
                 authVerified, verifyCode, answer, shown, selVars, code, out,
                 mutation, exitcode, shareVars>>

\* The argument of the call that matters here: the password of
\* resetIdentity and createIdentity, the file of restoreIdentity.
IdentityArg ==
  CASE cmd \in {"reset", "init"} -> password1
    [] cmd = "restore"           -> args[1]
    [] OTHER                     -> ""

\* The one remote call of each of these commands (e.g. delete 537-539,
\* get_id 542-546, add_contact 549-555; reset 492-494, init 533-534,
\* restore 513-514): the ones in Reported print the status code, the
\* others print what they got.
IdentityCall ==
  /\ stage = "call"
  /\ remoteCall' = [op |-> CallOp[cmd], arg |-> IdentityArg, flag |-> backup]
  /\ IF cmd \in Reported
     THEN \E c \in Codes : SC!print_status_code(c, "success", "failure")
     ELSE UNCHANGED <<code, out>>
  /\ Finish
  /\ UNCHANGED <<idVars, cmd, args, vcard, noverification, import_contact,
                 authVerified, verifyCode, answer, shown, selVars, mutation,
                 prompts, rmDir, remote, listed>>

\* get_status (347-357): the three process checks, each one pipeline run
\* while the other processes are those of procs.
GetStatus ==
  /\ stage = "status"
  /\ \E p \in ProcTables :
       /\ procs' = p
       /\ status' = PC!get_status(p)
  /\ Finish
  /\ UNCHANGED <<password1, password2, backup, cmd, args, vcard,
                 noverification, import_contact, authVerified, verifyCode,
                 answer, shown, selVars, code, out, mutation, shareVars>>

\* The share or lifecycle call a stage makes.
RemoteCallAt(st) ==
  CASE st = "ask2"     -> [op |-> "removeShare", arg |-> args[1],
                           flag |-> answer \in {"y", "Y"}]
    [] st = "addshare" -> [op |-> "addShare", arg |-> args[1], flag |-> FALSE]
    [] st = "call"     -> [op |-> CallOp[cmd], arg |-> IdentityArg,
                           flag |-> backup]
    [] OTHER           -> [op |-> "shutdown", arg |-> "", flag |-> FALSE]

\* A remote call raises DBusException: in dbus_method (no service: exit())
\* or during the call (caught by main()).  A mutating call that times out
\* (NoReply) may or may not have been carried out by the backend.  A
\* failing shutdown() ends the process either way.
RemoteFails ==
  /\ \/ stage \in {"verify", "list", "listshares", "isremote"}
        /\ UNCHANGED <<mutation, remoteCall>>
     \/ /\ stage = "select" /\ pc = "done"
        /\ mutation' \in {mutation, [op |-> MutatingOp[cmd], ids |-> ret,
                                     vcard |-> vcard, auth |-> authVerified]}
        /\ UNCHANGED remoteCall
     \/ /\ \/ stage = "ask2" /\ answer \in ValidAnswers
           \/ stage \in {"addshare", "call"}
           \/ stage = "shutdown" /\ remote = 0
        /\ remoteCall' \in {remoteCall, RemoteCallAt(stage)}
        /\ UNCHANGED mutation
  /\ Finish
  /\ UNCHANGED <<idVars, cmd, args, vcard, noverification, import_contact,
                 authVerified, verifyCode, answer, shown, selVars, code, out,
                 prompts, rmDir, remote, listed>>

Next ==
  \/ ImportArgs \/ ImportArgsMissing \/ Verify \/ Confirm
  \/ List \/ Select \/ SelectAborted \/ Mutate
  \/ RemoveShareArgs \/ AskShare \/ RemoveConfirmed \/ RemoveShare
  \/ AddShareArgs \/ AddShareCheck \/ AddShare \/ IsRemote \/ Shutdown
  \/ RestoreArgs \/ AskBackup \/ EnterPasswords \/ IdentityCall
  \/ GetStatus
  \/ RemoteFails

\* The CLI is one sequential process that runs until it ends.
Spec == Init /\ [][Next]_vars /\ WF_vars(Next)

-----------------------------------------------------------------------------
(* Properties                                                               *)

TypeOK ==
  /\ cmd \in Commands \cup ShareCommands \cup IdentityCommands \cup LocalCommands
  /\ stage \in {"args", "verify", "confirm", "list", "select", "ask1", "ask2",
               "listshares", "addshare", "isremote", "shutdown", "askbackup",
               "password", "call", "status", "end"}
  /\ noverification \in BOOLEAN /\ import_contact \in BOOLEAN
  /\ authVerified \in BOOLEAN
  /\ verifyCode \in Codes \cup {NoCode}
  /\ answer \in Answers \cup ShareAnswers \cup {NoAnswer, "123"}
  /\ shown \in Seq(Nat)
  /\ pc \in {"idle", "token", "range", "done", "exit", "raise"}
  /\ mutation.op \in {"none"} \cup {MutatingOp[c] : c \in Commands}
  /\ exitcode \in {-1, 0}
  /\ rmDir \in BOOLEAN /\ remote \in {0, 1}
  /\ remoteCall.op \in {"none", "removeShare", "addShare", "shutdown"}
                         \cup Range(CallOp)
  /\ status \in [PC!Checked -> {0, 1}]

\* importContact is told the vCard is authenticated exactly when
\* verifyContacts returned a non-error code; it imports an unverified vCard
\* only under --noverification or when the user did not answer N or n to
\* the continue prompt.
ImportConsent ==
  mutation.op = "importContact" =>
    /\ mutation.auth <=> (verifyCode # NoCode /\ ~SC!is_error(verifyCode))
    /\ noverification \/ verifyCode # NoCode
    /\ (verifyCode # NoCode /\ SC!is_error(verifyCode))
         => answer \notin {"N", "n"}

\* The numbers the user typed: single indices and every number of an
\* interval.
Typed(toks) ==
  UNION {CASE Len(toks[k]) = 1 -> {toks[k][1]}
           [] Len(toks[k]) = 2 -> Ids!Lo(toks[k])..Ids!Hi(toks[k])
           [] OTHER            -> {} : k \in DOMAIN toks}

\* Every identifier sent to the backend belongs to an item that was shown
\* with a number the user typed (the spec, section 3: the display order
\* defines the index the user sees).
SelectionMatchesDisplay ==
  mutation # NoCall =>
    \A k \in DOMAIN mutation.ids :
      \E j \in DOMAIN items :
        items[j] = mutation.ids[k] /\ shown[j] \in Typed(tokens)

\* The last valid answer given to a question of remove_share, or "none".
LastAnswer(q) ==
  LET ks == {k \in DOMAIN prompts : prompts[k].q = q}
  IN  IF ks = {} THEN "none" ELSE prompts[Max(ks)].a

\* removeShare is called only after the user confirmed the removal (an
\* answer other than N or n), and the share's data source directory is
\* deleted exactly when the user answered Y or y to the second question,
\* which is asked on its own however the first one was answered.
RemovalAsConfirmed ==
  remoteCall.op = "removeShare" =>
    /\ LastAnswer("ask1") \notin {"none", "n", "N"}
    /\ remoteCall.flag <=> LastAnswer("ask2") \in {"y", "Y"}

\* --status reports a component running exactly when a process whose
\* command line names it runs, although the check's own shell and grep
\* processes, which name it too, are in the table ps lists.
StatusMatchesProcesses ==
  (cmd = "status" /\ stage = "end") =>
    \A n \in PC!Checked :
      status[n] = 1 <=> \E k \in DOMAIN procs : n \in procs[k]

\* What the spec (section 6) says of the exit status: the process ends
\* abnormally (non-zero) when the selection fails.
ExitStatusReportsFailure ==
  (stage = "end" /\ pc \in {"exit", "raise"}) => exitcode # 0
=============================================================================
