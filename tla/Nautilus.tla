------------------------------ MODULE Nautilus ------------------------------
(***************************************************************************)
(* The Panbox extension of the Nautilus file manager                       *)
(* (nautilus/nautilus_panbox.py) against a backend that can stop at any    *)
(* moment.                                                                 *)
(*                                                                         *)
(* Nautilus asks the extension for the context menu of a selection of     *)
(* files (get_file_items_full) or of a folder's background                *)
(* (get_background_items_full).  The extension decides from the URIs, the  *)
(* backend's mount point and the share's storage type which items to      *)
(* offer; each item calls the backend when activated.  Every use of a      *)
(* backend method is a lookup (get_dbus_method) followed by the call, and  *)
(* is one step here: the backend may be gone at the lookup, or stop after *)
(* it so that the call raises.  An exception leaves the handler and       *)
(* Nautilus shows no Panbox menu.                                          *)
(*                                                                         *)
(* URIs are character sequences, so that startswith, dirname, replace and  *)
(* split are modelled by what they do.                                     *)
(***************************************************************************)
EXTENDS Naturals, Sequences, SequencesExt

CONSTANTS
  Scheme,          \* "file://"
  PANBOX_FOLDER,   \* 'file://' + ~/Panbox, fixed at import (38)
  MountPoints,     \* what the backend's getMountPoint() may return
  Entries,         \* [uri, isfile] of the files Nautilus may show
  Selections,      \* the file selections Nautilus may ask about
  Types,           \* storage backend types getShareStorageBackendType returns
  BackendLocales, DefaultLocales, Translated,
  None             \* Python's None

VARIABLES
  up,        \* the backend answers
  mp,        \* the backend's mount point
  ext,       \* "load", "ready" or "failed": the extension's __init__
  req,       \* the request being served: [kind, sel], [kind, path] or kind "none"
  pc,        \* where the handler is
  folder,    \* panbox_folder as the handler computed it
  items,     \* the menu items added so far
  result,    \* "menu", "nomenu" or the exception that left the handler
  asked,     \* share names passed to getShareStorageBackendType
  called     \* the backend methods activated items called, with their path

vars == <<up, mp, ext, req, pc, folder, items, result, asked, called>>

-----------------------------------------------------------------------------
(* String operations of Python, on character sequences                    *)

StartsWith(s, p) == IsPrefix(p, s)

\* Positions of c in s.
Hits(s, c) == {k \in DOMAIN s : s[k] = c}

RECURSIVE RStripSlash(_)
RStripSlash(s) ==
  IF s # <<>> /\ Last(s) = "/" THEN RStripSlash(Front(s)) ELSE s

\* os.path.dirname (posixpath): the text up to the last "/", without its
\* trailing slashes unless it consists of slashes only.
Dirname(p) ==
  LET i == IF Hits(p, "/") = {} THEN 0 ELSE Max(Hits(p, "/"))
      head == SubSeq(p, 1, i)
  IN  IF \A k \in DOMAIN head : head[k] = "/" THEN head ELSE RStripSlash(head)

\* str.replace(old, new): every occurrence, left to right, not overlapping.
RECURSIVE Replace(_, _, _)
Replace(s, old, new) ==
  IF Len(s) < Len(old) \/ old = <<>> THEN s
  ELSE IF SubSeq(s, 1, Len(old)) = old
       THEN new \o Replace(SubSeq(s, Len(old) + 1, Len(s)), old, new)
       ELSE <<s[1]>> \o Replace(Tail(s), old, new)

\* str.split("/").
RECURSIVE Split(_)
Split(s) ==
  IF Hits(s, "/") = {} THEN <<s>>
  ELSE LET i == Min(Hits(s, "/"))
       IN  <<SubSeq(s, 1, i - 1)>> \o Split(SubSeq(s, i + 1, Len(s)))

\* s[7:], the URI without "file://".
Path(uri) == SubSeq(uri, Len(Scheme) + 1, Len(uri))

\* file_path.replace(PANBOX_FOLDER, "").split("/")[1] (152, 165): an
\* IndexError unless there is a second field.
ShareFields(file_path) == Split(Replace(file_path, PANBOX_FOLDER, <<>>))

\* The URIs of the files Nautilus may show, and what the handlers compute
\* from each: os.path.dirname and the fields of line 152/165.  A URI does
\* not change, so each is computed once.
URIs == {e.uri : e \in Entries}
DirOf == [u \in URIs |-> Dirname(u)]
FieldsOf == [u \in URIs |-> ShareFields(u)]
HasShareName(file_path) == Len(FieldsOf[file_path]) >= 2
ShareName(file_path) == FieldsOf[file_path][2]

-----------------------------------------------------------------------------

\* One use of a backend method by the extension: the outcomes a step may
\* have.  "lookup" when get_dbus_method finds no service, "raise" when the
\* service stops after the lookup, "ok" when the call is answered.
Outcomes == IF up THEN {"ok", "raise"} ELSE {"lookup"}

\* The service stops when a call raised; it is down when the lookup failed.
UpAfter(o) == o = "ok"

Init ==
  /\ up \in BOOLEAN
  /\ mp \in MountPoints
  /\ ext = "load"
  /\ req = [kind |-> "none"]
  /\ pc = "idle"
  /\ folder = <<>>
  /\ items = {}
  /\ result = "none"
  /\ asked = <<>>
  /\ called = <<>>

BackendStop ==
  /\ up /\ up' = FALSE
  /\ UNCHANGED <<mp, ext, req, pc, folder, items, result, asked, called>>

BackendStart ==
  /\ ~up /\ up' = TRUE
  /\ UNCHANGED <<mp, ext, req, pc, folder, items, result, asked, called>>

\* PanboxExtension.__init__ runs set_language (58-67, 71-73): the backend's
\* locale or the system's; gettext.translation raises IOError without a
\* catalogue, and a raising getLocale call leaves __init__ too.
Load ==
  /\ ext = "load"
  /\ \E o \in Outcomes :
       /\ up' = UpAfter(o)
       /\ \E l \in (CASE o = "ok" -> (BackendLocales \ {"system_default"})
                                     \cup (IF "system_default" \in BackendLocales
                                           THEN DefaultLocales ELSE {})
                      [] o = "lookup" -> DefaultLocales
                      [] OTHER -> {None}) :
            ext' = IF l \in Translated THEN "ready" ELSE "failed"
  /\ UNCHANGED <<mp, req, pc, folder, items, result, asked, called>>

-----------------------------------------------------------------------------
(* The menu providers                                                      *)

Request ==
  /\ ext = "ready"
  /\ pc \in {"idle", "done"}
  /\ \/ \E sel \in Selections : req' = [kind |-> "file", sel |-> sel]
     \/ \E e \in Entries :
          /\ ~e.isfile
          /\ req' = [kind |-> "background", path |-> e.uri]
  /\ pc' = "mp1"
  /\ items' = {}
  /\ result' = "pending"
  /\ asked' = <<>>
  /\ called' = <<>>
  /\ UNCHANGED <<up, mp, ext, folder>>

\* The first get_mount_point() of either provider (119, 182).  It returns
\* None, never -1, when the lookup fails (86-89), so the test "!= -1"
\* always holds and the fallback to PANBOX_FOLDER (121-122, 184-185) is
\* never taken.
\* Faulty variant of MountPoint1: the handler waits for the backend's
\* answer instead of taking the failed lookup's result.
MountPoint1Waits ==
  /\ pc = "mp1"
  /\ up
  /\ \E o \in {"ok", "raise"} :
       /\ up' = UpAfter(o)
       /\ pc' = IF o = "raise" THEN "done" ELSE "mp2"
       /\ result' = IF o = "raise" THEN "DBusException" ELSE result
  /\ UNCHANGED <<mp, ext, req, folder, items, asked, called>>

MountPoint1 ==
  /\ pc = "mp1"
  /\ \E o \in Outcomes :
       /\ up' = UpAfter(o)
       /\ pc' = IF o = "raise" THEN "done" ELSE "mp2"
       /\ result' = IF o = "raise" THEN "DBusException" ELSE result
  /\ UNCHANGED <<mp, ext, req, folder, items, asked, called>>

\* The second get_mount_point() without an answer: 'file://' + None is a
\* TypeError, and a call that raised leaves the handler as it is.
MountPoint2Failed(o) ==
  /\ pc' = "done"
  /\ result' = IF o = "raise" THEN "DBusException" ELSE "TypeError"
  /\ UNCHANGED <<folder, items, asked>>

\* The file selection's last file, the loop variable f that outlives the
\* loop at 125-126 and is used at 136.
LastFile(sel) == sel[Len(sel)]

\* Lines 163-175 after panbox_folder is known and the Remove Share part is
\* done: a single regular file asks for its share's storage type.  The
\* result is the handler's next [pc, result, items, asked].
IsFilePart(sel, its, ask) ==
  LET f == LastFile(sel)
  IN  CASE ~(f.isfile /\ Len(sel) = 1) ->
             [pc |-> "done", result |-> "menu", items |-> its, asked |-> ask]
        [] ~HasShareName(f.uri) ->
             [pc |-> "done", result |-> "IndexError", items |-> its,
              asked |-> ask]
        [] OTHER ->
             [pc |-> "type2", result |-> "pending", items |-> its,
              asked |-> Append(ask, ShareName(f.uri))]

\* Lines 123-152 once panbox_folder is fld: no menu unless a file's URI
\* starts with fld; "Remove Share(s)" when the last file lies directly in
\* fld, whose share name then asks for the storage type.
FileMenu(sel, fld) ==
  LET f == LastFile(sel)
  IN  CASE \A k \in DOMAIN sel : ~StartsWith(sel[k].uri, fld) ->
             [pc |-> "done", result |-> "nomenu", items |-> {}, asked |-> <<>>]
        [] DirOf[f.uri] = fld /\ ~HasShareName(f.uri) ->
             [pc |-> "done", result |-> "IndexError", items |-> {},
              asked |-> <<>>]
        [] DirOf[f.uri] = fld ->
             [pc |-> "type1", result |-> "pending", items |-> {"RemoveShare"},
              asked |-> <<ShareName(f.uri)>>]
        [] OTHER -> IsFilePart(sel, {}, <<>>)

\* Takes the handler's next state from a record of FileMenu or IsFilePart.
Goto(r) ==
  /\ pc' = r.pc /\ result' = r.result /\ items' = r.items /\ asked' = r.asked

\* Faulty variant of FileItems: panbox_folder without the 'file://' prefix.
FileItemsNoScheme ==
  /\ pc = "mp2"
  /\ req.kind = "file"
  /\ \E o \in Outcomes :
       /\ up' = UpAfter(o)
       /\ IF o # "ok" THEN MountPoint2Failed(o)
          ELSE /\ folder' = mp
               /\ Goto(FileMenu(req.sel, mp))
  /\ UNCHANGED <<mp, ext, req, called>>

\* get_file_items_full (118-152) from the second get_mount_point().
FileItems ==
  /\ pc = "mp2"
  /\ req.kind = "file"
  /\ \E o \in Outcomes :
       /\ up' = UpAfter(o)
       /\ IF o # "ok" THEN MountPoint2Failed(o)
          ELSE /\ folder' = Scheme \o mp
               /\ Goto(FileMenu(req.sel, Scheme \o mp))
  /\ UNCHANGED <<mp, ext, req, called>>

\* Lines 153-161: "Share Folder" for a single file of a Dropbox share.  The
\* failed lookup's -1 is an answer like any other.
ShareType1 ==
  /\ pc = "type1"
  /\ \E o \in Outcomes :
       /\ up' = UpAfter(o)
       /\ IF o = "raise"
          THEN /\ pc' = "done" /\ result' = "DBusException"
               /\ UNCHANGED <<items, asked>>
          ELSE \E t \in (IF o = "ok" THEN Types ELSE {"-1"}) :
                 Goto(IsFilePart(req.sel,
                                 IF t = "Dropbox" /\ Len(req.sel) = 1
                                 THEN items \cup {"ShareFolder"} ELSE items,
                                 asked))
  /\ UNCHANGED <<mp, ext, req, folder, called>>

\* Lines 163-173: "Show Revisions" unless the share is a plain directory;
\* the failed lookup's -1 is not "Directory".
ShareType2 ==
  /\ pc = "type2"
  /\ \E o \in Outcomes :
       /\ up' = UpAfter(o)
       /\ pc' = "done"
       /\ IF o = "raise"
          THEN /\ result' = "DBusException" /\ UNCHANGED items
          ELSE \E t \in (IF o = "ok" THEN Types ELSE {"-1"}) :
                 /\ result' = "menu"
                 /\ items' = IF t # "Directory" THEN items \cup {"ShowRevs"}
                              ELSE items
  /\ UNCHANGED <<mp, ext, req, folder, asked, called>>

\* Faulty variant of BackgroundItems: startswith(panbox_folder) without the
\* "/" (as get_file_items_full tests at 123).
BackgroundItemsNoSlash ==
  /\ pc = "mp2"
  /\ req.kind = "background"
  /\ \E o \in Outcomes :
       /\ up' = UpAfter(o)
       /\ IF o # "ok" THEN MountPoint2Failed(o)
          ELSE
          LET fld == Scheme \o mp
              path == req.path
          IN  /\ folder' = fld
              /\ pc' = "done"
              /\ IF StartsWith(path, fld)
                 THEN /\ result' = "menu"
                      /\ items' = IF path = fld THEN {"AddShare"} ELSE {}
                 ELSE /\ result' = "nomenu" /\ UNCHANGED items
  /\ UNCHANGED <<mp, ext, req, asked, called>>

\* get_background_items_full (180-206) from the second get_mount_point():
\* a menu for panbox_folder and everything below it, with "Add Share" in
\* panbox_folder itself.
BackgroundItems ==
  /\ pc = "mp2"
  /\ req.kind = "background"
  /\ \E o \in Outcomes :
       /\ up' = UpAfter(o)
       /\ IF o # "ok" THEN MountPoint2Failed(o)
          ELSE
          LET fld == Scheme \o mp
              path == req.path
          IN  /\ folder' = fld
              /\ pc' = "done"
              /\ IF path = fld \/ StartsWith(path, fld \o <<"/">>)
                 THEN /\ result' = "menu"
                      /\ items' = IF path = fld THEN {"AddShare"} ELSE {}
                 ELSE /\ result' = "nomenu" /\ UNCHANGED items
  /\ UNCHANGED <<mp, ext, req, asked, called>>

\* The backend method an activated item calls and its argument: add_share
\* and remove_share open the properties (75-84); share_directory and
\* open_restore_revision_gui (106-115) get file_path[7:] of the last file.
ItemCall(item) ==
  CASE item \in {"AddShare", "RemoveShare"} -> [m |-> "openProperties", arg |-> <<>>]
    [] item = "ShareFolder" -> [m |-> "shareDirectory",
                                arg |-> Path(LastFile(req.sel).uri)]
    [] item = "ShowRevs" -> [m |-> "openRevisionGui",
                             arg |-> Path(LastFile(req.sel).uri)]

\* The user activates an item of the menu shown.
Activate ==
  /\ pc = "done"
  /\ result = "menu"
  /\ \E item \in items, o \in Outcomes :
       /\ up' = UpAfter(o)
       /\ called' = IF o = "ok" THEN <<ItemCall(item)>> ELSE <<>>
  /\ pc' = "idle"
  /\ UNCHANGED <<mp, ext, req, folder, items, result, asked>>

\* The handler steps that run once Nautilus asked for a menu.
Handler ==
  \/ MountPoint1
  \/ FileItems
  \/ ShareType1
  \/ ShareType2
  \/ BackgroundItems

Next ==
  \/ BackendStop
  \/ BackendStart
  \/ Load
  \/ Request
  \/ Activate
  \/ Handler

\* Nautilus runs each provider call to its end on its main thread; which
\* menus the user opens and the backend's life are not constrained.
Spec == Init /\ [][Next]_vars /\ WF_vars(Handler) /\ WF_vars(Load)

-----------------------------------------------------------------------------
(* Properties                                                               *)

Items == {"RemoveShare", "ShareFolder", "ShowRevs", "AddShare"}

TypeOK ==
  /\ up \in BOOLEAN
  /\ mp \in MountPoints
  /\ folder \in {<<>>} \cup {Scheme \o m : m \in MountPoints}
  /\ req \in {[kind |-> "none"]} \cup [kind : {"file"}, sel : Selections]
             \cup [kind : {"background"}, path : URIs]
  /\ ext \in {"load", "ready", "failed"}
  /\ pc \in {"idle", "mp1", "mp2", "type1", "type2", "done"}
  /\ items \subseteq Items
  /\ result \in {"none", "pending", "menu", "nomenu", "DBusException",
                  "TypeError", "IndexError"}
  /\ Len(called) <= 1

\* The reference meaning of "below panbox_folder": the URI's "/"-separated
\* fields extend those of the folder.
Below(uri, fld) == IsPrefix(Split(fld), Split(uri))

\* The background menu of a folder is shown exactly for panbox_folder and
\* the folders below it, and "Add Share" exactly in panbox_folder: the
\* string tests of get_background_items_full agree with the field-wise
\* reference, also for a sibling folder whose name extends "Panbox".
BackgroundMenuMatchesFolder ==
  (pc = "done" /\ req.kind = "background" /\ result \in {"menu", "nomenu"})
    => /\ (result = "menu") <=> Below(req.path, folder)
       /\ ("AddShare" \in items) <=> (req.path = folder)

\* Every menu request ends, with a menu, without one, or with the exception
\* that left the handler, whenever the backend stops.
RequestsComplete == (pc \in {"mp1", "mp2", "type1", "type2"}) ~> (pc = "done")

\* The file menu is shown only for a selection with a file below
\* panbox_folder (get_file_items_full tests startswith without the "/"
\* that get_background_items_full adds).
FileMenuOnlyBelow ==
  (pc = "done" /\ req.kind = "file" /\ result = "menu")
    => \E k \in DOMAIN req.sel : Below(req.sel[k].uri, folder)

\* The share whose storage type is asked is the first field of the file's
\* path below panbox_folder.
ShareNameBelowFolder ==
  \A k \in DOMAIN asked :
    LET fs == Split(LastFile(req.sel).uri)
        n == Len(Split(folder))
    IN  Len(fs) > n /\ asked[k] = fs[n + 1]
=============================================================================
