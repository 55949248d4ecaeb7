-------------------------------- MODULE Tray --------------------------------
(***************************************************************************)
(* The Panbox tray icon (gui/tray/panbox_tray_icon.py) against a backend   *)
(* process that can stop and start at any moment.                          *)
(*                                                                         *)
(* main() parses its option, installs the backend's language, creates the *)
(* appindicator or the GTK status icon and enters gtk.main().  Each menu   *)
(* item runs one callback on the GTK main loop: it looks the backend's     *)
(* method up (get_dbus_method) and then calls it.  The backend is another  *)
(* process, so it may stop or start between the lookup and the call.  A   *)
(* DBusException escaping a callback is printed by PyGTK and the main      *)
(* loop goes on; one escaping main() before gtk.main() ends the process.   *)
(*                                                                         *)
(* The menu items add_shares_menu (145-156) and mount_unmount (192-196)    *)
(* are never connected to a widget and are not part of the model.         *)
(***************************************************************************)
EXTENDS Naturals, Sequences, SequencesExt

CONSTANTS
  Opts,            \* sys.argv[1] values, as character sequences
  GtkOpt,          \* the string "--tray-gtk"
  AppindicatorOpt, \* the string "--tray-appindicator"
  Indicators,      \* whether "import appindicator" succeeds (55-59)
  DefaultLocales,  \* what locale.getdefaultlocale() may give
  BackendLocales,  \* what getLocale() may return, "system_default" included
  Translated,      \* locales with a catalogue in LANGDIR
  MountPoint,      \* what getMountPoint() returns
  NoPath,          \* nothing was opened
  Msgs             \* the notifications the backend may send, each once

VARIABLES
  up,          \* the backend owns its bus name and answers
  opt,         \* sys.argv[1], "" when absent
  hasInd,      \* use_appindicator as set at import time (the module global)
  useInd,      \* use_appindicator as main() sets it
  loc,         \* the locale installed by set_language
  tray,        \* where the tray process is
  crashedBy,   \* the exception that ended main(), or "none"
  ui,          \* "none", "gtk" or "appindicator"
  cb,          \* the callback running on the main loop, or "idle"
  cbstage,     \* "lookup" or "call" within that callback
  notice,      \* "No connection to Panbox service" shown in this callback
  failed,      \* a DBusException escaped this callback
  opened,      \* the path open_panbox_folder passed to xdg-open
  clicked,     \* the menu item activated last
  service,     \* PanboxTrayInterface owns org.panbox.tray (line 241)
  inbox,       \* show_notification calls queued for the main loop
  sentAt,      \* where the tray was when the backend sent each message
  shownMsgs,   \* the messages show_notification has shown
  bound        \* the proxy of the last lookup still reaches a live backend

vars == <<up, opt, hasInd, useInd, loc, tray, crashedBy, ui, cb, cbstage,
          notice, failed, opened, clicked, service, inbox, sentAt, shownMsgs,
          bound>>

notifVars == <<service, inbox, sentAt, shownMsgs>>

\* Menu items of generate_menu (159-189) and their callbacks.
Callbacks == {"properties", "folder", "about", "exit"}

\* Python's "x in s" on two strings: s contains x as a substring.
InStr(x, s) == x \in SubSeqs(s)

Init ==
  /\ up \in BOOLEAN
  /\ opt \in Opts
  /\ hasInd \in Indicators
  /\ useInd = hasInd
  /\ loc = "none"
  /\ tray = "start"
  /\ crashedBy = "none"
  /\ ui = "none"
  /\ cb = "idle"
  /\ cbstage = "lookup"
  /\ notice = FALSE
  /\ failed = FALSE
  /\ opened = NoPath
  /\ clicked = "none"
  /\ service = FALSE
  /\ inbox = <<>>
  /\ sentAt = [m \in Msgs |-> "unsent"]
  /\ shownMsgs = {}
  /\ bound = FALSE

-----------------------------------------------------------------------------
(* The backend process: the environment of the tray.                      *)

\* A stopped backend loses its unique bus name: proxies bound to it are
\* dead even when a new backend later takes org.panbox.client.
BackendStop ==
  /\ up
  /\ up' = FALSE
  /\ bound' = FALSE
  /\ UNCHANGED <<notifVars, clicked, opt, hasInd, useInd, loc, tray, crashedBy, ui, cb, cbstage,
                 notice, failed, opened>>

BackendStart ==
  /\ ~up
  /\ up' = TRUE
  /\ UNCHANGED <<bound, notifVars, clicked, opt, hasInd, useInd, loc, tray, crashedBy, ui, cb, cbstage,
                 notice, failed, opened>>

-----------------------------------------------------------------------------
(* main() up to gtk.main()                                                 *)

\* Lines 212-222.  "opt in ("--tray-gtk")" tests a string, not a tuple: it
\* holds for every substring of "--tray-gtk", "" among them.  Every branch
\* assigns use_appindicator, so main() reads its own local variable and
\* never the global set by the import at 55-59.
ParseOpt ==
  /\ tray = "start"
  /\ useInd' = IF InStr(opt, GtkOpt) THEN FALSE
               ELSE TRUE    \* "" or "--tray-appindicator", or unknown
  /\ tray' = "locale"
  /\ UNCHANGED <<bound, notifVars, clicked, up, opt, hasInd, loc, crashedBy, ui, cb, cbstage, notice,
                 failed, opened>>

\* gettext.translation without fallback raises IOError when the locale has
\* no catalogue; the exception leaves main().
Translate(l) ==
  /\ loc' = l
  /\ tray' = IF l \in Translated THEN "ui" ELSE "crashed"
  /\ crashedBy' = IF l \in Translated THEN "none" ELSE "IOError"

\* set_language (83-85): the lookup of getLocale.  When it fails,
\* get_dbus_method's except branch evaluates _('No connection ...') at
\* line 69, but _ is installed only by lang.install() at 93: the
\* NameError ends main(), and the default-locale branch at 90-91 is never
\* reached from here.
LocaleLookup ==
  /\ tray = "locale"
  /\ IF up
     THEN /\ tray' = "localecall"
          /\ UNCHANGED crashedBy
     ELSE /\ tray' = "crashed"
          /\ crashedBy' = "NameError(_)"
  /\ UNCHANGED <<bound, notifVars, clicked, up, opt, hasInd, useInd, loc, ui, cb,
                 cbstage, notice, failed, opened>>

\* set_language: the call of getLocale, unprotected in main().
LocaleCall ==
  /\ tray = "localecall"
  /\ IF up
     THEN \E r \in BackendLocales :
            IF r = "system_default"
            THEN \E l \in DefaultLocales : Translate(l)
            ELSE Translate(r)
     ELSE /\ tray' = "crashed"
          /\ crashedBy' = "DBusException"
          /\ UNCHANGED loc
  /\ UNCHANGED <<bound, notifVars, clicked, up, opt, hasInd, useInd, ui, cb, cbstage, notice, failed,
                 opened>>

\* PanboxTrayInterface() (panbox_tray_dbus_interface.py 42-46): the
\* object is exported under the bus name org.panbox.tray; its methods are
\* dispatched by the GLib main loop (DBusGMainLoop, line 55).
PanboxTrayInterface == service' = TRUE

\* Faulty variant of StartUi: PanboxTrayInterface() placed after
\* gtk.main(), which returns only when the tray quits.
StartUiServiceLate ==
  /\ tray = "ui"
  /\ IF useInd /\ ~hasInd
     THEN /\ tray' = "crashed"
          /\ crashedBy' = "NameError"
          /\ UNCHANGED ui
     ELSE /\ tray' = "running"
          /\ ui' = IF useInd THEN "appindicator" ELSE "gtk"
          /\ UNCHANGED crashedBy
  /\ UNCHANGED <<bound, notifVars, clicked, up, opt, hasInd, useInd, loc, cb,
                 cbstage, notice, failed, opened>>

\* Lines 229-242: the appindicator when use_appindicator holds (a NameError
\* when the import failed), the GTK status icon otherwise, then the
\* notification service and gtk.main().
StartUi ==
  /\ tray = "ui"
  /\ IF useInd /\ ~hasInd
     THEN /\ tray' = "crashed"
          /\ crashedBy' = "NameError"
          /\ UNCHANGED <<ui, service>>
     ELSE /\ tray' = "running"
          /\ ui' = IF useInd THEN "appindicator" ELSE "gtk"
          /\ PanboxTrayInterface
          /\ UNCHANGED crashedBy
  /\ UNCHANGED <<bound, inbox, sentAt, shownMsgs, clicked, up, opt, hasInd, useInd,
                 loc, cb, cbstage, notice, failed, opened>>

-----------------------------------------------------------------------------
(* Menu callbacks on the GTK main loop                                     *)

\* The user activates a menu item (popup_menu_cb 139-142 shows the menu of
\* generate_menu for the status icon; the appindicator holds it).
Click(c) ==
  /\ tray = "running"
  /\ cb = "idle"
  /\ cb' = c
  /\ cbstage' = "lookup"
  /\ notice' = FALSE
  /\ failed' = FALSE
  /\ opened' = NoPath
  /\ clicked' = c
  /\ UNCHANGED <<bound, notifVars, up, opt, hasInd, useInd, loc, tray, crashedBy, ui>>

\* Faulty variant of OpenPanboxFolder: without the "mount != -1" test,
\* get_mount_point's -1 is passed on to xdg-open.
OpenPanboxFolderNoCheck(mount) == mount

\* open_panbox_folder (132-136): what xdg-open is given for the answer of
\* get_mount_point (96-101), -1 when the lookup failed.  Under the test
\* "mount != -1" the PANBOX_FOLDER branch of line 135 is never taken.
OpenPanboxFolder(mount) == IF mount # -1 THEN mount ELSE NoPath

\* get_dbus_method (62-72) in a callback.  On failure it shows the
\* notification and returns -1: shutdown then calls gtk.main_quit() (115),
\* get_mount_point returns -1 and open_panbox_folder opens nothing (134),
\* and open_properties and about do nothing.
Lookup ==
  /\ cb # "idle"
  /\ cbstage = "lookup"
  /\ IF up
     THEN /\ cbstage' = "call"
          /\ bound' = TRUE
          /\ UNCHANGED <<notice, cb, tray, opened>>
     ELSE /\ notice' = TRUE
          /\ UNCHANGED bound
          /\ cb' = "idle"
          /\ UNCHANGED cbstage
          /\ tray' = IF cb = "exit" THEN "quit" ELSE tray
          /\ opened' = IF cb = "folder" THEN OpenPanboxFolder(-1) ELSE opened
  /\ UNCHANGED <<notifVars, clicked, up, opt, hasInd, useInd, loc, crashedBy,
                 ui, failed>>

\* Faulty variant of Call: the call assumed to succeed once the lookup did.
CallAlwaysAnswers ==
  /\ cb # "idle"
  /\ cbstage = "call"
  /\ up
  /\ cb' = "idle"
  /\ cbstage' = "lookup"
  /\ opened' = IF cb = "folder" THEN OpenPanboxFolder(MountPoint) ELSE opened
  /\ up' = (cb # "exit")
  /\ UNCHANGED <<bound, notifVars, clicked, opt, hasInd, useInd, loc, tray, crashedBy, ui, notice,
                 failed>>

\* The call of the method looked up.  get_object bound the proxy to the
\* backend's unique name, so a backend stopped since the lookup, restarted
\* or not, raises a DBusException out of the callback.  Otherwise getMountPoint's
\* answer is opened with xdg-open (135-136), and shutdown ends the backend,
\* which may exit before it replies (NoReply, uncaught here).
Call ==
  /\ cb # "idle"
  /\ cbstage = "call"
  /\ cb' = "idle"
  /\ cbstage' = "lookup"
  /\ IF up /\ bound
     THEN /\ opened' = IF cb = "folder" THEN OpenPanboxFolder(MountPoint)
                         ELSE opened
          /\ up' = (cb # "exit")
          /\ failed' \in IF cb = "exit" THEN BOOLEAN ELSE {FALSE}
     ELSE /\ failed' = TRUE
          /\ UNCHANGED <<up, opened>>
  /\ UNCHANGED <<bound, notifVars, clicked, opt, hasInd, useInd, loc, tray, crashedBy, ui, notice>>

-----------------------------------------------------------------------------
(* The notification service (panbox_tray_dbus_interface.py)               *)

\* The backend calls show_notification(message) on org.panbox.tray.  The
\* call is queued for the tray's main loop only while the tray process owns
\* the name, i.e. after PanboxTrayInterface() and before it ends; otherwise
\* the bus answers ServiceUnknown and the message is gone.
Notify(m) ==
  /\ up
  /\ sentAt[m] = "unsent"
  /\ sentAt' = [sentAt EXCEPT ![m] = tray]
  /\ inbox' = IF service /\ tray = "running" THEN Append(inbox, m) ELSE inbox
  /\ UNCHANGED <<bound, service, shownMsgs, clicked, up, opt, hasInd, useInd, loc,
                 tray, crashedBy, ui, cb, cbstage, notice, failed, opened>>

\* show_notification (48-52): run by the main loop between callbacks, it
\* shows the first queued message as a desktop notification.
ShowNotification ==
  /\ tray = "running"
  /\ cb = "idle"
  /\ inbox # <<>>
  /\ shownMsgs' = shownMsgs \cup {Head(inbox)}
  /\ inbox' = Tail(inbox)
  /\ UNCHANGED <<bound, service, sentAt, clicked, up, opt, hasInd, useInd, loc,
                 tray, crashedBy, ui, cb, cbstage, notice, failed, opened>>

-----------------------------------------------------------------------------

\* The steps the tray process takes by itself once it has started them.
TrayStep ==
  \/ ParseOpt
  \/ LocaleLookup
  \/ LocaleCall
  \/ StartUi
  \/ Lookup
  \/ Call

Next ==
  \/ BackendStop
  \/ BackendStart
  \/ \E c \in Callbacks : Click(c)
  \/ \E m \in Msgs : Notify(m)
  \/ TrayStep
  \/ ShowNotification

\* The tray is one Python process whose main loop runs each callback to its
\* end; the user's clicks and the backend's life are not constrained.  A
\* queued D-Bus call is a ready GLib source: each iteration of the main
\* loop dispatches every ready source of its priority, so a user clicking
\* again and again cannot pass it over for ever (strong fairness).
Spec == Init /\ [][Next]_vars /\ WF_vars(TrayStep) /\ SF_vars(ShowNotification)

-----------------------------------------------------------------------------
(* Properties                                                               *)

TypeOK ==
  /\ up \in BOOLEAN /\ hasInd \in BOOLEAN /\ useInd \in BOOLEAN
  /\ opt \in Opts
  /\ loc \in {"none"} \cup DefaultLocales \cup BackendLocales
  /\ tray \in {"start", "locale", "localecall", "ui", "running", "quit",
               "crashed"}
  /\ crashedBy \in {"none", "IOError", "DBusException", "NameError",
                    "NameError(_)"}
  /\ ui \in {"none", "gtk", "appindicator"}
  /\ cb \in {"idle"} \cup Callbacks
  /\ cbstage \in {"lookup", "call"}
  /\ notice \in BOOLEAN /\ failed \in BOOLEAN /\ bound \in BOOLEAN
  /\ opened \in {NoPath, MountPoint}
  /\ clicked \in {"none"} \cup Callbacks
  /\ service \in BOOLEAN
  /\ inbox \in SeqOf(Msgs, Cardinality(Msgs))
  /\ sentAt \in [Msgs -> {"unsent", "start", "locale", "localecall", "ui",
                           "running", "quit", "crashed"}]
  /\ shownMsgs \subseteq Msgs

\* Every menu callback returns to the GTK main loop, also when the backend
\* stops between get_dbus_method and the call: no callback is left hanging
\* on a backend that is gone.
CallbacksReturn == \A c \in Callbacks : (cb = c) ~> (cb = "idle")

\* A notification the backend sends while the tray is running is shown,
\* also when it arrives during a menu callback or the backend stops after
\* sending it, unless the user quits the tray first.
NotificationsShown ==
  \A m \in Msgs : (sentAt[m] = "running") ~> (m \in shownMsgs \/ tray = "quit")

\* The UI that lines 55-59 and 216-222 describe: the GTK status icon for
\* "--tray-gtk" or when appindicator cannot be imported, the appindicator
\* for no argument, "--tray-appindicator" or an unknown one.
DocumentedUi == IF opt = GtkOpt \/ ~hasInd THEN "gtk" ELSE "appindicator"

\* Once main() has passed the UI choice (the tray runs, or the choice
\* itself raised), the UI it created is the documented one.
UiAsDocumented ==
  (tray \in {"running", "quit"} \/ crashedBy = "NameError")
    => ui = DocumentedUi
=============================================================================
