# TLA+ models of the PanBox Linux clients

This directory holds TLA+ specifications of the Python clients of PanBox that
live in `src/panbox-linux/src/org/panbox/desktop/linux/`, together with the
TLC configurations that check them.

## The system

The Java backend of PanBox is not in this repository. It exports its
operations over D-Bus (`org.panbox.client`). Three Python clients call it:

| Part | Source | What it does |
|---|---|---|
| CLI | `cli/panboxcli.py` | One command per process. It looks up a D-Bus method (`dbus_method`), calls it, decodes the returned status code (`buildcode`, `component_code`, `status_code`, `is_error`) and prints the result (`print_status_code`, `print_status`). Commands that list contacts or vCard entries ask the user for an "ID range" such as `0,2-4`, which `get_ids` turns into identifiers. `delete_contact` has its own copy of that loop. |
| Tray icon | `gui/tray/panbox_tray_icon.py` | A GTK status icon with a menu. Its callbacks call the backend: shares, mount state, mount/unmount, properties, shutdown. |
| Tray notification service | `gui/tray/panbox_tray_dbus_interface.py` | A D-Bus object the backend calls to show desktop notifications. |
| Nautilus extension | `nautilus/nautilus_panbox.py` | Context-menu items in the file manager, chosen from the file's path and the backend's mount point. |
| Constants | `gui/tray/panbox_constants.py` | Bus names, object paths and icon file names. |

The clients never talk to each other; they interact only through the
backend's state: shares, contacts and the mount state. The CLI is strictly
sequential. The tray and Nautilus run callbacks on the GTK main loop, one at a
time. Concurrency therefore arises only between separate client processes, and
between a client and the backend starting or stopping.

## Modules

| Module | Models | State, actions |
|---|---|---|
| `StatusCode` | The status-code codec and the two reporting policies of the CLI (panboxcli.py 49-208, plus add_share's own error at 290-292). | `code` is the last integer reported; `out` is the lines printed for it (a colour, and the decoded labels or the message). There is one action per reporting function. Wording and ANSI colours are abstracted. |
| `Selection` | The abstract promise of `get_ids`, in one step: either the identifiers the tokens denote are returned, or the first failing token decides between `exit()` and a `ValueError`. | `items`, `tokens`, `result`, `outcome`. |
| `RangeSelector` | `get_ids` (365-399) step by step: the `for` over tokens and the inner `while a <= b`. | `i`, `a`, `b`, `ret`, `pc`. There is one action per branch: BadInt, SingleIndex, Interval, ManyDashes, RangeStep, RangeEnd, Return. It is shown to refine `Selection` through `INSTANCE ... WITH`. |
| `ProcessCheck` | `check_process` and `get_status` (panboxcli.py 333-357), as operators. | A `ps -ef` line is the set of search patterns its command line contains, because grep only asks whether a pattern occurs. `Pipeline(n)` adds the check's own `sh -c`, `ps`, `grep n` and `grep -v grep` processes. `GrepFor`/`GrepOut` are the two grep stages (`SelectSeq`), and `SplitCount` is `len(output.split("\n"))`. |
| `Cli` | One CLI process running a command of main() (598-701). Not modelled are the bare start (start.sh), `--help`, `-ei`'s "Parameter error"/"Parameter missing" paths (638-656) and "Wrong arguments" (691-692): they print and end. The modelled commands are the contact commands (export_identities, import_identity, delete_contact, get_contacts), the share commands (remove_share, add_share, shutdown) and the identity, listing and mount commands (reset, init, restore, backup, delete, get_id, add_contact, export_own_identity, get_shares, get_csps, get_contacts (-gc), getVersion, mount, unmount), and `--status` (GetStatus, through ProcessCheck). It composes `RangeSelector` and `StatusCode` on shared variables. | `stage` follows the handler. The contact actions are: argument parsing, PIN verification, the continue prompt, listing and display, the selection (the RangeSelector steps), and the mutating remote call with its report. The share actions are: remove_share's argument check, one `raw_input` of its `[Y/N]` loops (AskShare), the two decisions after them (RemoveConfirmed, RemoveShare), add_share's argument, listing and path checks, and isRemote/shutdown. The identity actions are: restore's argument check (RestoreArgs), the backup prompt of reset and restore (AskBackup), one round of the password loop of reset and init (EnterPasswords; `password1`, `password2` start as the distinct sentinels `passwd1`/`passwd2`), and the one remote call of each command (IdentityCall, with the status report of those in `Reported`). RemoteFails is a D-Bus failure at any remote call. `mutation` and `remoteCall` record what was sent to the backend; `prompts` records the valid answers given; `exitcode` is the process status. |
| `Tray` | The tray icon (panbox_tray_icon.py): `main()` up to `gtk.main()` and the four menu callbacks, against a backend process that stops and starts at any moment. | `up` is the backend; `tray` follows main() (`start`, `locale`, `localecall`, `ui`, `running`, `quit`, `crashed`); `cb`/`cbstage` are the callback running on the main loop and whether it is at `get_dbus_method` or at the call. ParseOpt, LocaleLookup, LocaleCall, StartUi, Click, Lookup, Call. With the backend down at start-up, LocaleLookup ends main() with NameError: get_dbus_method's except branch calls `_()` (line 69) before `lang.install()` (93) defines it. `bound` says whether the proxy of the last lookup still reaches a live backend: get_object binds it to the backend's unique name, so after a BackendStop the call fails even when a new backend has started. `OpenPanboxFolder` is open_panbox_folder's choice of path. It also models the notification service (panbox_tray_dbus_interface.py): StartUi exports `PanboxTrayInterface` (`service`) just before `gtk.main()`. The backend's `Notify(m)` queues `show_notification` calls in `inbox` only while the tray runs, and records in `sentAt` where the tray was. ShowNotification is the main loop dispatching one of them between callbacks (`shownMsgs`). |
| `Nautilus` | The Nautilus extension (nautilus_panbox.py): `__init__`/`set_language`, `get_file_items_full`, `get_background_items_full` and the menu items' callbacks. | URIs are character sequences, and `startswith`, `os.path.dirname`, `str.replace` and `split("/")` are operators that do what Python does. `pc` follows one provider call: the first `get_mount_point` (MountPoint1), the second one with the menu decision (FileItems, BackgroundItems), the storage-type lookups (ShareType1 at 153, ShareType2 at 166). Each step that uses the backend has an outcome from `Outcomes`: answered, lookup failed (`-1` or `None`), or the backend stopped after the lookup so the call raises. Activate runs an item's callback. |

Tokens are encoded as follows. After `replace(" ","").split(",")`, each token
is the list of its `split("-")` parts. A part is a natural number, or the
model value `NaN` for text that `int()` rejects. An input of `k` tokens is a
sequence of such lists. Identifiers are model values (`c1..c3`). vCard entries
are numbers, because `import_identity` displays them.

In `Tray` and `Nautilus` the backend is the environment: `BackendStop` and
`BackendStart` may happen between any two steps of a client. A lookup that
finds the bus name and a call that finds it gone is exactly the window that
`get_dbus_method` followed by `method()` leaves open.

## Runs

| Run | Cfg | Expect | Shows |
|---|---|---|---|
| status_codes | MCStatusCode.cfg | pass | For every code in -1..255 and every message, both policies print green exactly for codes whose outcome field is OK. Every diagnostic names the code's two fields, checked against a Bitwise reference decoder. |
| status_malformed | MCStatusCode_malformed.cfg | violation | Codes outside 0..255 with a zero low nibble (-16, 256) print success. |
| selection | MCRangeSelector.cfg | pass | The loop refines `Selection` (SelectionRefined) and always terminates (Termination), under weak fairness. |
| selection_malformed | MCRangeSelector_malformed.cfg | violation | `--` or `0-0-0` is skipped silently, but the spec says it is a RangeError. |
| cli | MCCli.cfg | pass | Import is authenticated only after a successful PIN check, and runs only without an explicit "N"/"n". The numbers shown are the indices the selection uses when vCard entries are numbered from 0. A share is removed only after a confirmation other than N/n, and its data source is deleted exactly when the second, separately asked question was answered Y/y (RemovalAsConfirmed). Both loops share one `answer` variable, and only the reset at 254 makes the second question be asked. `--status` reports a component running exactly when a process naming it runs, although the check's own pipeline names it too (StatusMatchesProcesses). |
| contacts_display | MCCli_display.cfg | violation | With vCard entries numbered from 1, the number a user reads and types selects the next entry. |
| contacts_exit | MCCli_exit.cfg | violation | A failed selection or D-Bus failure ends the process with status 0. |
| tray | MCTray.cfg | pass | Every menu callback returns to the GTK main loop (CallbacksReturn), whenever the backend stops or starts, and no `-1` sentinel reaches `xdg-open` (TypeOK). A notification the backend sends while the tray runs is shown, even when it arrives during a callback, unless the user quits first (NotificationsShown). The mutant that exports the service after `gtk.main()` breaks it. |
| tray_ui | MCTray_ui.cfg | violation | The UI created is not the one lines 55-59 and 216-222 describe. `opt in ("--tray-gtk")` is a substring test, so no argument selects GTK. And since main() assigns `use_appindicator` on every path, the import fallback is a different (global) variable: without appindicator, main() raises NameError. |
| nautilus | MCNautilus.cfg | pass | The background menu is offered exactly for the Panbox folder and the folders below it, and "Add Share" exactly in the folder itself, compared with a field-wise reference (BackgroundMenuMatchesFolder). Every menu request ends, with or without a menu, whatever the backend does (RequestsComplete). |
| nautilus_sibling | MCNautilus_sibling.cfg | violation | The file menu's `startswith(panbox_folder)` has no "/", so a sibling `~/PX` of `~/P` gets the Panbox menu. |
| nautilus_sharename | MCNautilus_sharename.cfg | violation | The share name at 152/165 strips the constant `PANBOX_FOLDER`, not the mount point the menu was computed from. With mount point `/m`, the storage type of share `""` is asked. |

Each property of a passing run has a mutant, listed in PROJECT.json: a
plausible bug in the mapped definition that TLC must catch. Examples: a
background test without the "/", a `panbox_folder` without `file://`, a
mount-point lookup that waits for the backend instead of failing, and a call
assumed to succeed once its lookup did.

### Observations not given a run of their own

- `import_identity` (432): with a vCard and an option other than
  `--noverification` (e.g. `card.vcf --noverify`), `vcard` stays `""` and the
  CLI imports the vCard `""`. Cli models the argument shapes
  (ImportArgs).
- `open_panbox_folder` (134-135): the fallback to `PANBOX_FOLDER` sits under
  `if mount != -1` and is dead. With the backend gone, "Open Panbox Folder"
  opens nothing (Tray!OpenPanboxFolder).
- `get_file_items_full` (119-122, and 182-185): `get_mount_point` returns
  `None` when the lookup fails, so `'file://' + None` raises TypeError and the
  `PANBOX_FOLDER` fallback is dead (Nautilus!MountPoint2Failed). The state
  `result = "TypeError"` is reached in the nautilus run.
- A sibling regular file `~/Pa` makes line 165 raise IndexError.
- The tray cannot start without a backend: the failure path of
  `get_dbus_method` raises NameError at line 69 before `_` is installed, so
  set_language's default-locale branch (90-91) is dead at start-up.

## Bounds

- **Status codes:** every code in `{-1} \cup 0..255` is enumerated, which is
  the whole domain. The malformed run adds -32, -16 and 256..272.
- **Selection:** item lists have 0..3 elements. Token parts are 0..3 or NaN,
  so they reach both sides of every bound (`< len`, `>= len`). Tokens have one
  or two parts, and three parts only over {0, NaN}. Inputs have one or two
  tokens, which is enough for "a later token fails after an earlier one was
  accumulated" and for reversed intervals.
- **Contacts:** the same lists and inputs. There are three status codes: OK,
  PIN failure and contact-exists. The answers are Y, N, n and "".
- **Shares:** `-rs` with and without a name. `-as` with an existing
  directory, a missing path, and an argument short. getShares returns none,
  the same share, or another one. The prompt answers are n, Y, "" and one the
  loops reject, which is enough to take each loop once more and to tell ""
  (yes to the first question, no to the second) from Y.
- **Identity:** `--restore` with no file, one file and two. The backup
  answers are the same four. There are two passwords, so a round can match
  or mismatch, and a mismatched pair followed by the swapped pair is reached.
  The typed names, addresses and file contents decide nothing and are left
  out.
- **Process check:** zero, one or two other processes, each a process of
  none of the checked programs or of one of them, so that "none", "one"
  and "two" (a count above the threshold) all occur.
- **Tray:** the options are "", `--tray-gtk`, `--tray-appindicator`, `gtk` (a
  substring of `--tray-gtk`) and `-x` (unknown). appindicator is installed or
  not. The locales are a translated one, an untranslated one, and
  `system_default`. The backend is up or down at start and toggles freely.
  There are two notifications, so one can wait behind another, or behind a
  callback.
- **Nautilus:** home `/h`, `~/Panbox` = `/h/P`, and another mount point `/m`.
  Entries are the folder, a share and a file in it under both mount points,
  plus the siblings `/h/PX` (folder) and `/h/Pa` (file). Selections are every
  single entry and every ordered pair, so "the last file decides" and "any
  file starts with" differ. The storage types are Dropbox and Directory. One
  character per path component is enough: the bugs turn on the presence of a
  "/", not on name length.

## Fairness

`RangeSelector` and `Cli` assume `WF_vars(Next)`. A CLI process is
one sequential Python process that keeps running until it returns or exits.
The only waiting points are user input and D-Bus calls, and their results are
chosen by `\E` in the same step. Those cfgs set `CHECK_DEADLOCK FALSE`
because a finished process really does stop.

`Tray` assumes weak fairness only for the tray's own steps (`TrayStep`).
`Nautilus` assumes it only for the handler's steps and `__init__`. A callback
or provider runs to its end on the GTK main loop, and every D-Bus call in them
either answers or raises. The user's clicks and requests, and the backend's
life, get no fairness: the backend may stay down forever. This is why
RequestsComplete and CallbacksReturn hold only because every failed lookup is
handled without waiting. The mutant `MountPoint1Waits` shows what breaks
without that.

`Tray` assumes strong fairness for `ShowNotification`. A queued D-Bus call is
a ready GLib source. With `DBusGMainLoop` (dbus interface, line 55) each
iteration of the main loop dispatches every ready source of its priority,
so a user who keeps clicking cannot pass the call over for ever. Between two
clicks the call is enabled only while no callback runs, which is why weak
fairness would not express this.

## Not modelled, and why

- **Two CLI processes adding the same share** (add_share 278-286 checks
  getShares, then asks for the password, then calls addShare). Whether the
  second addShare is refused is up to the backend, which is not in this
  repository. The CLI's check is advisory, so no property could tell a right
  outcome from a wrong one.
- **A mutating call that times out** (NoReply at 594, 264, 286): RemoteFails
  lets the backend have carried it out or not. The spec (section 5) leaves
  retry and timeout behaviour to the transport, so there is no stated outcome
  to check the CLI's report against.
- **Notifications sent before the tray runs** (line 241 comes after
  set_language and the UI) are lost with ServiceUnknown. Tray!Notify models
  this, but no property states it: the spec promises nothing for them.
- **A backend calling show_notification synchronously while it serves a
  tray callback**: both would wait until the D-Bus timeout. Whether the Java
  backend does this is not in this repository.
- **Whose processes `--status` sees**: `ps -ef` lists every user's
  processes, and grep matches substrings (`less panbox_backend.log`). The
  spec puts process checks out of scope, so no property says what should
  count. ProcessCheck lists only lines of the checked programs.
- **reset/restore's backup answer** is not validated: "" or a typo means no
  backup (AskBackup). The spec does not say what should happen, so no
  property states it.

The following are left out for good:

- `--help` and the bare start (`start.sh`): printing and a subprocess.
- The constants: constant data. The notification's text, icon and timeout.
- Text formatting and colours.
- Dead code in the tray: `add_shares_menu`, `get_shares`, `is_mounted`,
  `mount_unmount`, `mount` and `unmount` are never connected to a widget.
- Dead code in Nautilus: `get_file_status` and `update_file_info_full`
  (overlays, commented out).
- `urllib.unquote`: URIs are taken as already unquoted.
