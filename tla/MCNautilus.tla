----------------------------- MODULE MCNautilus -----------------------------
(* Model-checking instance of Nautilus.                                   *)
EXTENDS Nautilus

CONSTANTS none

\* "file://", the home directory "/h" and ~/Panbox = "/h/P"; another mount
\* point "/m" the backend may be configured with.
MCScheme == <<"f", "i", "l", "e", ":", "/", "/">>
Home == <<"/", "h">>
PanboxPath == Home \o <<"/", "P">>
OtherMount == <<"/", "m">>
MCPanboxFolder == MCScheme \o PanboxPath
MCMountPoints == {PanboxPath, OtherMount}

E(path, isfile) == [uri |-> MCScheme \o path, isfile |-> isfile]

\* The Panbox folder, a share in it and a file of that share, under either
\* mount point; a sibling folder "/h/PX" and a sibling file "/h/Pa" whose
\* names extend "P".
MCEntriesBelow ==
  {E(PanboxPath, FALSE), E(PanboxPath \o <<"/", "s">>, FALSE),
   E(PanboxPath \o <<"/", "s", "/", "a">>, TRUE),
   E(OtherMount, FALSE), E(OtherMount \o <<"/", "s">>, FALSE),
   E(OtherMount \o <<"/", "s", "/", "a">>, TRUE)}
MCSiblings == {E(Home \o <<"/", "P", "X">>, FALSE), E(Home \o <<"/", "P", "a">>, TRUE)}
MCEntries == MCEntriesBelow \cup MCSiblings

Sels(es) == {<<e>> : e \in es} \cup {<<e, f>> : e, f \in es}
MCSelections == Sels(MCEntries)
MCSelectionsBelow == Sels(MCEntriesBelow)

MCTypes == {"Dropbox", "Directory"}
=============================================================================
