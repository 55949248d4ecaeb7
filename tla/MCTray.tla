------------------------------- MODULE MCTray -------------------------------
(* Model-checking instance of Tray.                                       *)
EXTENDS Tray

CONSTANTS mp, nopath, m1, m2

\* Option strings, character by character: the two documented options, no
\* option, a substring of "--tray-gtk" and an unknown option.
MCGtkOpt == <<"-", "-", "t", "r", "a", "y", "-", "g", "t", "k">>
MCAppindicatorOpt ==
  <<"-", "-", "t", "r", "a", "y", "-", "a", "p", "p", "i", "n", "d", "i", "c",
    "a", "t", "o", "r">>
MCOpts == {<<>>, MCGtkOpt, MCAppindicatorOpt, <<"g", "t", "k">>,
           <<"-", "x">>}

\* The system's locale, what the backend may report, and the catalogues.
MCDefaultLocales == {"de_DE", "fr_FR"}
MCBackendLocales == {"system_default", "en_US"}
MCTranslated == {"de_DE", "en_US"}
=============================================================================
