----------------------------- MODULE MCInstall ------------------------------
(***************************************************************************)
(* Instances of Install for TLC.                                           *)
(***************************************************************************)
EXTENDS Install

\* With OATH_RESOLVER unset.
ArboristCommands == AllCommands \ {"legacy"}

\* The legacy resolver, whose links are junctions, beside a planned installation.
WindowsCommands == {"legacy", "install", "clear"}
=============================================================================
