-------------------------- MODULE MCDownloadService --------------------------
(***************************************************************************)
(* Instances of DownloadService for TLC.                                   *)
(***************************************************************************)
EXTENDS DownloadService, TLC

CONSTANTS a, b, c

\* Two models that depend on each other, one of them on a third.
Loop == (a :> {b}) @@ (b :> {a, c}) @@ (c :> {})

===========================================================================
