-------------------------- MODULE MCBuildProcesses --------------------------
(* Model of concurrent runs of the build script over a few split files. *)
EXTENDS BuildProcesses

CONSTANTS p1, p2, h1, h2, nobody
=============================================================================
