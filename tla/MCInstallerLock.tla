---------------------------- MODULE MCInstallerLock ----------------------------
(* Three runs of InstallerLock for TLC. *)
EXTENDS InstallerLock

CONSTANTS r1, r2, r3

ThreeRuns == {r1, r2, r3}
================================================================================
