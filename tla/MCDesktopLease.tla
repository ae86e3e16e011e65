---------------------------- MODULE MCDesktopLease ----------------------------
(***************************************************************************)
(* Instances of DesktopLease for TLC.                                      *)
(***************************************************************************)
EXTENDS DesktopLease, TLC

AllFaults == PossibleFaults
GiveUpAndStop == {"stop", "refuse"}

\* Launches are interchangeable (only their identity tells them apart, and no step prefers
\* one), so that a liveness property of all of them is checked for one.
Watched == CHOOSE i \in Launches : TRUE

\* The watched launcher, whatever the other does, comes to its end after its worker's.
WatchedLauncherReturns == LauncherReturns(Watched)

\* launchMutex_ comes free of the watched launch unless its coordinator gave up.
OnlyWatchedGivingUpBlocks == OnlyGivingUpBlocks(Watched)
=============================================================================
