-------------------------- MODULE MCBrokerSessions --------------------------
(***************************************************************************)
(* Instances of BrokerSessions for TLC.                                    *)
(***************************************************************************)
EXTENDS BrokerSessions, TLC

WorkerSymmetry == Permutations(Workers)

LaunchesOnly == LaunchOperations
ConsoleOnly == {"console"}
ConsoleManaged == {"console"} \cup ManagementOperations
=============================================================================
