----------------------- MODULE MCCodingWorkspaceService -----------------------
(* Instances of CodingWorkspaceService for TLC.                            *)
EXTENDS CodingWorkspaceService
=============================================================================
