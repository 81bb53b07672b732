---------------------------- MODULE MCDriveSync ----------------------------
(***************************************************************************)
(* Small instances of DriveSync: the folder trees and the symmetries the   *)
(* .cfg files choose from.                                                 *)
(***************************************************************************)
EXTENDS DriveSync, TLC

\* A folder without sub-folders, and every other folder under the root.
MCFlat == [f \in Folder |-> {}]
MCTree == [f \in Folder |-> IF f = Root THEN Folder \ {Root} ELSE {}]

MCContents == Permutations(DriveContent)
MCSymmetry == Permutations(DriveContent) \cup Permutations(Name) \cup Permutations(Item)
              \cup Permutations(Run)
=============================================================================
