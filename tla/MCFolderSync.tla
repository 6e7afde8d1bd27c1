---------------------------- MODULE MCFolderSync ----------------------------
(* FolderSync on small instances: the inbox and one more folder.            *)
EXTENDS FolderSync, TLC

TwoFolders == <<"inbox", "archive">>
MessageSymmetry == Permutations(Message)
=============================================================================
