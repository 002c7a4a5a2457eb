--------------------------- MODULE MCWorkspaceChat ---------------------------
(* The data sources of the bounded instances of WorkspaceChat.             *)
EXTENDS WorkspaceChat

CONSTANTS w1, w2
=============================================================================
