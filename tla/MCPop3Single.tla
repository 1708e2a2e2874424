---------------------------- MODULE MCPop3Single ----------------------------
(***************************************************************************)
(* The single-session instance of Pop3Session, on which it is checked to   *)
(* implement Pop3Mailbox.                                                  *)
(***************************************************************************)
EXTENDS MCPop3Session, Pop3SingleMailbox

=============================================================================
