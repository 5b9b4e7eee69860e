-------------------------------- MODULE MCPaging --------------------------------
(* A mailbox for TLC, and a cursor of another user's that its reader sends. *)
EXTENDS Paging, TLC

MCForeign == {[feed |-> "another mailbox", window |-> 0, last |-> 0]}
=============================================================================
