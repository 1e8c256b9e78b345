-------------------------- MODULE MCMessageSender --------------------------
(***************************************************************************)
(* A primary device that may register again and a second device that may   *)
(* be linked and unlinked.                                                 *)
(***************************************************************************)
EXTENDS MessageSender

SmallRegistrationIds == <<{1, 2}, {1}>>

=============================================================================
