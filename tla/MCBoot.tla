------------------------------- MODULE MCBoot -------------------------------
(***************************************************************************)
(* Bring-up alone, of every build on both kinds of controller.             *)
(***************************************************************************)
EXTENDS Boot

AllBoards == [build : {"base", "dtls", "oscore"}, can_detect_vbus : BOOLEAN]

=============================================================================
