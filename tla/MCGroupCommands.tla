--------------------------- MODULE MCGroupCommands ---------------------------
(***************************************************************************)
(* GroupCommands for TLC.  MCGroupCommands.cfg: two workers, three things  *)
(* made, a group that grows, shrinks and changes hands; a library that     *)
(* loads everywhere or nowhere.  MCGroupCommandsWrap.cfg: six library IDs  *)
(* and six libraries.  MCGroupCommandsPartial.cfg: libraries that load     *)
(* everywhere, nowhere, not in one of the workers, or not in the driver    *)
(* alone.                                                                  *)
(***************************************************************************)
EXTENDS GroupCommands
=============================================================================
