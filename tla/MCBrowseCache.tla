--------------------------- MODULE MCBrowseCache ----------------------------
(* BrowseCache for TLC.                                                     *)
EXTENDS BrowseCache
=============================================================================
