----------------------------- MODULE MCLargeFile -----------------------------
(* Two streams that send file after file of up to two blocks; a spare of each *)
(* class for Margin 16 that moves the level or the mode, and a level range    *)
(* crossed in a window or two.                                                *)
EXTENDS LargeFile

LowLevel == -1
==============================================================================
