------------------------- MODULE MCOnScreenKeyboard -------------------------
(* OnScreenKeyboard with a short history and few clicks.                   *)
EXTENDS OnScreenKeyboard
=============================================================================
