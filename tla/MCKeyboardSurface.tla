-------------------------- MODULE MCKeyboardSurface --------------------------
(* KeyboardSurface with two monitors and a surface that is not forgotten.  *)
EXTENDS KeyboardSurface
=============================================================================
