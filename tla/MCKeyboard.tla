----------------------------- MODULE MCKeyboard -----------------------------
(***************************************************************************)
(* Instance of module Keyboard for TLC: a scan code set with a dead code,  *)
(* a letter and the caps lock.                                             *)
(***************************************************************************)
EXTENDS Keyboard, TLC

MCScanSet == (0 :> 0) @@ (1 :> 65) @@ (2 :> 0)

=============================================================================
