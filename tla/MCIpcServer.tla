---------------------------- MODULE MCIpcServer ----------------------------
EXTENDS IpcServer, TLC
CONSTANTS c1, c2

(* A command in two parts, which one connection's clients cut between two  *)
(* characters and the other's within one, and a subscription, which those  *)
(* of the first ask for twice.                                             *)
CallOrSubscribe ==
    (c1 :> {<<"head", "tail">>, <<"osk", "osk">>}) @@ (c2 :> {<<"torn", "tail">>, <<"osk">>})
=============================================================================
