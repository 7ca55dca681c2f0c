----------------------------- MODULE MCInstall -----------------------------
(* Install with the pins of the script and a release whose name extends one. *)
EXTENDS Install
MCExtends == {<<"0.92.20", "0.92.2">>}
=============================================================================
