----------------------------- MODULE MC_BleClient -----------------------------
(* One radio, a few connections, both kinds of request.                      *)
EXTENDS BleClient
CONSTANT t
=============================================================================
