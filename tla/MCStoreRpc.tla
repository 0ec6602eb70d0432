----------------------------- MODULE MCStoreRpc -----------------------------
(* A caller and one with another secret, each of which may leave behind a  *)
(* connection, call a server that serves one session at a time.            *)
EXTENDS StoreRpc
=============================================================================
