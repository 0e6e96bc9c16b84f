----------------------------- MODULE MCSidecar ------------------------------
(* Small instances of Sidecar for TLC. *)
EXTENDS Sidecar
=============================================================================
