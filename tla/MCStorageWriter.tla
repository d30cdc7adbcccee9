-------------------------- MODULE MCStorageWriter ---------------------------
(* Bounds for checking StorageWriter with TLC. *)
EXTENDS StorageWriter
=============================================================================
