-------------------------- MODULE MCUpdateResponses --------------------------
(* Small instances of UpdateResponses for TLC. *)
EXTENDS UpdateResponses, TLC
=============================================================================
