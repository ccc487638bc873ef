--------------------------- MODULE MCJobRegistry ----------------------------
(* Small instances of JobRegistry for TLC. *)
EXTENDS JobRegistry

\* A whole-catalog ingest takes the semaphore and has a token, an index operation
\* neither. An ingest of named studies, with the semaphore and no token, does nothing
\* of its own: as far as the registry can tell it is a whole-catalog ingest whose
\* token is never set (nobody cancels it, or its thread ends before it looks).
MCKind == {"full", "plain"}
MCGuarded == {"full"}
MCStoppable == {"full"}
=============================================================================
