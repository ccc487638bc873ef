-------------------------- MODULE MCCatalogIngest ---------------------------
(* Small instances of CatalogIngest for TLC. *)
EXTENDS CatalogIngest

\* Two studies: one with text, the other empty (no chunks). With its study
\* document the first is two documents on OpenSearch; for Qdrant, which has no
\* study documents, it gets two chunks.
MCStudy == {"s1", "s2"}
MCChunks == [b \in {"opensearch", "qdrant"} |->
               [s \in MCStudy |-> IF s = "s2" THEN 0 ELSE IF b = "qdrant" THEN 2 ELSE 1]]
=============================================================================
