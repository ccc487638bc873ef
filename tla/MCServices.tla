------------------------------ MODULE MCServices ------------------------------
(* Small instances of the services. *)
EXTENDS Services

GateDelays == {1, 3}

\* Surveys 1 and 2, documents 3 and 4; ties, no match, no chunk, a chunk of a study that
\* the block does not reach.
StudyTypes == <<"survey", "survey", "document", "document">>
StudyScorings == {<<2, 0, 1, 1>>, <<0, 1, 2, 2>>, <<1, 2, 3, 4>>}
StudyRankings == {<<>>, <<1, 2>>, <<3, 1, 2>>}

\* Five chunks of three idnos; the nearest four are above the threshold.
ChunkIdnos == <<"i1", "i1", "i2", "i2", "i3">>
SparseOrder == <<4, 2, 1, 5>>
DenseOrder == <<3, 1, 5, 2, 4>>

\* NADA's record has both keys or none, a request the first.
Keyed(ks) == [k \in {"country", "topic"} |-> IF k \in ks THEN "v" ELSE None]
FilterBodies == {Keyed({"country"})}
FilterRecords == {Keyed({}), Keyed({"country", "topic"})}
=============================================================================
