---------------------------- MODULE MCTimeseries ----------------------------
(* An instance of Timeseries for TLC. *)
EXTENDS Timeseries

Row(g, t, d, v) == [geo |-> g, time |-> t, dim |-> d, val |-> v]

SampleRows ==
  {Row("a", 1, "x", 1), Row("a", 1, "y", 5), Row("a", 2, "x", None), Row("a", 2, "y", 4),
   Row("b", 2, "x", 9), Row(None, 2, "x", 3)}

\* Wider tables, in which something can be an outlier.
Wide ==
  {<<Row("a", 2, "x", 1), Row("b", 2, "x", 2), Row("c", 2, "x", 2), Row("e", 2, "x", 50)>>,
   <<Row("a", 2, "x", 1), Row("a", 1, "x", 0), Row("c", 2, "x", 3), Row("e", 2, "x", -70)>>,
   <<Row("a", 2, "x", 3), Row("b", 2, "x", 3), Row("c", 2, "x", 3), Row("e", 2, "x", 4)>>,
   <<Row("a", 2, "x", 3), Row("b", 2, "x", 3), Row("c", 2, "x", 2), Row("e", 2, "x", 4),
     Row("f", 2, "x", 5), Row("h", 2, "x", 5)>>}

MCTables == UNION {[1..n -> SampleRows] : n \in 0..3} \cup Wide
MCServers == {s \in [cap : {1, 5}, totals : BOOLEAN, filters : BOOLEAN] : s.totals \/ s.filters}
MCRefSets == {{"a"}, {"a", "b"}}
MCDims == {Every, "x"}
MCThresholds == {None, -1, 3, 9}
=============================================================================
