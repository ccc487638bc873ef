------------------------ MODULE CatalogIngestProofs -------------------------
(***************************************************************************)
(* Proofs about CatalogIngest, for any catalog, backend and number of      *)
(* runs. As long as nobody recreates the index, what a checkpoint says is  *)
(* done is written, old chunks outlive the writing of the new ones, and    *)
(* NADA is told of no study as indexed that is not there.                  *)
(***************************************************************************)
EXTENDS CatalogIngest, FiniteSetTheorems, TLAPS

\* A document belongs to one study, and is one of that study's documents.
LEMMA DocStudy ==
  /\ \A s \in Study : DocsOf(s) \subseteq Doc /\ ChunksOf(s) \subseteq DocsOf(s)
  /\ \A s : \A d \in DocsOf(s) : d[1] = s
  /\ \A d \in Doc : d[1] \in Study
<1>1. \A s : \A d \in DocsOf(s) : d[1] = s
  BY DEF DocsOf, ChunksOf
<1>2. \A s \in Study : DocsOf(s) \subseteq Doc /\ ChunksOf(s) \subseteq DocsOf(s)
  <2> SUFFICES ASSUME NEW s \in Study
               PROVE  DocsOf(s) \subseteq Doc /\ ChunksOf(s) \subseteq DocsOf(s)
    OBVIOUS
  <2>1. \A i \in 1 .. Chunks[backend][s] : <<s, i>> \in Doc  BY DEF Doc
  <2>2. <<s, 0>> \in Doc  BY DEF Doc
  <2> QED  BY <2>1, <2>2 DEF DocsOf, ChunksOf
<1>3. \A d \in Doc : d[1] \in Study  BY DEF Doc
<1> QED  BY <1>1, <1>2, <1>3

\* The backend stays, and so do the documents a study has on it.
LEMMA SameDocs ==
  ASSUME UNCHANGED backend
  PROVE  \A s : DocsOf(s)' = DocsOf(s) /\ ChunksOf(s)' = ChunksOf(s)
  BY DEF DocsOf, ChunksOf, OpenSearch

\* The number of studies in a checkpoint is a number.
LEMMA CountType == \A S \in SUBSET Study : Cardinality(S) \in Nat
  BY CatalogAssumption, FS_Subset, FS_CardinalityType

\* A run that has not begun, or is over, is a run state.
LEMMA BlankRuns == Idle \in RunState /\ Over \in RunState
  BY DEF Idle, Over, RunState

-----------------------------------------------------------------------------
(* Type correctness.                                                       *)

\* mark() keeps a run state one, and the file a checkpoint.
LEMMA MarkType ==
  ASSUME TypeOK, NEW r \in Run, NEW c \in RunState, NEW s \in Study, NEW ok \in BOOLEAN,
         Mark(r, c, s, ok)
  PROVE  run' \in [Run -> RunState] /\ file' \in Checkpoint \cup {NoFile}
<1> DEFINE full == c.since + 1 >= SaveEvery \/ c.processed + 1 >= Total
           m == [c EXCEPT !.done = IF ok THEN @ \cup {s} ELSE @,
                          !.failed = IF ok THEN @ \ {s} ELSE @ \cup {s},
                          !.processed = @ + 1,
                          !.since = IF full THEN 0 ELSE @ + 1]
           D == IF ok THEN c.done \cup {s} ELSE c.done
           F == IF ok THEN c.failed \ {s} ELSE c.failed \cup {s}
           n == IF full THEN 0 ELSE c.since + 1
<1>0. D \in SUBSET Study /\ F \in SUBSET Study /\ n \in Nat /\ c.processed + 1 \in Nat
  BY DEF RunState
<1>1. m \in RunState
  <2>1. m = [c EXCEPT !.done = D, !.failed = F, !.processed = c.processed + 1, !.since = n]
    OBVIOUS
  <2> HIDE DEF D, F, n
  <2> QED  BY <1>0, <2>1 DEF RunState
<1> HIDE DEF full
<1>2. run' = [run EXCEPT ![r] = m]  BY DEF Mark, full
<1>3. file' = [done |-> m.done, failed |-> m.failed] \/ file' = file
  BY DEF Mark, Save, full
<1>4. m.done \in SUBSET Study /\ m.failed \in SUBSET Study  BY <1>1 DEF RunState
<1> HIDE DEF m
<1>5. run' \in [Run -> RunState]  BY <1>1, <1>2 DEF TypeOK
<1>6. file' \in Checkpoint \cup {NoFile}  BY <1>3, <1>4 DEF TypeOK, Checkpoint
<1> QED  BY <1>5, <1>6

\* A run state with fields replaced by fields of their types.
LEMMA StepType ==
  ASSUME TypeOK, UNCHANGED backend, NEW r \in Run, Step(r)
  PROVE  TypeOK'
<1> DEFINE c == run[r]
<1>0. c \in RunState  BY DEF TypeOK
<1>1. ASSUME NEW s \in Study, Load(r, s) PROVE TypeOK'
  <2> DEFINE d == [c EXCEPT !.todo = @ \ {s}]
             l == [d EXCEPT !.loaded = @ \cup {s}, !.pending = @ \cup DocsOf(s)]
  <2>1. d \in RunState  BY <1>0 DEF RunState
  <2>2. l \in RunState  BY <2>1, DocStudy DEF RunState
  <2>3. \/ Mark(r, d, s, FALSE)
        \/ Mark(r, l, s, TRUE)
        \/ run' = [run EXCEPT ![r] = l] /\ UNCHANGED file
    BY <1>1 DEF Load
  <2>4. UNCHANGED <<index, old, vars, reported, recreated>>  BY <1>1 DEF Load
  <2> HIDE DEF d, l
  <2>5. run' \in [Run -> RunState] /\ file' \in Checkpoint \cup {NoFile}
    <3>1. CASE Mark(r, d, s, FALSE)  BY <3>1, <2>1, MarkType
    <3>2. CASE Mark(r, l, s, TRUE)  BY <3>2, <2>2, MarkType
    <3>3. CASE run' = [run EXCEPT ![r] = l] /\ UNCHANGED file  BY <3>3, <2>2 DEF TypeOK
    <3> QED  BY <2>3, <3>1, <3>2, <3>3
  <2> QED  BY <2>4, <2>5 DEF TypeOK
<1>2. ASSUME NEW batch \in SUBSET c.pending, NEW bad \in SUBSET batch, Send(r, batch, bad)
      PROVE  TypeOK'
  <2> DEFINE e == [c EXCEPT !.pending = @ \ batch, !.answered = batch, !.rejected = @ \cup bad]
  <2>1. e \in RunState  BY <1>0 DEF RunState
  <2>4. run' = [run EXCEPT ![r] = e]  BY <1>2 DEF Send
  <2> HIDE DEF e
  <2>2. run' \in [Run -> RunState]  BY <2>1, <2>4 DEF TypeOK
  <2>3. index' \subseteq Doc  BY <1>0, <1>2 DEF Send, TypeOK, RunState
  <2> QED  BY <1>2, <2>2, <2>3 DEF Send, TypeOK
<1>3. ASSUME NEW d \in c.answered, Confirm(r, d) PROVE TypeOK'
  <2> DEFINE e == [c EXCEPT !.answered = @ \ {d}]
             ok == DocsOf(d[1]) \cap e.rejected = {}
  <2>1. e \in RunState  BY <1>0 DEF RunState
  <2>2. d[1] \in Study  BY <1>0, DocStudy DEF RunState
  <2>3. \/ Mark(r, e, d[1], ok)
        \/ run' = [run EXCEPT ![r] = e] /\ UNCHANGED file
    BY <1>3 DEF Confirm
  <2>4. UNCHANGED <<index, old, vars, reported, recreated>>  BY <1>3 DEF Confirm
  <2>0. ok \in BOOLEAN  OBVIOUS
  <2> HIDE DEF e, ok
  <2>5. run' \in [Run -> RunState] /\ file' \in Checkpoint \cup {NoFile}
    <3>1. CASE Mark(r, e, d[1], ok)  BY <3>1, <2>0, <2>1, <2>2, MarkType
    <3>2. CASE run' = [run EXCEPT ![r] = e] /\ UNCHANGED file  BY <3>2, <2>1 DEF TypeOK
    <3> QED  BY <2>3, <3>1, <3>2
  <2> QED  BY <2>4, <2>5 DEF TypeOK
<1>4. CASE Prune(r)
  <2>1. [c EXCEPT !.pc = "finalize"] \in RunState  BY <1>0 DEF RunState
  <2>2. run' \in [Run -> RunState]  BY <2>1, <1>4 DEF Prune, TypeOK
  <2> QED  BY <1>4, <2>2 DEF Prune, TypeOK
<1>5. CASE Abort(r)
  <2>1. [c EXCEPT !.pc = "finalize", !.pending = {}, !.aborted = TRUE] \in RunState
    BY <1>0 DEF RunState
  <2>2. run' \in [Run -> RunState]  BY <2>1, <1>5, BlankRuns DEF Abort, TypeOK
  <2>3. index' \subseteq Doc  BY <1>0, <1>5 DEF Abort, TypeOK, RunState
  <2>4. file' \in Checkpoint \cup {NoFile}
    BY <1>0, <1>5 DEF Abort, Save, TypeOK, RunState, Checkpoint
  <2> QED  BY <1>5, <2>2, <2>3, <2>4 DEF Abort, TypeOK
<1>6. CASE Finalize(r)
  <2>0. VariablesOf(r) \subseteq Study  BY <1>0 DEF VariablesOf, RunState
  <2>1. [c EXCEPT !.pc = "report", !.novars = VariablesOf(r)] \in RunState
    BY <1>0, <2>0 DEF RunState
  <2>2. [c EXCEPT !.pc = "variables"] \in RunState  BY <1>0 DEF RunState
  <2>3. run' \in [Run -> RunState]  BY <2>1, <2>2, <1>6 DEF Finalize, TypeOK
  <2>4. file' \in Checkpoint \cup {NoFile}
    BY <1>0, <1>6 DEF Finalize, Save, TypeOK, RunState, Checkpoint
  <2> QED  BY <1>6, <2>3, <2>4 DEF Finalize, TypeOK
<1>7. ASSUME NEW synced \in SUBSET VariablesOf(r), Variables(r, synced) PROVE TypeOK'
  <2>0. VariablesOf(r) \subseteq Study  BY <1>0 DEF VariablesOf, RunState
  <2>1. [c EXCEPT !.pc = "report", !.novars = VariablesOf(r) \ synced] \in RunState
    BY <1>0, <2>0 DEF RunState
  <2>2. run' \in [Run -> RunState]  BY <2>1, <1>7 DEF Variables, TypeOK
  <2>3. vars' \subseteq Study  BY <2>0, <1>7 DEF Variables, TypeOK
  <2> QED  BY <1>7, <2>2, <2>3 DEF Variables, TypeOK
<1>8. CASE Report(r)
  <2>1. run' \in [Run -> RunState]  BY <1>8, BlankRuns DEF Report, TypeOK
  <2>2. reported' \in [Study -> {"none", "indexed", "failed"}]
    BY <1>8 DEF Report, TypeOK
  <2> QED  BY <1>8, <2>1, <2>2 DEF Report, TypeOK
<1> QED  BY <1>1, <1>2, <1>3, <1>4, <1>5, <1>6, <1>7, <1>8 DEF Step

\* TypeOK holds at the start.
LEMMA TypeInit == Init => TypeOK
  BY CatalogAssumption, BlankRuns DEF Init, TypeOK

\* Every step keeps TypeOK.
LEMMA TypeNext == TypeOK /\ [Next]_allVars => TypeOK'
<1> SUFFICES ASSUME TypeOK, [Next]_allVars PROVE TypeOK'  OBVIOUS
<1>0. UNCHANGED backend  BY DEF Next, allVars
<1>1. ASSUME NEW r \in Run, NEW request \in Requests, Start(r, request) PROVE TypeOK'
  <2> DEFINE known == IF request = "resume" /\ file # NoFile
                      THEN file ELSE [done |-> {}, failed |-> {}]
             c == [Idle EXCEPT !.pc = "load",
                               !.pairs = Study \ known.done,
                               !.todo = Study \ known.done,
                               !.done = known.done,
                               !.failed = known.failed,
                               !.processed = Cardinality(known.done) + Cardinality(known.failed)]
  <2>1. known.done \subseteq Study /\ known.failed \subseteq Study  BY DEF TypeOK, Checkpoint
  <2>2. Cardinality(known.done) + Cardinality(known.failed) \in Nat  BY <2>1, CountType
  <2>3. run' = [run EXCEPT ![r] = c]  BY <1>1 DEF Start
  <2> HIDE DEF known
  <2>4. c \in RunState  BY <2>1, <2>2 DEF Idle, RunState
  <2> HIDE DEF c
  <2>5. run' \in [Run -> RunState]  BY <2>3, <2>4 DEF TypeOK
  <2> QED  BY <1>0, <1>1, <2>5 DEF Start, Drop, TypeOK
<1>2. ASSUME NEW r \in Run, Step(r) PROVE TypeOK'  BY <1>0, <1>2, StepType
<1>3. ASSUME NEW r \in Run, Cancel(r) PROVE TypeOK'
  <2>1. [run[r] EXCEPT !.token = TRUE] \in RunState  BY DEF TypeOK, RunState
  <2>2. run' \in [Run -> RunState]  BY <2>1, <1>3 DEF Cancel, TypeOK
  <2> QED  BY <1>0, <1>3, <2>2 DEF Cancel, TypeOK
<1>4. CASE Crash
  <2>1. run' \in [Run -> RunState]  BY <1>4, BlankRuns DEF Crash, TypeOK
  <2> QED  BY <1>0, <1>4, <2>1 DEF Crash, TypeOK
<1>5. CASE RecreateIndex  BY <1>0, <1>5 DEF RecreateIndex, Drop, TypeOK
<1>6. CASE UNCHANGED allVars  BY <1>0, <1>6 DEF allVars, TypeOK
<1> QED  BY <1>1, <1>2, <1>3, <1>4, <1>5, <1>6 DEF Next

\* The variables keep their types, whatever is asked for and whatever fails.
THEOREM TypeCorrect == Spec => []TypeOK
  BY TypeInit, TypeNext, PTL DEF Spec

-----------------------------------------------------------------------------
(***************************************************************************)
(* The inductive invariant. Beside the three properties it says of every   *)
(* run's memory what makes the next mark right: what is marked done is in  *)
(* the index, a document on its way belongs to a study the run has loaded, *)
(* and each document of a loaded study is on its way, rejected or there.   *)
(***************************************************************************)

SoundRun(c) ==
  /\ \A s \in c.done : Written(s)
  /\ \A d \in c.pending \cup c.answered : d[1] \in c.loaded
  /\ c.pc = "load" =>
       \A s \in c.loaded : DocsOf(s) \subseteq index \cup c.pending \cup c.rejected

Inv ==
  /\ CheckpointedMeansWritten
  /\ OldUntilNew
  /\ IndexedMeansWritten
  /\ ~recreated => \A r \in Run : SoundRun(run[r])

\* A run that has not begun, or is over, has nothing to be wrong about.
LEMMA BlankSound == SoundRun(Idle) /\ SoundRun(Over)
  BY DEF SoundRun, Idle, Over

\* The invariant after a step of run r that leaves the index no smaller: what
\* has to be shown of the run itself and of the file, and no more.
LEMMA RunSteps ==
  ASSUME TypeOK, TypeOK', Inv, ~recreated, ~recreated', UNCHANGED backend,
         NEW r \in Run,
         index \subseteq index', OldUntilNew', IndexedMeansWritten',
         \A q \in Run \ {r} : run'[q] = run[q],
         SoundRun(run[r])',
         file' = file \/ (file' # NoFile => \A s \in file'.done : DocsOf(s) \subseteq index')
  PROVE  Inv'
<1>1. CheckpointedMeansWritten'  BY SameDocs DEF Inv, CheckpointedMeansWritten, Written
<1>2. ASSUME NEW q \in Run PROVE SoundRun(run[q])'
  <2>1. CASE q = r  BY <2>1
  <2>2. CASE q # r
    <3>1. run'[q] = run[q]  BY <2>2
    <3>2. SoundRun(run[q])  BY DEF Inv
    <3> QED  BY <3>1, <3>2, SameDocs DEF SoundRun, Written
  <2> QED  BY <2>1, <2>2
<1> QED  BY <1>1, <1>2 DEF Inv

\* Old chunks and reports cannot go wrong while the index grows and they stay.
LEMMA BooksKept ==
  ASSUME Inv, ~recreated, index \subseteq index', UNCHANGED backend, UNCHANGED <<old, reported>>
  PROVE  OldUntilNew' /\ IndexedMeansWritten'
  BY SameDocs DEF Inv, OldUntilNew, IndexedMeansWritten, Written

\* mark() is right when the study is written, or is marked as failed.
LEMMA MarkSound ==
  ASSUME TypeOK, TypeOK', Inv, ~recreated, ~recreated', UNCHANGED backend,
         NEW r \in Run, NEW c \in RunState, NEW s \in Study,
         NEW ok \in BOOLEAN, Mark(r, c, s, ok), SoundRun(c), ok => Written(s),
         UNCHANGED <<index, old, vars, reported>>
  PROVE  Inv'
<1> DEFINE full == c.since + 1 >= SaveEvery \/ c.processed + 1 >= Total
           m == [c EXCEPT !.done = IF ok THEN @ \cup {s} ELSE @,
                          !.failed = IF ok THEN @ \ {s} ELSE @ \cup {s},
                          !.processed = @ + 1,
                          !.since = IF full THEN 0 ELSE @ + 1]
<1>1. run' = [run EXCEPT ![r] = m]  BY DEF Mark
<1>2. file' = [done |-> m.done, failed |-> m.failed] \/ file' = file  BY DEF Mark, Save
<1> HIDE DEF full
<1>3. /\ m.done \subseteq c.done \cup (IF ok THEN {s} ELSE {})
      /\ m.pc = c.pc /\ m.loaded = c.loaded /\ m.pending = c.pending
      /\ m.answered = c.answered /\ m.rejected = c.rejected
  BY DEF RunState
<1> HIDE DEF m
<1>4. run'[r] = m /\ \A q \in Run \ {r} : run'[q] = run[q]  BY <1>1 DEF TypeOK
<1>5. \A t \in m.done : Written(t)  BY <1>3 DEF SoundRun
<1>6. SoundRun(run[r])'  BY <1>3, <1>4, <1>5, SameDocs DEF SoundRun, Written
<1>7. file' = file \/ (file' # NoFile => \A t \in file'.done : DocsOf(t) \subseteq index')
  BY <1>2, <1>5 DEF Written
<1> QED  BY <1>4, <1>6, <1>7, BooksKept, RunSteps

-----------------------------------------------------------------------------
(* Every step keeps the invariant.                                         *)

\* A run begins: with nothing, or with a checkpoint whose studies are written.
LEMMA StartSound ==
  ASSUME TypeOK, TypeOK', Inv, ~recreated, ~recreated', UNCHANGED backend,
         NEW r \in Run, NEW request \in Requests, Start(r, request)
  PROVE  Inv'
<1> DEFINE known == IF request = "resume" /\ file # NoFile
                    THEN file ELSE [done |-> {}, failed |-> {}]
<1>1. UNCHANGED <<file, index, old, vars, reported>>  BY DEF Start, Drop
<1>2. /\ run'[r].pc = "load" /\ run'[r].done = known.done /\ run'[r].loaded = {}
      /\ run'[r].pending = {} /\ run'[r].answered = {}
      /\ \A q \in Run \ {r} : run'[q] = run[q]
  BY DEF Start, TypeOK, Idle
<1>3. \A s \in known.done : Written(s)  BY DEF Inv, CheckpointedMeansWritten
<1> HIDE DEF known
<1>4. SoundRun(run[r])'  BY <1>1, <1>2, <1>3, SameDocs DEF SoundRun, Written
<1> QED  BY <1>1, <1>2, <1>4, BooksKept, RunSteps

\* A row that does not load is marked as failed; one that loads has all of its
\* documents on their way, and one without documents is written already.
LEMMA LoadSound ==
  ASSUME TypeOK, TypeOK', Inv, ~recreated, ~recreated', UNCHANGED backend,
         NEW r \in Run, NEW s \in Study, Load(r, s)
  PROVE  Inv'
<1> DEFINE c == run[r]
           d == [c EXCEPT !.todo = @ \ {s}]
           l == [d EXCEPT !.loaded = @ \cup {s}, !.pending = @ \cup DocsOf(s)]
<1>0. c \in RunState /\ SoundRun(c)  BY DEF TypeOK, Inv
<1>1. d \in RunState  BY <1>0 DEF RunState
<1>2. l \in RunState  BY <1>1, DocStudy DEF RunState
<1>3. SoundRun(d)
  <2>1. /\ d.done = c.done /\ d.pending = c.pending /\ d.answered = c.answered
        /\ d.loaded = c.loaded /\ d.rejected = c.rejected /\ d.pc = c.pc
    BY <1>0 DEF RunState
  <2> HIDE DEF d, c
  <2> QED  BY <1>0, <2>1 DEF SoundRun
<1>4. SoundRun(l)
  <2>1. /\ l.done = d.done /\ l.pending = d.pending \cup DocsOf(s)
        /\ l.answered = d.answered /\ l.loaded = d.loaded \cup {s}
        /\ l.rejected = d.rejected /\ l.pc = d.pc
    BY <1>1 DEF RunState
  <2> HIDE DEF l, d
  <2>2. \A e \in DocsOf(s) : e[1] = s  BY DocStudy
  <2> QED  BY <1>3, <2>1, <2>2 DEF SoundRun
<1>5. \/ Mark(r, d, s, FALSE)
      \/ DocsOf(s) = {} /\ Mark(r, l, s, TRUE)
      \/ run' = [run EXCEPT ![r] = l] /\ UNCHANGED file
  BY DEF Load
<1>6. UNCHANGED <<index, old, vars, reported>>  BY DEF Load
<1> HIDE DEF c, d, l
<1>7. CASE Mark(r, d, s, FALSE)  BY <1>1, <1>3, <1>6, <1>7, MarkSound
<1>8. CASE DocsOf(s) = {} /\ Mark(r, l, s, TRUE)
  <2>1. Written(s)  BY <1>8 DEF Written
  <2> QED  BY <1>2, <1>4, <1>6, <1>8, <2>1, MarkSound
<1>9. CASE run' = [run EXCEPT ![r] = l] /\ UNCHANGED file
  <2>1. run'[r] = l /\ \A q \in Run \ {r} : run'[q] = run[q]  BY <1>9 DEF TypeOK
  <2>2. SoundRun(run[r])'  BY <1>4, <1>6, <2>1, SameDocs DEF SoundRun, Written
  <2> QED  BY <1>6, <1>9, <2>1, <2>2, BooksKept, RunSteps
<1> QED  BY <1>5, <1>7, <1>8, <1>9

\* An answered document is rejected, or in the index.
LEMMA SendSound ==
  ASSUME TypeOK, TypeOK', Inv, ~recreated, ~recreated', UNCHANGED backend,
         NEW r \in Run,
         NEW batch \in SUBSET run[r].pending, NEW bad \in SUBSET batch, Send(r, batch, bad)
  PROVE  Inv'
<1>1. /\ run'[r].done = run[r].done
      /\ run'[r].pending = run[r].pending \ batch
      /\ run'[r].answered = batch
      /\ run'[r].rejected = run[r].rejected \cup bad
      /\ run'[r].loaded = run[r].loaded /\ run'[r].pc = run[r].pc
      /\ \A q \in Run \ {r} : run'[q] = run[q]
  BY DEF Send, TypeOK, RunState
<1>2. index' = index \cup (batch \ bad) /\ UNCHANGED <<file, old, reported>>  BY DEF Send
<1>3. SoundRun(run[r])  BY DEF Inv
<1>4. SoundRun(run[r])'  BY <1>1, <1>2, <1>3, SameDocs DEF SoundRun, Written
<1> QED  BY <1>1, <1>2, <1>4, BooksKept, RunSteps

\* The study of the document confirmed last has nothing on its way any more: if
\* nothing of it was rejected, all of it is in the index.
LEMMA ConfirmSound ==
  ASSUME TypeOK, TypeOK', Inv, ~recreated, ~recreated', UNCHANGED backend,
         NEW r \in Run, NEW d \in run[r].answered, Confirm(r, d)
  PROVE  Inv'
<1> DEFINE c == run[r]
           e == [c EXCEPT !.answered = @ \ {d}]
           s == d[1]
           ok == DocsOf(s) \cap e.rejected = {}
<1>0. c \in RunState /\ SoundRun(c) /\ c.pc = "load"  BY DEF TypeOK, Inv, Confirm
<1>1. e \in RunState  BY <1>0 DEF RunState
<1>2. s \in Study  BY <1>0, DocStudy DEF RunState
<1>3. /\ e.done = c.done /\ e.pending = c.pending /\ e.answered = c.answered \ {d}
      /\ e.loaded = c.loaded /\ e.rejected = c.rejected /\ e.pc = c.pc
  BY <1>0 DEF RunState
<1>4. s \in c.loaded  BY <1>0 DEF SoundRun
<1>5. \/ DocsOf(s) \cap (e.pending \cup e.answered) = {} /\ Mark(r, e, s, ok)
      \/ run' = [run EXCEPT ![r] = e] /\ UNCHANGED file
  BY DEF Confirm
<1>6. UNCHANGED <<index, old, vars, reported>>  BY DEF Confirm
<1> HIDE DEF e, c, s
<1>7. SoundRun(e)  BY <1>0, <1>3 DEF SoundRun
<1>8. CASE DocsOf(s) \cap (e.pending \cup e.answered) = {} /\ Mark(r, e, s, ok)
  <2>1. DocsOf(s) \subseteq index \cup c.pending \cup c.rejected
    BY <1>0, <1>4 DEF SoundRun
  <2>2. ok => Written(s)  BY <1>3, <1>8, <2>1 DEF Written
  <2>3. ok \in BOOLEAN  OBVIOUS
  <2> HIDE DEF ok
  <2> QED  BY <1>1, <1>2, <1>6, <1>7, <1>8, <2>2, <2>3, MarkSound
<1>9. CASE run' = [run EXCEPT ![r] = e] /\ UNCHANGED file
  <2>1. run'[r] = e /\ \A q \in Run \ {r} : run'[q] = run[q]  BY <1>9 DEF TypeOK
  <2>2. SoundRun(run[r])'  BY <1>6, <1>7, <2>1, SameDocs DEF SoundRun, Written
  <2> QED  BY <1>6, <1>9, <2>1, <2>2, BooksKept, RunSteps
<1> QED  BY <1>5, <1>8, <1>9

\* Pruning takes old chunks of studies whose new ones were answered, all of
\* them, and not rejected.
LEMMA PruneSound ==
  ASSUME TypeOK, TypeOK', Inv, ~recreated, ~recreated', UNCHANGED backend,
         NEW r \in Run, Prune(r)
  PROVE  Inv'
<1> DEFINE c == run[r]
<1>0. SoundRun(c) /\ c.pc = "load" /\ c.pending = {} /\ c.loaded \subseteq Study
  BY DEF TypeOK, Inv, Prune, Drained, RunState
<1>1. /\ run'[r].done = c.done /\ run'[r].pending = c.pending /\ run'[r].answered = c.answered
      /\ run'[r].loaded = c.loaded /\ run'[r].pc = "finalize"
      /\ \A q \in Run \ {r} : run'[q] = run[q]
  BY DEF Prune, TypeOK, RunState
<1>2. UNCHANGED <<file, index, reported>>  BY DEF Prune
<1>3. OldUntilNew'
  <2> SUFFICES ASSUME NEW s \in Stale, s \notin old' PROVE ChunksOf(s) \subseteq index
    BY <1>2, SameDocs DEF OldUntilNew
  <2>1. CASE s \notin old  BY <2>1 DEF Inv, OldUntilNew
  <2>2. CASE s \in c.loaded /\ ChunksOf(s) \cap c.rejected = {}
    <3>1. DocsOf(s) \subseteq index \cup c.rejected  BY <1>0, <2>2 DEF SoundRun
    <3>2. ChunksOf(s) \subseteq DocsOf(s)  BY <1>0, <2>2, DocStudy
    <3> QED  BY <2>2, <3>1, <3>2
  <2> QED  BY <2>1, <2>2 DEF Prune
<1>4. IndexedMeansWritten'  BY <1>2, SameDocs DEF Inv, IndexedMeansWritten, Written
<1>5. SoundRun(run[r])'  BY <1>0, <1>1, <1>2, SameDocs DEF SoundRun, Written
<1> QED  BY <1>1, <1>2, <1>3, <1>4, <1>5, RunSteps

\* What an aborted run leaves in the file is what it had marked.
LEMMA AbortSound ==
  ASSUME TypeOK, TypeOK', Inv, ~recreated, ~recreated', UNCHANGED backend,
         NEW r \in Run, Abort(r)
  PROVE  Inv'
<1>1. index \subseteq index' /\ UNCHANGED <<old, reported>>  BY DEF Abort
<1>2. SoundRun(run[r])  BY DEF Inv
<1>3. \A q \in Run \ {r} : run'[q] = run[q]  BY DEF Abort, TypeOK
<1>4. file' = file \/ (file' # NoFile => \A s \in file'.done : DocsOf(s) \subseteq index')
  <2>1. \A s \in run[r].done : DocsOf(s) \subseteq index'  BY <1>1, <1>2 DEF SoundRun, Written
  <2>2. file' = file \/ file' = [done |-> run[r].done, failed |-> run[r].failed]
    BY DEF Abort, Save
  <2> QED  BY <2>1, <2>2
<1>5. SoundRun(run[r])'
  <2>1. CASE OpenSearch
    <3>1. run'[r] = Over  BY <2>1 DEF Abort, TypeOK
    <3> QED  BY <3>1 DEF SoundRun, Over, Idle
  <2>2. CASE ~OpenSearch
    <3> DEFINE e == [run[r] EXCEPT !.pc = "finalize", !.pending = {}, !.aborted = TRUE]
    <3>0. run[r] \in RunState  BY DEF TypeOK
    <3>1. run' = [run EXCEPT ![r] = e] /\ index' = index  BY <2>2 DEF Abort
    <3>2. /\ e.done = run[r].done /\ e.pending = {} /\ e.pc = "finalize"
          /\ e.answered = run[r].answered /\ e.loaded = run[r].loaded
      BY <3>0 DEF RunState
    <3> HIDE DEF e
    <3>3. run'[r] = e  BY <3>1 DEF TypeOK
    <3> QED  BY <1>2, <3>1, <3>2, <3>3, SameDocs DEF SoundRun, Written
  <2> QED  BY <2>1, <2>2
<1> QED  BY <1>1, <1>3, <1>4, <1>5, BooksKept, RunSteps

\* Once the stream is over a run only moves on: its marks stay as they are.
LEMMA MovesOn ==
  ASSUME TypeOK, TypeOK', Inv, ~recreated, ~recreated', UNCHANGED backend,
         NEW r \in Run, Finalize(r) \/ \E synced : Variables(r, synced)
  PROVE  Inv'
<1>1. /\ run'[r].done = run[r].done /\ run'[r].pending = run[r].pending
      /\ run'[r].answered = run[r].answered /\ run'[r].loaded = run[r].loaded
      /\ run'[r].pc # "load"
      /\ \A q \in Run \ {r} : run'[q] = run[q]
  BY DEF Finalize, Variables, TypeOK, RunState
<1>2. UNCHANGED <<index, old, reported>>  BY DEF Finalize, Variables
<1>3. SoundRun(run[r])  BY DEF Inv
<1>4. SoundRun(run[r])'  BY <1>1, <1>2, <1>3, SameDocs DEF SoundRun, Written
<1>5. \/ file' = file \/ file' = NoFile
      \/ file' = [done |-> run[r].done, failed |-> run[r].failed]
  BY DEF Finalize, Variables, Save
<1>6. file' = file \/ (file' # NoFile => \A s \in file'.done : DocsOf(s) \subseteq index')
  BY <1>2, <1>3, <1>5 DEF SoundRun, Written
<1> QED  BY <1>1, <1>2, <1>4, <1>6, BooksKept, RunSteps

\* A run reports as indexed only what it has marked done.
LEMMA ReportSound ==
  ASSUME TypeOK, TypeOK', Inv, ~recreated, ~recreated', UNCHANGED backend,
         NEW r \in Run, Report(r)
  PROVE  Inv'
<1>1. UNCHANGED <<file, index, old>>  BY DEF Report
<1>2. run'[r] = Over /\ \A q \in Run \ {r} : run'[q] = run[q]  BY DEF Report, TypeOK
<1>3. SoundRun(run[r])'  BY <1>2 DEF SoundRun, Over, Idle
<1>4. OldUntilNew'  BY <1>1, SameDocs DEF Inv, OldUntilNew
<1>5. IndexedMeansWritten'
  <2> SUFFICES ASSUME NEW s \in Study, reported'[s] = "indexed" PROVE Written(s)
    BY <1>1, SameDocs DEF IndexedMeansWritten, Written
  <2>1. CASE reported'[s] = reported[s]  BY <2>1 DEF Inv, IndexedMeansWritten
  <2>2. CASE reported'[s] # reported[s]
    <3>1. s \in Indexed(r)  BY <2>2 DEF Report
    <3>2. s \in run[r].done  BY <3>1 DEF Indexed
    <3> QED  BY <3>2 DEF Inv, SoundRun
  <2> QED  BY <2>1, <2>2
<1> QED  BY <1>1, <1>2, <1>3, <1>4, <1>5, RunSteps

\* Init and every step of a system that keeps its index.
LEMMA InvInit == Init => Inv
<1> SUFFICES ASSUME Init PROVE Inv  OBVIOUS
<1>1. \A r \in Run : run[r] = Idle  BY DEF Init
<1>2. file = NoFile /\ old = Stale /\ \A s \in Study : reported[s] = "none"  BY DEF Init
<1> QED  BY <1>1, <1>2, BlankSound
         DEF Inv, CheckpointedMeansWritten, OldUntilNew, IndexedMeansWritten

\* No step forgets that the index was dropped.
LEMMA DroppedForGood == TypeOK /\ [Next]_allVars /\ recreated => recreated'
<1> SUFFICES ASSUME TypeOK, [Next]_allVars, recreated PROVE recreated'  OBVIOUS
<1>1. ASSUME NEW r \in Run, NEW request \in Requests, Start(r, request) PROVE recreated'
  BY <1>1 DEF Start, Drop
<1>2. ASSUME NEW r \in Run, Step(r) PROVE recreated'
  BY <1>2 DEF Step, Load, Send, Confirm, Prune, Abort, Finalize, Variables, Report
<1>3. ASSUME NEW r \in Run, Cancel(r) PROVE recreated'  BY <1>3 DEF Cancel
<1>4. CASE Crash  BY <1>4 DEF Crash
<1>5. CASE RecreateIndex  BY <1>5 DEF RecreateIndex, Drop
<1>6. CASE UNCHANGED allVars  BY <1>6 DEF allVars
<1> QED  BY <1>1, <1>2, <1>3, <1>4, <1>5, <1>6 DEF Next

\* One case per action.
LEMMA InvNext == TypeOK /\ Inv /\ [Next]_allVars => Inv'
<1> SUFFICES ASSUME TypeOK, Inv, [Next]_allVars PROVE Inv'  OBVIOUS
<1>0. TypeOK' /\ UNCHANGED backend  BY TypeNext DEF Next, allVars
<1>1. CASE recreated'
  BY <1>1 DEF Inv, CheckpointedMeansWritten, OldUntilNew, IndexedMeansWritten
<1>2. CASE ~recreated'
  <2>0. ~recreated  BY <1>2, DroppedForGood
  <2>1. ASSUME NEW r \in Run, NEW request \in Requests, Start(r, request) PROVE Inv'
    BY <1>0, <1>2, <2>0, <2>1, StartSound
  <2>2. ASSUME NEW r \in Run, Step(r) PROVE Inv'
    BY <1>0, <1>2, <2>0, <2>2, LoadSound, SendSound, ConfirmSound, PruneSound, AbortSound,
       MovesOn, ReportSound DEF Step
  <2>3. ASSUME NEW r \in Run, Cancel(r) PROVE Inv'
    <3>1. /\ run'[r].done = run[r].done /\ run'[r].pending = run[r].pending
          /\ run'[r].answered = run[r].answered /\ run'[r].loaded = run[r].loaded
          /\ run'[r].rejected = run[r].rejected /\ run'[r].pc = run[r].pc
          /\ \A q \in Run \ {r} : run'[q] = run[q]
      BY <2>3 DEF Cancel, TypeOK, RunState
    <3>2. UNCHANGED <<file, index, old, reported>>  BY <2>3 DEF Cancel
    <3>3. SoundRun(run[r])  BY <2>0 DEF Inv
    <3>4. SoundRun(run[r])'  BY <1>0, <3>1, <3>2, <3>3, SameDocs DEF SoundRun, Written
    <3> QED  BY <1>0, <1>2, <2>0, <3>1, <3>2, <3>4, BooksKept, RunSteps
  <2>4. CASE Crash
    <3>1. UNCHANGED <<file, index, old, reported>>  BY <2>4 DEF Crash
    <3>2. \A r \in Run : run'[r] = Over \/ run'[r] = run[r]  BY <2>4 DEF Crash
    <3>3. \A r \in Run : SoundRun(run[r])  BY <2>0 DEF Inv
    <3>4. ASSUME NEW r \in Run PROVE SoundRun(run[r])'
      <4>1. CASE run'[r] = Over  BY <4>1 DEF SoundRun, Over, Idle
      <4>2. CASE run'[r] = run[r]  BY <1>0, <3>1, <3>3, <4>2, SameDocs DEF SoundRun, Written
      <4> QED  BY <3>2, <4>1, <4>2
    <3>5. CheckpointedMeansWritten'
      BY <1>0, <2>0, <3>1, SameDocs DEF Inv, CheckpointedMeansWritten, Written
    <3> QED  BY <1>0, <2>0, <3>1, <3>4, <3>5, BooksKept DEF Inv
  <2>5. ~RecreateIndex  BY <1>2 DEF RecreateIndex, Drop
  <2>6. CASE UNCHANGED allVars
    BY <2>6, SameDocs DEF allVars, Inv, CheckpointedMeansWritten, OldUntilNew, IndexedMeansWritten,
                SoundRun, Written
  <2> QED  BY <2>1, <2>2, <2>3, <2>4, <2>5, <2>6 DEF Next
<1> QED  BY <1>1, <1>2

\* The three properties, in every reachable state.
LEMMA Invariance == Spec => []Inv
  BY TypeInit, TypeNext, InvInit, InvNext, PTL DEF Spec

\* A resume never skips a study that is not completely written, wherever the
\* runs before it were cancelled, crashed or aborted, and also when two ran at
\* once.
THEOREM CheckpointSound == Spec => []CheckpointedMeansWritten
<1>1. Inv => CheckpointedMeansWritten  BY DEF Inv
<1> QED  BY <1>1, Invariance, PTL

\* A study's old chunks are never pruned before all of its new ones are there.
THEOREM PruningSound == Spec => []OldUntilNew
<1>1. Inv => OldUntilNew  BY DEF Inv
<1> QED  BY <1>1, Invariance, PTL

\* NADA is told of no study as indexed whose documents are missing.
THEOREM ReportSoundness == Spec => []IndexedMeansWritten
<1>1. Inv => IndexedMeansWritten  BY DEF Inv
<1> QED  BY <1>1, Invariance, PTL

-----------------------------------------------------------------------------
(* What a run has accounted for: in its loop, each study is marked, still to    *)
(* be taken up, or has a document on its way; so once all is drained, each is    *)
(* marked, unless the run was told to stop before it was through.               *)

Met(c, s) ==
  s \in c.done \cup c.failed \cup c.todo \/ DocsOf(s) \cap (c.pending \cup c.answered) # {}

Reached(c) ==
  /\ c.pc = "load" => \A s \in Study : Met(c, s)
  /\ c.pc = "finalize" => c.token \/ c.done \cup c.failed = Study

Accounted == \A r \in Run : Reached(run[r])

LEMMA BlankReached == Reached(Idle) /\ Reached(Over)
  BY DEF Reached, Idle, Over

\* Being accounted for does not depend on what else changes.
LEMMA ReachedStays ==
  ASSUME UNCHANGED backend, \A q \in Run : Reached(run'[q])
  PROVE  Accounted'
  BY SameDocs DEF Accounted, Reached, Met

\* A step of one run.
LEMMA OneReaches ==
  ASSUME Accounted, UNCHANGED backend, NEW r \in Run,
         \A q \in Run \ {r} : run'[q] = run[q], Reached(run'[r])
  PROVE  Accounted'
<1>1. \A q \in Run : Reached(run'[q])  BY DEF Accounted
<1> QED  BY <1>1, ReachedStays

\* mark() accounts for the study it marks, and for no other any less.
LEMMA MarkReaches ==
  ASSUME TypeOK, Accounted, UNCHANGED backend, NEW r \in Run, NEW c \in RunState, NEW s \in Study,
         NEW ok \in BOOLEAN, Mark(r, c, s, ok), c.pc = "load",
         \A t \in Study \ {s} : Met(c, t)
  PROVE  Accounted'
<1> DEFINE full == c.since + 1 >= SaveEvery \/ c.processed + 1 >= Total
           m == [c EXCEPT !.done = IF ok THEN @ \cup {s} ELSE @,
                          !.failed = IF ok THEN @ \ {s} ELSE @ \cup {s},
                          !.processed = @ + 1,
                          !.since = IF full THEN 0 ELSE @ + 1]
<1>1. run' = [run EXCEPT ![r] = m]  BY DEF Mark
<1> HIDE DEF full
<1>2. /\ m.done = IF ok THEN c.done \cup {s} ELSE c.done
      /\ m.failed = IF ok THEN c.failed \ {s} ELSE c.failed \cup {s}
      /\ m.pc = "load" /\ m.todo = c.todo /\ m.pending = c.pending /\ m.answered = c.answered
  BY DEF RunState
<1> HIDE DEF m
<1>3. s \in m.done \cup m.failed /\ c.done \cup c.failed \subseteq m.done \cup m.failed  BY <1>2
<1>4. \A t \in Study : Met(m, t)  BY <1>2, <1>3 DEF Met
<1>5. Reached(m)  BY <1>2, <1>4 DEF Reached
<1>6. run'[r] = m /\ \A q \in Run \ {r} : run'[q] = run[q]  BY <1>1 DEF TypeOK
<1> QED  BY <1>5, <1>6, OneReaches

LEMMA StartReaches ==
  ASSUME TypeOK, Accounted, UNCHANGED backend, NEW r \in Run, NEW request \in Requests, Start(r, request)
  PROVE  Accounted'
<1> DEFINE known == IF request = "resume" /\ file # NoFile
                    THEN file ELSE [done |-> {}, failed |-> {}]
<1>1. /\ run'[r].pc = "load" /\ run'[r].done = known.done /\ run'[r].todo = Study \ known.done
      /\ \A q \in Run \ {r} : run'[q] = run[q]
  BY DEF Start, TypeOK, Idle
<1> HIDE DEF known
<1>2. Reached(run'[r])  BY <1>1 DEF Reached, Met
<1> QED  BY <1>1, <1>2, OneReaches

LEMMA LoadReaches ==
  ASSUME TypeOK, Accounted, UNCHANGED backend, NEW r \in Run, NEW s \in Study, Load(r, s)
  PROVE  Accounted'
<1> DEFINE c == run[r]
           d == [c EXCEPT !.todo = @ \ {s}]
           l == [d EXCEPT !.loaded = @ \cup {s}, !.pending = @ \cup DocsOf(s)]
<1>0. c \in RunState /\ c.pc = "load" /\ Reached(c)  BY DEF TypeOK, Accounted, Load
<1>1. d \in RunState  BY <1>0 DEF RunState
<1>2. l \in RunState  BY <1>1, DocStudy DEF RunState
<1>3. /\ d.done = c.done /\ d.failed = c.failed /\ d.pending = c.pending /\ d.pc = "load"
      /\ d.answered = c.answered /\ d.todo = c.todo \ {s}
      /\ l.done = c.done /\ l.failed = c.failed /\ l.pending = c.pending \cup DocsOf(s)
      /\ l.answered = c.answered /\ l.todo = c.todo \ {s} /\ l.pc = "load"
  BY <1>0 DEF RunState
<1>5. \/ Mark(r, d, s, FALSE)
      \/ Mark(r, l, s, TRUE)
      \/ DocsOf(s) # {} /\ run' = [run EXCEPT ![r] = l]
  BY DEF Load
<1> HIDE DEF c, d, l
<1>4. \A t \in Study \ {s} : Met(d, t) /\ Met(l, t)  BY <1>0, <1>3 DEF Reached, Met
<1>7. CASE Mark(r, d, s, FALSE)  BY <1>1, <1>3, <1>4, <1>7, MarkReaches
<1>8. CASE Mark(r, l, s, TRUE)  BY <1>2, <1>3, <1>4, <1>8, MarkReaches
<1>9. CASE DocsOf(s) # {} /\ run' = [run EXCEPT ![r] = l]
  <2>1. Met(l, s)  BY <1>3, <1>9 DEF Met
  <2>2. Reached(l)  BY <1>3, <1>4, <2>1 DEF Reached
  <2>3. run'[r] = l /\ \A q \in Run \ {r} : run'[q] = run[q]  BY <1>9 DEF TypeOK
  <2> QED  BY <2>2, <2>3, OneReaches
<1> QED  BY <1>5, <1>7, <1>8, <1>9

LEMMA SendReaches ==
  ASSUME TypeOK, Accounted, UNCHANGED backend, NEW r \in Run,
         NEW batch \in SUBSET run[r].pending, NEW bad \in SUBSET batch, Send(r, batch, bad)
  PROVE  Accounted'
<1>1. /\ run'[r].done = run[r].done /\ run'[r].failed = run[r].failed
      /\ run'[r].todo = run[r].todo /\ run'[r].pending = run[r].pending \ batch
      /\ run'[r].answered = batch /\ run'[r].pc = "load" /\ run[r].pc = "load"
      /\ run[r].answered = {}
      /\ \A q \in Run \ {r} : run'[q] = run[q]
  BY DEF Send, TypeOK, RunState
<1>2. run'[r].pending \cup run'[r].answered = run[r].pending \cup run[r].answered  BY <1>1
<1>3. Reached(run[r])  BY DEF Accounted
<1>4. Reached(run'[r])  BY <1>1, <1>2, <1>3 DEF Reached, Met
<1> QED  BY <1>1, <1>4, OneReaches

\* A document confirmed is one of its own study's, which is marked with its last.
LEMMA ConfirmReaches ==
  ASSUME TypeOK, Accounted, UNCHANGED backend, NEW r \in Run, NEW d \in run[r].answered, Confirm(r, d)
  PROVE  Accounted'
<1> DEFINE c == run[r]
           e == [c EXCEPT !.answered = @ \ {d}]
           s == d[1]
           ok == DocsOf(s) \cap e.rejected = {}
<1>0. c \in RunState /\ Reached(c) /\ c.pc = "load"  BY DEF TypeOK, Accounted, Confirm
<1>1. e \in RunState  BY <1>0 DEF RunState
<1>2. s \in Study  BY <1>0, DocStudy DEF RunState
<1>3. /\ e.done = c.done /\ e.failed = c.failed /\ e.todo = c.todo /\ e.pending = c.pending
      /\ e.answered = c.answered \ {d} /\ e.pc = "load"
  BY <1>0 DEF RunState
<1>5. \/ Mark(r, e, s, ok)
      \/ DocsOf(s) \cap (e.pending \cup e.answered) # {} /\ run' = [run EXCEPT ![r] = e]
  BY DEF Confirm
<1>6. ok \in BOOLEAN  OBVIOUS
<1>7. \A t \in Study \ {s} : d \notin DocsOf(t)  BY DocStudy
<1> HIDE DEF c, e, s, ok
<1>4. \A t \in Study \ {s} : Met(e, t)  BY <1>0, <1>3, <1>7 DEF Reached, Met
<1>8. CASE Mark(r, e, s, ok)  BY <1>1, <1>2, <1>3, <1>4, <1>6, <1>8, MarkReaches
<1>9. CASE DocsOf(s) \cap (e.pending \cup e.answered) # {} /\ run' = [run EXCEPT ![r] = e]
  <2>1. Met(e, s)  BY <1>9 DEF Met
  <2>2. Reached(e)  BY <1>3, <1>4, <2>1 DEF Reached
  <2>3. run'[r] = e /\ \A q \in Run \ {r} : run'[q] = run[q]  BY <1>9 DEF TypeOK
  <2> QED  BY <2>2, <2>3, OneReaches
<1> QED  BY <1>5, <1>8, <1>9

LEMMA RestReaches ==
  ASSUME TypeOK, Accounted, OpenSearch, UNCHANGED backend, NEW r \in Run,
         \/ Prune(r) \/ Abort(r) \/ Finalize(r) \/ (\E synced : Variables(r, synced))
         \/ Report(r) \/ Cancel(r)
  PROVE  Accounted'
<1>0. run[r] \in RunState /\ Reached(run[r])  BY DEF TypeOK, Accounted
<1>1. CASE Prune(r)
  <2>1. /\ run'[r].pc = "finalize" /\ run'[r].token = run[r].token
        /\ run'[r].done = run[r].done /\ run'[r].failed = run[r].failed
        /\ \A q \in Run \ {r} : run'[q] = run[q]
    BY <1>0, <1>1 DEF Prune, TypeOK, RunState
  <2>2. ASSUME ~run[r].token PROVE run[r].done \cup run[r].failed = Study
    <3>1. run[r].todo = {} /\ run[r].pending \cup run[r].answered = {} /\ run[r].pc = "load"
      BY <1>1, <2>2 DEF Prune, Drained
    <3>2. \A s \in Study : s \in run[r].done \cup run[r].failed  BY <1>0, <3>1 DEF Reached, Met
    <3> QED  BY <1>0, <3>2 DEF RunState
  <2>3. Reached(run'[r])  BY <2>1, <2>2 DEF Reached
  <2> QED  BY <2>1, <2>3, OneReaches
<1>2. CASE Abort(r) \/ Report(r)
  <2>1. run'[r] = Over /\ \A q \in Run \ {r} : run'[q] = run[q]  BY <1>2 DEF Abort, Report, TypeOK
  <2> QED  BY <2>1, BlankReached, OneReaches
<1>3. CASE Finalize(r) \/ \E synced : Variables(r, synced)
  <2>1. run'[r].pc \in {"variables", "report"} /\ \A q \in Run \ {r} : run'[q] = run[q]
    BY <1>0, <1>3 DEF Finalize, Variables, TypeOK, RunState
  <2> QED  BY <2>1, OneReaches DEF Reached
<1>4. CASE Cancel(r)
  <2>1. /\ run'[r].pc = run[r].pc /\ run'[r].token /\ run'[r].done = run[r].done
        /\ run'[r].failed = run[r].failed /\ run'[r].todo = run[r].todo
        /\ run'[r].pending = run[r].pending /\ run'[r].answered = run[r].answered
        /\ \A q \in Run \ {r} : run'[q] = run[q]
    BY <1>0, <1>4 DEF Cancel, TypeOK, RunState
  <2>2. Reached(run'[r])  BY <1>0, <2>1 DEF Reached, Met
  <2> QED  BY <2>1, <2>2, OneReaches
<1> QED  BY <1>1, <1>2, <1>3, <1>4

LEMMA AccountedNext ==
  TypeOK /\ (OpenSearch => Accounted) /\ [Next]_allVars => (OpenSearch => Accounted)'
<1> SUFFICES ASSUME TypeOK, Accounted, OpenSearch, [Next]_allVars PROVE Accounted'
  BY DEF OpenSearch, Next, allVars
<1>0. UNCHANGED backend  BY DEF Next, allVars
<1>1. ASSUME NEW r \in Run, (\E request \in Requests : Start(r, request)) \/ Step(r) \/ Cancel(r)
      PROVE  Accounted'
  BY <1>0, <1>1, StartReaches, LoadReaches, SendReaches, ConfirmReaches, RestReaches DEF Step
<1>2. CASE Crash
  <2>1. \A r \in Run : run'[r] = Over \/ run'[r] = run[r]  BY <1>2 DEF Crash
  <2>2. \A r \in Run : Reached(run'[r])  BY <2>1, BlankReached DEF Accounted
  <2> QED  BY <1>0, <2>2, ReachedStays
<1>3. CASE RecreateIndex \/ UNCHANGED allVars
  <2>1. \A r \in Run : Reached(run'[r])  BY <1>3 DEF RecreateIndex, allVars, Accounted
  <2> QED  BY <1>0, <2>1, ReachedStays
<1> QED  BY <1>1, <1>2, <1>3 DEF Next

\* service.py:817, on OpenSearch: a run that was not cancelled removes its checkpoint only
\* when every study of the catalog is marked, as done or as failed, whatever it resumed,
\* however its bulk requests mixed studies and whichever run was beside it. (On Qdrant an
\* aborted run returns as if it were through: ingest/qdrant_writer.py:270.)
THEOREM EveryStudyMet == Spec => EveryStudyAccounted
<1> DEFINE Through == \A r \in Run :
                        OpenSearch /\ run[r].pc = "finalize" /\ ~run[r].token
                          /\ run'[r].pc \in {"variables", "report"}
                          => run[r].done \cup run[r].failed = Study
<1>1. Init => Accounted
  <2> SUFFICES ASSUME Init PROVE Accounted  OBVIOUS
  <2>1. \A r \in Run : run[r] = Idle  BY DEF Init
  <2> QED  BY <2>1, BlankReached DEF Accounted
<1>2. (OpenSearch => Accounted) /\ [Next]_allVars => [Through]_allVars  BY DEF Accounted, Reached
<1> QED  BY <1>1, <1>2, TypeInit, TypeNext, AccountedNext, PTL DEF Spec, EveryStudyAccounted

=============================================================================
